--------------------------------- MODULE App ---------------------------------
(***************************************************************************)
(* The application (bin/src/app.rs) around the settings actor and the two  *)
(* components that follow it, stacks and sol_artifacts: initialization in  *)
(* the order of `init`, the receiver tasks that subscribe to the bus some  *)
(* time after they are spawned, the user's commands once there is a        *)
(* window, and the end of the process by exit or by a crash.               *)
(***************************************************************************)
EXTENDS Stacks, Artifacts

VARIABLE up   \* how far initialization is

ASSUME AppAssumption == {"settings", "stacks", "artifacts"} \subseteq Receivers

vars == <<settingsVars, stacksVars, artifactsVars, inbox, subscribed, unheard,
          left, up>>

Spawned == CASE up \in {"off", "exiting"} -> {}
             [] up = "settings"  -> {"settings"}
             [] up = "artifacts" -> {"settings", "artifacts"}
             [] OTHER -> Receivers \ (IF engine = "none" THEN {"stacks"} ELSE {})
------------------------------------------------------------------------------
(* init: the settings actor, which loads and saves its file, *)
Start ==
  /\ up = "off"
  /\ StartSettings
  /\ up' = "settings"
  /\ StartStacks /\ StartArtifacts
  /\ inbox' = [r \in Receivers |-> <<>>] /\ subscribed' = {} /\ unheard' = {}
  /\ UNCHANGED left

(* sol_artifacts, *)
StartedArtifacts ==
  /\ up = "settings" /\ up' = "artifacts"
  /\ InitArtifacts
  /\ UNCHANGED stacksVars

(* and stacks, after which the window is shown. *)
StartedStacks ==
  /\ up = "artifacts" /\ up' = "ready"
  /\ \/ InitStacks
     \/ engine = "none" /\ UNCHANGED <<settingsVars, stacksVars, inbox, subscribed, unheard, left>>
  /\ UNCHANGED artifactsVars

(* A receiver task subscribes. *)
Subscribe(r) ==
  /\ r \in Spawned \ subscribed
  /\ subscribed' = subscribed \cup {r}
  /\ UNCHANGED <<settingsVars, stacksVars, artifactsVars, inbox, unheard, left, up>>

(* The process is killed, *)
Crash ==
  /\ up \notin {"off", "exiting"} /\ Uses("restarts")
  /\ up' = "off"
  /\ UNCHANGED <<settingsVars, stacksVars, artifactsVars, inbox, subscribed, unheard>>

(* or exits: RunEvent::Exit shuts the stacks down before the end. *)
Exit ==
  /\ up = "ready" /\ left["restarts"] > 0
  /\ up' = "exiting"
  /\ Shutdown
  /\ UNCHANGED <<settingsVars, enabled, port, stacksMail, engine, shut, commandVars,
                 artifactsVars, inbox, subscribed, unheard>>

Ended ==
  /\ up = "exiting" /\ Uses("restarts")
  /\ up' = "off"
  /\ UNCHANGED <<settingsVars, stacksVars, artifactsVars, inbox, subscribed, unheard>>

Init ==
  /\ up = "off"
  /\ file \in FirstFiles /\ settings = DefaultSettings
  /\ mail = <<>> /\ form = NoForm /\ told = {}
  /\ inbox = [r \in Receivers |-> <<>>] /\ subscribed = {} /\ unheard = {}
  /\ left \in Budgets
  /\ enabled = FALSE /\ manager = "Initializing" /\ stacksMail = <<>>
  /\ port \in Ports /\ engine \in Engines /\ container = NoPort
  /\ leftover = FALSE /\ shut = FALSE /\ slugs = {} /\ nets = {} /\ torn = {}
  /\ creating = [s \in Slugs |-> "no"] /\ removing = [s \in Slugs |-> "no"]
  /\ roots = {} /\ abis = {} /\ triggers = 0 /\ dropped = 0 /\ artMail = <<>>
  /\ artBusy = Idle
  /\ built = {} /\ incomplete = {} /\ complete = {} /\ passedOver = {}
------------------------------------------------------------------------------
Running == up \notin {"off", "exiting"}

Boot == Ended \/ Start \/ StartedArtifacts \/ StartedStacks

SettingsActs ==
  Running /\ SettingsStep /\ UNCHANGED <<stacksVars, artifactsVars, up>>
SettingsHears ==
  Running /\ SettingsReceiver /\ UNCHANGED <<stacksVars, artifactsVars, up>>

StacksActs  == up = "ready" /\ HandleSetEnabled /\ UNCHANGED <<artifactsVars, up>>
StacksHears == up = "ready" /\ StacksReceiver /\ UNCHANGED <<artifactsVars, up>>

ArtifactsActs ==
  up \in {"artifacts", "ready"} /\ ArtifactsStep /\ UNCHANGED <<stacksVars, up>>
ArtifactsHears ==
  up \in {"artifacts", "ready"} /\ ArtifactsReceiver /\ UNCHANGED <<stacksVars, up>>

CommandActs(s) ==
  /\ up = "ready" /\ StackProgress(s) /\ StacksUnchanged
  /\ UNCHANGED <<artifactsVars, up>>

UserActs ==
  /\ up = "ready"
  /\ \/ /\ \E c \in Commands : SettingsCommand(c)
        /\ UNCHANGED stacksVars
     \/ (\E s \in Slugs : StackCommand(s)) /\ StacksUnchanged
     \/ StacksShutdown
  /\ UNCHANGED <<artifactsVars, up>>

WorldActs ==
  \/ /\ Running
     /\ \E kind \in Handled["settings"] : Announced(kind)
     /\ UNCHANGED <<stacksVars, artifactsVars, up>>
  \/ /\ (\E f \in Files : Build(f)) \/ (Running /\ \E c \in Contracts : ContractFound(c))
     /\ UNCHANGED <<stacksVars, up>>
  \/ ContainerDies /\ UNCHANGED <<artifactsVars, up>>

(* Messages of other kinds fill the ring of the bus. *)
BusLags ==
  /\ Running
  /\ \E r \in subscribed : Lag(r)
  /\ UNCHANGED <<stacksVars, artifactsVars, up>>

Tasks ==
  \/ SettingsActs \/ SettingsHears \/ StacksActs \/ StacksHears
  \/ ArtifactsActs \/ ArtifactsHears
  \/ \E s \in Slugs : CommandActs(s)
  \/ \E r \in Receivers : Subscribe(r)

Next == Boot \/ Crash \/ Exit \/ Tasks \/ UserActs \/ WorldActs \/ BusLags

(* Tasks run when they can, and the user starts the application again. *)
Fairness ==
  /\ WF_vars(Boot) /\ \A r \in Receivers : WF_vars(Subscribe(r))
  /\ WF_vars(SettingsActs) /\ WF_vars(SettingsHears)
  /\ WF_vars(StacksActs) /\ WF_vars(StacksHears)
  /\ WF_vars(ArtifactsActs) /\ WF_vars(ArtifactsHears)
  /\ \A s \in Slugs : WF_vars(CommandActs(s))

Spec     == Init /\ [][Next]_vars
FairSpec == Spec /\ Fairness
------------------------------------------------------------------------------
(* What a form that fails half-way leaves unsaved is confined to the fields
   it takes before the last one: the setting that starts and stops the
   container, the log level, the aliases and the onboarding are in memory
   what they are in the file, as long as every write has succeeded. *)
SavedFields ==
  Running /\ "disk" \notin left.failed =>
    /\ \A f \in {"rustLog", "runLocalStacks"} : settings.fields[f] = file.fields[f]
    /\ settings.aliases = file.aliases /\ settings.steps = file.steps
    /\ settings.hidden = file.hidden

(* When nothing is on its way to the stacks actor, its `enabled` is the
   setting, however updates were queued, overtaken, re-read or lost to lag -
   except while the last announcement is one that the receiver never saw,
   because it had not subscribed or because the ring was full, after a change
   that could not be saved, and where the program was built without stacks. *)
EnabledFollows ==
  /\ up = "ready" /\ engine # "none"
  /\ "disk" \notin left.failed /\ "stacks" \notin unheard
  /\ inbox["stacks"] = <<>> /\ stacksMail = <<>>
  => enabled = settings.fields["runLocalStacks"]

(* The handler of a form tells its own actor a step while the mailbox is full,
   and waits for ever. *)
WaitsForItself ==
  /\ form # NoForm /\ form.at \in Keys
  /\ form.at \in DOMAIN form.map /\ StepOf(form.at) \notin settings.steps
  /\ Len(mail) = MailboxSize

(* A docker command failed, or the container died, and the state of the actor
   still shows it: an error, the Initializing that nothing leaves, or Running
   against the setting or without a container. *)
DockerTrouble ==
  /\ "docker" \in left.failed
  /\ \/ manager \in {"Error", "Initializing"}
     \/ manager = "Running" /\ ~(enabled /\ IsContainerRunning)

(* The container ends up running exactly when the setting says so, unless the
   actor is in trouble with docker, the user shut the container down, docker
   still has the container of another port, a crash left it running, the last
   announcement was never seen or not made, the settings actor waits for
   itself, or the program was built without stacks. *)
Excused ==
  \/ engine = "none" \/ WaitsForItself
  \/ "disk" \in left.failed \/ "stacks" \in unheard
  \/ DockerTrouble \/ shut \/ leftover \/ container \notin {port, NoPort}

ContainerSettles ==
  <>[](Excused \/ (container = port) = settings.fields["runLocalStacks"])

(* Every stack network belongs to a stack, unless its removal is still to
   be announced or was cut through by a creation or a crash. *)
NetworkHasStack ==
  \A s \in nets \ slugs : removing[s] = "removed" \/ s \in torn

(* The debounce counter is the number of updates posted and not handled,
   plus those that did not fit: it never passes below zero. *)
Posted == Cardinality({i \in DOMAIN artMail : artMail[i] = Update})

TriggersCounted == triggers = Posted + dropped + (IF artBusy = Update THEN 1 ELSE 0)

(* A contract announced while the actor knows a matching artifact gets it,
   unless a trigger was lost, a call for the code or to the database failed,
   the bus lost the announcement, or the settings actor, which every scan
   asks, waits for itself. *)
FoundGetsAbi ==
  \A c \in Contracts :
    (up = "ready" /\ c \in incomplete /\ Matches[c] \cap abis # {})
      ~> (c \in complete \/ c \in passedOver \/ dropped > 0
           \/ "contracts" \in unheard \/ WaitsForItself \/ up = "off")

(* A step the receiver has told is finished, unless the actor waits for room
   in its own mailbox. *)
StepsFinish ==
  \A kind \in Handled["settings"] :
    kind \in told ~> (ReceiverStep(kind) \in settings.steps \/ WaitsForItself
                       \/ up = "off")
==============================================================================
