------------------------------- MODULE Settings -------------------------------
(***************************************************************************)
(* The settings actor (crates/settings): the settings in memory, the file  *)
(* they are saved to, the actor's mailbox, and the receiver task that      *)
(* finishes onboarding steps on messages of the bus.                       *)
(*                                                                         *)
(* Everything but a form (SetValue::All) is handled in one step.  A form   *)
(* awaits twice, to test the two API keys, and before each test the        *)
(* handler tells its own actor that an onboarding step is finished: that   *)
(* tell waits while the mailbox is full, which only the waiting actor      *)
(* could empty.  A handler that returns early leaves the fields it has     *)
(* already assigned changed in memory, neither saved nor announced.        *)
(***************************************************************************)
EXTENDS Broadcast, FiniteSets

CONSTANTS Forms,        \* the maps settings_set is called with
          Addresses,    \* addresses that may get an alias
          Default,      \* field -> its value in Settings::default()
          FirstFiles,   \* settings files of earlier versions, or NoFile
          NoFile, NoForm, None,
          MailboxSize,  \* capacity of an actor's mailbox
          Budgets       \* how many inputs and faults of each kind there are

VARIABLES settings,     \* the actor's `inner`
          file,         \* what the settings file holds
          mail,         \* messages in the actor's mailbox
          form,         \* the form being handled, with how far it is
          told,         \* kinds the receiver has told a step for
          subscribed,   \* receivers that have subscribed to the bus
          unheard,      \* receivers whose last message was missed or lost,
                        \* and "contracts" when one said a contract was found
          left          \* inputs and faults still to come, by kind, the
                        \* forms among them and the faults so far

settingsVars == <<settings, file, mail, form, told>>

Steps == {"Alchemy", "Etherscan", "Wallet", "Extension", "Foundry"}

(* The fields a form may set, in the order the handler takes them. *)
Early == {"darkMode", "abiWatchPath"}
Keys  == {"alchemyApiKey", "etherscanApiKey"}
Late  == <<"walletconnectProjectId", "hideEmptyTokens", "autostart",
           "startMinimized", "fastMode", "rustLog", "runLocalStacks">>

ASSUME MailboxAssumption == MailboxSize \in Nat \ {0}

Fields == Early \cup Keys \cup {Late[i] : i \in DOMAIN Late}

(* The settings, in memory and in a file of any version. *)
IsSettings(s) ==
  /\ s = [version |-> s.version, fields |-> s.fields, aliases |-> s.aliases,
          steps |-> s.steps, hidden |-> s.hidden, onboarded |-> s.onboarded]
  /\ s.fields = [f \in Fields |-> s.fields[f]]

ASSUME FilesAssumption ==
  /\ Default = [f \in Fields |-> Default[f]]
  /\ \A s \in FirstFiles \ {NoFile} : IsSettings(s)

(* A budget counts inputs and faults, and keeps the faults so far. *)
IsBudget(b) == b = [k \in DOMAIN b |-> b[k]] /\ "failed" \in DOMAIN b

ASSUME BudgetsAssumption == \A b \in Budgets : IsBudget(b)

StepOf(k) == IF k = "alchemyApiKey" THEN "Alchemy" ELSE "Etherscan"

(* What a form's value is stored as: an empty string is no key. *)
Stored(f, v) ==
  IF f \in Keys \cup {"walletconnectProjectId"} /\ v = "" THEN None ELSE v

(* The settings with the form's values for the fields in fs. *)
Assign(s, map, fs) ==
  [s EXCEPT !.fields = [f \in DOMAIN s.fields |->
     IF f \in fs \cap DOMAIN map THEN Stored(f, map[f]) ELSE s.fields[f]]]

(* Onboarding::finish_step, which recomputes `hidden`, and finish. *)
FinishStep(s, step) ==
  [s EXCEPT !.steps = @ \cup {step}, !.hidden = (s.steps \cup {step} = Steps)]

Finish(s) == [s EXCEPT !.steps = Steps, !.hidden = TRUE]
-------------------------------------------------------------------------------
(* An input of kind k, or a fault, within the budget. *)
Uses(k)  == left[k] > 0 /\ left' = [left EXCEPT ![k] = @ - 1]
Fails(k) == left[k] > 0 /\ left' = [left EXCEPT ![k] = @ - 1, !.failed = @ \cup {k}]

(* A message reaches the receivers that have subscribed by then, and may
   push the announcement of a contract out of a full queue. *)
Sent(m) == [r \in Receivers |->
              IF r \in subscribed THEN Send(inbox, m)[r] ELSE inbox[r]]

Misses(m) == {r \in Receivers \ subscribed : m.kind \in Handled[r]}

LosesContract(m) ==
  \/ m.kind = "ContractFound" /\ "artifacts" \notin subscribed
  \/ /\ "artifacts" \in subscribed /\ m.kind \in Handled["artifacts"]
     /\ Len(inbox["artifacts"]) = Capacity
     /\ Head(inbox["artifacts"]).kind = "ContractFound"

Announce(m) ==
  /\ inbox' = Sent(m)
  /\ unheard' = unheard \cup Misses(m) \cup (IF LosesContract(m) THEN {"contracts"} ELSE {})

(* A receiver that is behind loses its oldest message to messages of other
   kinds, the only one it has left too. *)
Lag(r) ==
  /\ Fails("lag") /\ Lagged(r)
  /\ unheard' = unheard \cup (IF Len(inbox[r]) = 1 THEN {r} ELSE {})
                        \cup (IF Head(inbox[r]).kind = "ContractFound"
                             THEN {"contracts"} ELSE {})
  /\ UNCHANGED <<settingsVars, subscribed>>

Updated == [kind |-> "SettingsUpdated"]

(* ActorRef::tell waits for room in the mailbox. *)
Tell(m) == Len(mail) < MailboxSize /\ mail' = Append(mail, m)

(* SettingsActor::save: write the file and announce it, or fail. *)
SaveUnannounced(s) ==
  \/ /\ file' = s
     /\ UNCHANGED <<inbox, unheard, left>>
  \/ /\ Fails("disk")
     /\ UNCHANGED <<file, inbox, unheard>>

Save(s) ==
  \/ /\ file' = s
     /\ Announce(Updated)
     /\ UNCHANGED left
  \/ /\ Fails("disk")
     /\ UNCHANGED <<file, inbox, unheard>>

(* The settings after a message that is not a form. *)
Applied(m) ==
  CASE m.kind = "DarkMode"       -> [settings EXCEPT !.fields.darkMode = m.value]
    [] m.kind = "FastMode"       -> [settings EXCEPT !.fields.fastMode = m.value]
    [] m.kind = "RunLocalStacks" -> [settings EXCEPT !.fields.runLocalStacks = m.value]
    [] m.kind = "Step"           -> FinishStep(settings, m.step)
    [] m.kind = "Finish"         -> Finish(settings)
    [] m.kind = "Alias"          -> [settings EXCEPT !.aliases =
                                       IF m.blank THEN @ \ {m.address}
                                       ELSE @ \cup {m.address}]

(* SettingsActor::set for those. *)
SetValue ==
  /\ form = NoForm /\ mail # <<>> /\ Head(mail).kind # "All"
  /\ mail' = Tail(mail)
  /\ settings' = Applied(Head(mail))
  /\ Save(settings')
  /\ UNCHANGED <<form, told, subscribed>>

(* SetValue::All, from the mailbox up to the first key, *)
BeginForm ==
  /\ form = NoForm /\ mail # <<>> /\ Head(mail).kind = "All"
  /\ mail' = Tail(mail)
  /\ form' = [map |-> Head(mail).map, at |-> "alchemyApiKey"]
  /\ settings' = Assign(settings, Head(mail).map, Early)
  /\ UNCHANGED <<file, told, inbox, subscribed, unheard, left>>

(* each key: tell the step, test the key unless it is empty, store it; a
   failed test (test_alchemy_api_key, test_etherscan_api_key) ends the form, *)
KeyRejected(k) ==
  /\ k \in DOMAIN form.map /\ form.map[k] # ""
  /\ form' = NoForm
  /\ UNCHANGED settings

TestKey(k) ==
  LET present == k \in DOMAIN form.map IN
  /\ form # NoForm /\ form.at = k
  /\ IF present /\ StepOf(k) \notin settings.steps
     THEN Tell([kind |-> "Step", step |-> StepOf(k)])
     ELSE UNCHANGED mail
  /\ \/ /\ form' = [form EXCEPT !.at =
                      IF k = "alchemyApiKey" THEN "etherscanApiKey" ELSE "rest"]
        /\ settings' = Assign(settings, form.map, {k})
     \/ KeyRejected(k)
  /\ UNCHANGED <<file, told, inbox, subscribed, unheard, left>>

(* and the rest: autostart::update fails after its field is assigned,
   tracing::reload before; nothing fails and the settings are saved. *)
LateUpTo(n) == {Late[i] : i \in 1..n}

AutostartFails ==
  /\ "autostart" \in DOMAIN form.map
  /\ settings' = Assign(settings, form.map, LateUpTo(3))
  /\ UNCHANGED <<file, inbox, unheard, left>>

ReloadFails ==
  /\ "rustLog" \in DOMAIN form.map
  /\ settings' = Assign(settings, form.map, LateUpTo(5))
  /\ UNCHANGED <<file, inbox, unheard, left>>

FinishFormReloadsLast ==
  /\ form # NoForm /\ form.at = "rest"
  /\ form' = NoForm
  /\ settings' = Assign(settings, form.map, LateUpTo(7))
  /\ \/ /\ DOMAIN form.map \cap {"autostart", "rustLog"} # {}
        /\ UNCHANGED <<file, inbox, unheard, left>>
     \/ Save(settings')
  /\ UNCHANGED <<mail, told, subscribed>>

FinishForm ==
  /\ form # NoForm /\ form.at = "rest"
  /\ form' = NoForm
  /\ \/ AutostartFails \/ ReloadFails
     \/ /\ settings' = Assign(settings, form.map, LateUpTo(7))
        /\ Save(settings')
  /\ UNCHANGED <<mail, told, subscribed>>

SettingsStep == SetValue \/ BeginForm \/ FinishForm \/ \E k \in Keys : TestKey(k)
-------------------------------------------------------------------------------
(* settings_set, settings_set_dark_mode, settings_set_fast_mode,
   settings_finish_onboarding, settings_onboarding_finish_step,
   settings_set_alias, settings_set_run_local_stacks. *)
Commands ==
  [kind : {"All"}, map : left.forms]
    \cup [kind : {"DarkMode", "FastMode", "RunLocalStacks"}, value : BOOLEAN]
    \cup [kind : {"Step"}, step : Steps]
    \cup [kind : {"Finish"}]
    \cup [kind : {"Alias"}, address : Addresses, blank : BOOLEAN]

SettingsCommand(c) ==
  /\ Tell(c) /\ Uses(c.kind)
  /\ UNCHANGED <<settings, file, form, told, inbox, subscribed, unheard>>

(* receiver: the first WalletCreated and the first PeerAdded of a run. *)
ReceiverStep(kind) == IF kind = "WalletCreated" THEN "Wallet" ELSE "Extension"

SettingsReceiverTrySend ==
  /\ inbox["settings"] # <<>>
  /\ LET kind == Head(inbox["settings"]).kind IN
     /\ told' = told \cup {kind}
     /\ mail' = IF kind \in told \/ Len(mail) = MailboxSize THEN mail
                ELSE Append(mail, [kind |-> "Step", step |-> ReceiverStep(kind)])
  /\ inbox' = Received("settings")
  /\ UNCHANGED <<settings, file, form, subscribed, unheard, left>>

SettingsReceiver ==
  /\ inbox["settings"] # <<>>
  /\ LET kind == Head(inbox["settings"]).kind IN
     IF kind \in told THEN UNCHANGED <<mail, told>>
     ELSE /\ Tell([kind |-> "Step", step |-> ReceiverStep(kind)])
          /\ told' = told \cup {kind}
  /\ inbox' = Received("settings")
  /\ UNCHANGED <<settings, file, form, subscribed, unheard, left>>

(* Another component announces a created wallet or a connected peer. *)
Announced(kind) ==
  /\ Uses(kind)
  /\ Announce([kind |-> kind])
  /\ UNCHANGED <<settings, file, mail, form, told, subscribed>>
-------------------------------------------------------------------------------
(* Versions: reading the file.  `hidden` is not read but recomputed, from
   version 2 on; before that there is `onboarded` instead of steps. *)
Deserialize(f) == IF f.version < 2 THEN f ELSE [f EXCEPT !.hidden = (f.steps = Steps)]

(* run_migrations *)
V1ToV2(f) == [version |-> 2, fields |-> f.fields, aliases |-> f.aliases, steps |-> {},
              hidden |-> f.onboarded, onboarded |-> FALSE]
V2ToV3(f) == [f EXCEPT !.version = 3,
                       !.fields = [@ EXCEPT !["runLocalStacks"] = FALSE,
                                            !["walletconnectProjectId"] = None]]

RunMigrations(f) ==
  LET v2 == IF f.version < 2 THEN V1ToV2(f) ELSE f
  IN  IF v2.version < 3 THEN V2ToV3(v2) ELSE v2

DefaultSettings ==
  [version |-> 3, fields |-> Default, aliases |-> {}, steps |-> {},
   hidden |-> FALSE, onboarded |-> FALSE]

Load == IF file = NoFile THEN DefaultSettings ELSE RunMigrations(Deserialize(file))

(* SettingsActor::on_start: load, save.  Nobody has subscribed yet. *)
StartSettings ==
  /\ settings' = Load
  /\ file' = settings'
  /\ mail' = <<>> /\ form' = NoForm /\ told' = {}
===============================================================================
