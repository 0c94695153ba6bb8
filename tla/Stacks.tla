-------------------------------- MODULE Stacks --------------------------------
(***************************************************************************)
(* The stacks actor (crates/stacks) and the container it runs: the actor's *)
(* `enabled` follows the setting runLocalStacks, the container is started  *)
(* and stopped with docker or podman commands that may fail, and stacks    *)
(* (chains inside the container) are created and removed over HTTP, each   *)
(* with a network of its own.                                              *)
(*                                                                         *)
(* The container has a fixed name and outlives the process; `ps` is asked  *)
(* for the name together with the port of this run.                        *)
(***************************************************************************)
EXTENDS Settings

CONSTANTS Slugs,        \* names of stacks
          Ports,        \* values of --stacks-port
          NoPort        \* there is no container

VARIABLES enabled, manager, port,
          stacksMail,   \* set_enabled messages in the actor's mailbox
          engine,       \* the binary found, or "none": built without the
                        \* feature `stacks`
          container,    \* host port of the container, or NoPort
          leftover,     \* the container is one a crash left running
          shut,         \* stopped by stacks_shutdown since it was enabled
          slugs,        \* the stacks in the container's data directory
          nets,         \* the stacks that have a network
          creating, removing,  \* slug -> progress of the two commands
          torn          \* slugs whose removal a creation or a crash cut through

stacksVars == <<enabled, manager, port, stacksMail, engine, container, leftover,
                shut, slugs, nets, creating, removing, torn>>
commandVars == <<slugs, nets, creating, removing, torn>>

ASSUME PortsAssumption == NoPort \notin Ports

Engines  == {"docker", "podman", "none"}
Managers == {"Initializing", "Stopped", "Running", "Error"}

(* DockerManager::is_container_running *)
IsContainerRunning == container = port

(* DockerManager<ContainerNotRunning>::run.  Docker refuses a second
   container of the same name; podman replaces the one there is. *)
MayRun == engine = "podman" \/ container \in {NoPort, port}

Run ==
  \/ /\ MayRun
     /\ manager' = "Running" /\ container' = port /\ leftover' = FALSE
     /\ UNCHANGED left
  \/ /\ Fails("docker")                      \* a command failed
     /\ manager' = "Error"
     /\ container' \in {container} \cup (IF MayRun THEN {NoPort} ELSE {})
     /\ leftover' = (leftover /\ container' # NoPort)
  \/ /\ ~MayRun
     /\ manager' = "Error"
     /\ UNCHANGED <<container, leftover, left>>

(* DockerManager<ContainerRunning>::stop, and what its callers do with it: on
   an error, of `stop` itself or of the `rm` after it, they keep the state. *)
Stop ==
  \/ /\ manager' = "Stopped"
     /\ container' = IF IsContainerRunning THEN NoPort ELSE container
     /\ leftover' = (leftover /\ ~IsContainerRunning)
     /\ UNCHANGED left
  \/ /\ Fails("docker")
     /\ container' \in {container} \cup (IF IsContainerRunning THEN {NoPort} ELSE {})
     /\ leftover' = (leftover /\ container' # NoPort)
     /\ UNCHANGED manager

(* StacksActor::set_enabled *)
SetEnabledNoRun(b) ==
  IF enabled = b THEN UNCHANGED <<enabled, manager, container, leftover, shut, left>>
  ELSE /\ enabled' = b
       /\ shut' = FALSE
       /\ CASE manager = "Running" /\ ~b -> Stop
            [] b -> manager' = "Initializing" /\ UNCHANGED <<container, leftover, left>>
            [] OTHER -> UNCHANGED <<manager, container, leftover, left>>

SetEnabled(b) ==
  IF enabled = b THEN UNCHANGED <<enabled, manager, container, leftover, shut, left>>
  ELSE /\ enabled' = b
       /\ shut' = FALSE
       /\ CASE manager = "Stopped" /\ b  -> Run
            [] manager = "Running" /\ ~b -> Stop
            [] manager = "Error" /\ b    ->
                 manager' = "Initializing" /\ UNCHANGED <<container, leftover, left>>
            [] OTHER -> UNCHANGED <<manager, container, leftover, left>>

HandleSetEnabled ==
  /\ stacksMail # <<>>
  /\ stacksMail' = Tail(stacksMail)
  /\ SetEnabled(Head(stacksMail))
  /\ UNCHANGED <<port, engine, commandVars, settingsVars, inbox, subscribed, unheard>>

(* StacksActor::shutdown, from stacks_shutdown and when the app exits. *)
Shutdown ==
  IF manager = "Running" THEN Stop
  ELSE UNCHANGED <<manager, container, leftover, left>>

StacksShutdown ==
  /\ left["Shutdown"] > 0 /\ Shutdown /\ shut' = TRUE
  /\ UNCHANGED <<enabled, port, stacksMail, engine, commandVars, settingsVars,
                 inbox, subscribed, unheard>>

(* The container dies of its own. *)
ContainerDies ==
  /\ container # NoPort /\ Fails("docker")
  /\ container' = NoPort /\ leftover' = FALSE
  /\ UNCHANGED <<enabled, manager, port, stacksMail, engine, shut, commandVars,
                 settingsVars, inbox, subscribed, unheard>>

(* receiver: read the settings and tell the actor. *)
StacksReceiver ==
  /\ inbox["stacks"] # <<>> /\ form = NoForm
  /\ Len(stacksMail) < MailboxSize
  /\ inbox' = Received("stacks")
  /\ unheard' = unheard \ {"stacks"}
  /\ stacksMail' = Append(stacksMail, settings.fields["runLocalStacks"])
  /\ UNCHANGED <<enabled, manager, port, engine, container, leftover, shut,
                 commandVars, settingsVars, subscribed, left>>

(* One of check_socket_and_bin, check_docker_installed,
   check_image_available and ensure_data_directory fails. *)
NotReady ==
  /\ Fails("docker")
  /\ manager' = "Error"
  /\ UNCHANGED <<container, leftover>>

(* StacksActor::initializing *)
Initializing ==
  \/ IF enabled THEN Run
     ELSE manager' = "Stopped" /\ UNCHANGED <<container, leftover, left>>
  \/ NotReady

(* init: initialize the new actor, then tell it the setting. *)
InitStacks ==
  /\ form = NoForm /\ engine # "none"
  /\ Initializing
  /\ stacksMail' = <<settings.fields["runLocalStacks"]>>
  /\ UNCHANGED <<enabled, port, engine, shut, commandVars, settingsVars, inbox, subscribed>>
  /\ unheard' = unheard \ {"stacks"}

(* The actor of a new process; the container of the last one may be there. *)
StartStacks ==
  /\ leftover' = (container # NoPort)
  /\ enabled' = FALSE /\ manager' = "Initializing" /\ stacksMail' = <<>>
  /\ (IF engine = "none" THEN port' = port ELSE port' \in Ports) /\ shut' = FALSE
  /\ creating' = [s \in Slugs |-> "no"] /\ removing' = [s \in Slugs |-> "no"]
  /\ torn' = torn \cup {s \in Slugs : removing[s] = "removed"}
  /\ UNCHANGED <<engine, container, slugs, nets>>
-------------------------------------------------------------------------------
(* The container answers requests on this run's port. *)
Reachable == container = port

(* stacks_create: StacksActor::create_stack, which does nothing unless the
   container is thought to run, and the two seconds of sleep, *)
CreateStack(s) ==
  /\ creating[s] = "no" /\ Uses("CreateStack")
  /\ \/ /\ manager = "Running" /\ Reachable
        /\ slugs' = slugs \cup {s}
     \/ /\ manager # "Running"
        /\ UNCHANGED slugs
  /\ creating' = [creating EXCEPT ![s] = "sleeping"]
  /\ UNCHANGED <<nets, removing, torn>>

(* utils::get_chain_id of the new stack, whose failure ends the command, *)
GetAnyChainId(s) ==
  /\ creating[s] = "sleeping"
  /\ creating' = [creating EXCEPT ![s] = IF Reachable THEN "known" ELSE "no"]
  /\ UNCHANGED <<left, slugs, nets, removing, torn>>

GetChainId(s) ==
  /\ creating[s] = "sleeping"
  /\ creating' = [creating EXCEPT ![s] =
                    IF Reachable /\ s \in slugs THEN "known" ELSE "no"]
  /\ UNCHANGED <<left, slugs, nets, removing, torn>>

(* and stack_network_add. *)
AddStackNetwork(s) ==
  /\ creating[s] = "known"
  /\ nets' = nets \cup {s}
  /\ creating' = [creating EXCEPT ![s] = "no"]
  /\ UNCHANGED <<left, slugs, removing, torn>>

(* stacks_remove: StacksActor::remove_stack *)
RemoveStack(s) ==
  /\ removing[s] = "no" /\ Uses("RemoveStack")
  /\ \/ /\ manager = "Running" /\ Reachable /\ s \in slugs
        /\ slugs' = slugs \ {s}
        /\ torn' = IF creating[s] = "known" THEN torn \cup {s}
                         ELSE torn
     \/ /\ manager # "Running"
        /\ UNCHANGED <<slugs, torn>>
  /\ removing' = [removing EXCEPT ![s] = "removed"]
  /\ UNCHANGED <<nets, creating>>

(* and stack_network_remove. *)
RemoveStackNetwork(s) ==
  /\ removing[s] = "removed"
  /\ nets' = nets \ {s}
  /\ removing' = [removing EXCEPT ![s] = "no"]
  /\ UNCHANGED <<left, slugs, creating, torn>>

StackCommand(s) == CreateStack(s) \/ RemoveStack(s)
StackProgress(s) == GetChainId(s) \/ AddStackNetwork(s) \/ RemoveStackNetwork(s)

StacksUnchanged == UNCHANGED <<enabled, manager, port, stacksMail, engine,
                     container, leftover, shut, settingsVars, inbox, subscribed, unheard>>
===============================================================================
