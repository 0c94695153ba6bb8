------------------------------ MODULE Artifacts ------------------------------
(***************************************************************************)
(* The sol_artifacts actor (crates/sol-artifacts): it scans the project    *)
(* under the setting abiWatchPath for compiled contracts and gives the     *)
(* contracts in the database that lack an ABI the first artifact whose     *)
(* code is close enough to theirs.                                         *)
(*                                                                         *)
(* update_contracts is debounced by a counter: every trigger adds one and  *)
(* posts a message, every message subtracts one, and only the one that     *)
(* reaches zero does the work.  A trigger whose message does not fit into  *)
(* the mailbox (try_send) is counted all the same.  The file watcher's     *)
(* callback never sends its message (the request is built and dropped), so *)
(* process_debounced_events does not run and what is built later is found  *)
(* by the next poll only; project_roots is never assigned, so every poll   *)
(* scans every project again.                                              *)
(***************************************************************************)
EXTENDS Settings

CONSTANTS Projects,   \* Foundry and Hardhat projects
          RootOf,     \* project -> the path it is under
          Files,      \* what builds leave in their output directories
          ProjectOf,  \* file -> its project
          Valid,      \* the files that parse as an artifact
          Contracts,  \* deployed contracts
          Matches     \* contract -> artifacts close enough to its code

VARIABLES roots,
          abis,       \* abis_by_path
          triggers,   \* update_contracts_triggers
          dropped,    \* triggers whose message did not fit
          artMail,    \* the actor's mailbox
          artBusy,    \* the message being handled, or Idle
          built,      \* files that are on disk
          incomplete, \* contracts in the database without an ABI
          complete,   \* and with one
          passedOver  \* incomplete contracts the last update could not
                      \* look at, or could not store

artifactsVars == <<roots, abis, triggers, dropped, artMail, artBusy, built,
                   incomplete, complete, passedOver>>

ASSUME ProjectsAssumption == IsFiniteSet(Projects)

(* try_send drops the message when there is no room. *)
ArtTrySend(q, m) == IF Len(q) < MailboxSize THEN Append(q, m) ELSE q

Idle   == [kind |-> "Idle"]
Update == [kind |-> "Update"]
Poll   == [kind |-> "Poll"]

(* trigger_update_contracts, n times in a row; the counter, the mailbox and
   the messages that did not fit make a record. *)
TriggerWhenIdle(t, n) ==
  [triggers |-> t.triggers + n,
   mail     |-> IF t.triggers = 0 THEN ArtTrySend(t.mail, Update) ELSE t.mail,
   dropped  |-> t.dropped]

Trigger(t, n) ==
  LET fit == IF Len(t.mail) + n <= MailboxSize THEN n
             ELSE IF Len(t.mail) < MailboxSize THEN MailboxSize - Len(t.mail) ELSE 0
  IN  [triggers |-> t.triggers + n,
       mail     |-> t.mail \o [i \in 1 .. fit |-> Update],
       dropped  |-> t.dropped + (n - fit)]

(* find_project_roots and scan_project for the roots rs: a project without an
   output directory is skipped, any other has its artifacts inserted and
   triggers an update.  The Foundry step is told by the first one that is
   scanned when there are artifacts; the next scan reads it as finished. *)
Scanned(rs) == {p \in Projects : RootOf[p] \in rs /\ \E f \in built : ProjectOf[f] = p}

AfterScan(rs, t) == Trigger(t, Cardinality(Scanned(rs)))

Scan(rs) ==
  /\ abis' = abis \cup {f \in built \cap Valid : ProjectOf[f] \in Scanned(rs)}
  /\ IF Scanned(rs) = {} \/ abis' = {} \/ "Foundry" \in settings.steps THEN UNCHANGED mail
     ELSE Tell([kind |-> "Step", step |-> "Foundry"])

(* The actor takes a message; others may arrive while it is handled. *)
Take ==
  /\ artBusy = Idle /\ artMail # <<>>
  /\ artBusy' = Head(artMail) /\ artMail' = Tail(artMail)
  /\ UNCHANGED <<roots, abis, triggers, dropped, built, incomplete, complete,
                 passedOver, settingsVars, inbox, subscribed, unheard, left>>

Handles(kind) == artBusy.kind = kind /\ artBusy' = Idle

Queue == [triggers |-> triggers, mail |-> artMail, dropped |-> dropped]

Becomes(t) == triggers' = t.triggers /\ artMail' = t.mail /\ dropped' = t.dropped

others == <<built, incomplete, complete, passedOver, settings, file, form, told,
            inbox, subscribed, unheard, left>>

(* update_roots with the one path the callers pass: the others are removed,
   this one is scanned if it is new, and a poll is posted. *)
UpdateRoots ==
  /\ Handles("Roots") /\ form = NoForm
  /\ roots' = {artBusy.path}
  /\ LET new == roots' \ roots
         t   == AfterScan(new, Queue)
     IN  Scan(new) /\ Becomes([t EXCEPT !.mail = ArtTrySend(@, Poll)])
  /\ UNCHANGED others

(* poll_project_roots *)
PollProjectRoots ==
  /\ Handles("Poll") /\ form = NoForm
  /\ Scan(roots) /\ Becomes(AfterScan(roots, Queue))
  /\ UNCHANGED <<roots, others>>

(* new_contract *)
NewContract ==
  /\ Handles("New")
  /\ Becomes(Trigger(Queue, 1))
  /\ UNCHANGED <<roots, abis, mail, others>>

(* update_contracts: unless more are posted, the incomplete contracts whose
   code is known or can be fetched get the first artifact that matches.  A
   failing read of the database ends the handler before the first of them is
   stored, a failing write before the rest. *)
Matched(cs) == {c \in cs : Matches[c] \cap abis # {}}

MatchContracts ==
  \E skipped \in SUBSET incomplete :
    LET done == Matched(incomplete \ skipped) IN
    /\ IF skipped = {} THEN UNCHANGED left ELSE Fails("lookup")
    /\ passedOver' = skipped
    /\ incomplete' = incomplete \ done
    /\ complete' = complete \cup done
    /\ unheard' = unheard \ {"contracts"}

UpdateContractsSkips ==
  /\ Handles("Update")
  /\ triggers' = triggers - 1
  /\ IF triggers > 0 THEN UNCHANGED <<incomplete, complete, passedOver, unheard, left>>
     ELSE MatchContracts
  /\ UNCHANGED <<roots, abis, artMail, dropped, built, settingsVars, inbox, subscribed>>

UpdateContracts ==
  /\ Handles("Update")
  /\ triggers' = triggers - 1
  /\ IF triggers' > 0 THEN UNCHANGED <<incomplete, complete, passedOver, unheard, left>>
     ELSE MatchContracts
  /\ UNCHANGED <<roots, abis, artMail, dropped, built, settingsVars, inbox, subscribed>>

ArtifactsStep == Take \/ UpdateRoots \/ PollProjectRoots \/ NewContract \/ UpdateContracts
------------------------------------------------------------------------------
(* receiver: the settings are read on SettingsUpdated, and a path that was
   taken out of them leaves the roots as they are. *)
ArtifactsReceiver ==
  /\ inbox["artifacts"] # <<>>
  /\ LET kind == Head(inbox["artifacts"]).kind
         path == settings.fields["abiWatchPath"] IN
     /\ kind = "SettingsUpdated" => form = NoForm
     /\ IF kind = "SettingsUpdated" /\ path = None THEN UNCHANGED artMail
        ELSE /\ Len(artMail) < MailboxSize
             /\ artMail' = Append(artMail,
                  IF kind = "ContractFound" THEN [kind |-> "New"]
                  ELSE [kind |-> "Roots", path |-> path])
  /\ inbox' = Received("artifacts")
  /\ UNCHANGED <<roots, abis, triggers, dropped, artBusy, built, incomplete,
                 complete, passedOver, settingsVars, subscribed, unheard, left>>

(* init of a new process *)
InitArtifacts ==
  /\ form = NoForm
  /\ artMail' = IF settings.fields["abiWatchPath"] = None THEN <<>>
                ELSE <<[kind |-> "Roots", path |-> settings.fields["abiWatchPath"]]>>
  /\ UNCHANGED <<roots, abis, triggers, dropped, artBusy, built, incomplete,
                 complete, passedOver, settingsVars, inbox, subscribed, unheard, left>>

StartArtifacts ==
  /\ roots' = {} /\ abis' = {} /\ triggers' = 0 /\ dropped' = 0 /\ artMail' = <<>>
  /\ artBusy' = Idle
  /\ UNCHANGED <<built, incomplete, complete, passedOver>>

(* A project is compiled. *)
Build(f) ==
  /\ f \notin built /\ Uses("builds")
  /\ built' = built \cup {f}
  /\ UNCHANGED <<roots, abis, triggers, dropped, artMail, artBusy, incomplete,
                 complete, passedOver, settingsVars, inbox, subscribed, unheard>>

(* A sync component stores a deployed contract and announces it. *)
ContractFound(c) ==
  /\ c \notin incomplete \cup complete /\ Uses("contracts")
  /\ incomplete' = incomplete \cup {c}
  /\ Announce([kind |-> "ContractFound"])
  /\ UNCHANGED <<roots, abis, triggers, dropped, artMail, artBusy, built,
                 complete, passedOver, settingsVars, subscribed>>
==============================================================================
