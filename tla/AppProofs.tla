------------------------------ MODULE AppProofs ------------------------------
(***************************************************************************)
(* Safety of the settings actor, of stacks and of sol_artifacts for any    *)
(* settings, forms, stacks, artifacts, mailboxes and channels.             *)
(*                                                                         *)
(* Four invariants, each with a strengthening of its own: StackInv adds to *)
(* NetworkHasStack that a creation on its way to its network has a stack;  *)
(* CountInv adds to TriggersCounted that nothing is counted while the      *)
(* artifacts actor does not run yet; SavedInv is SavedFields with the      *)
(* shape of settings and budget; FollowInv says which value is the last to *)
(* reach the stacks actor when its receiver has nothing left to receive.   *)
(***************************************************************************)
EXTENDS App, FiniteSetTheorems, SequenceTheorems, TLAPS

IsSeq(q) == \E S : q \in Seq(S)
------------------------------------------------------------------------------
StackInv ==
  /\ creating \in [Slugs -> {"no", "sleeping", "known"}]
  /\ removing \in [Slugs -> {"no", "removed"}]
  /\ nets \subseteq Slugs
  /\ \A s \in Slugs : creating[s] = "known" => s \in slugs \cup torn
  /\ NetworkHasStack

(* Most steps do not touch stacks and their networks. *)
LEMMA StackFrame == StackInv /\ UNCHANGED commandVars => StackInv'
BY DEF StackInv, commandVars, NetworkHasStack

LEMMA StackCommandInv ==
  ASSUME NEW s \in Slugs, StackInv, StackCommand(s)
  PROVE  StackInv'
<1>1. CASE CreateStack(s)
  BY <1>1 DEF CreateStack, StackInv, NetworkHasStack
<1>2. CASE RemoveStack(s)
  BY <1>2 DEF RemoveStack, StackInv, NetworkHasStack
<1> QED BY <1>1, <1>2 DEF StackCommand

LEMMA StackProgressInv ==
  ASSUME NEW s \in Slugs, StackInv, StackProgress(s)
  PROVE  StackInv'
<1>1. CASE GetChainId(s)
  BY <1>1 DEF GetChainId, StackInv, NetworkHasStack
<1>2. CASE AddStackNetwork(s)
  BY <1>2 DEF AddStackNetwork, StackInv, NetworkHasStack
<1>3. CASE RemoveStackNetwork(s)
  BY <1>3 DEF RemoveStackNetwork, StackInv, NetworkHasStack
<1> QED BY <1>1, <1>2, <1>3 DEF StackProgress

LEMMA StackNext == StackInv /\ [Next]_vars => StackInv'
<1> SUFFICES ASSUME StackInv, [Next]_vars PROVE StackInv'
  OBVIOUS
<1>1. CASE Boot
  <2>1. CASE Start
    BY <2>1 DEF Start, StartStacks, StackInv, NetworkHasStack
  <2>2. CASE Ended \/ StartedArtifacts \/ StartedStacks
    <3>1. UNCHANGED commandVars
      BY <2>2 DEF Ended, StartedArtifacts, StartedStacks, InitStacks, stacksVars, commandVars
    <3> QED BY <3>1, StackFrame
  <2> QED BY <1>1, <2>1, <2>2 DEF Boot
<1>2. CASE Crash \/ Exit
  <2>1. UNCHANGED commandVars
    BY <1>2 DEF Crash, Exit, stacksVars, commandVars
  <2> QED BY <2>1, StackFrame
<1>3. CASE Tasks
  <2>1. CASE \E s \in Slugs : CommandActs(s)
    BY <2>1, StackProgressInv DEF CommandActs
  <2>2. CASE SettingsActs \/ SettingsHears \/ ArtifactsActs \/ ArtifactsHears
             \/ StacksActs \/ StacksHears \/ \E r \in Receivers : Subscribe(r)
    <3>1. UNCHANGED commandVars
      BY <2>2 DEF SettingsActs, SettingsHears, ArtifactsActs, ArtifactsHears, StacksActs,
                  HandleSetEnabled, StacksHears, StacksReceiver, Subscribe, stacksVars, commandVars
    <3> QED BY <3>1, StackFrame
  <2> QED BY <1>3, <2>1, <2>2 DEF Tasks
<1>4. CASE UserActs
  <2>1. CASE \E s \in Slugs : StackCommand(s)
    BY <2>1, StackCommandInv
  <2>2. CASE UNCHANGED stacksVars \/ StacksShutdown
    <3>1. UNCHANGED commandVars
      BY <2>2 DEF StacksShutdown, stacksVars, commandVars
    <3> QED BY <3>1, StackFrame
  <2> QED BY <1>4, <2>1, <2>2 DEF UserActs
<1>5. CASE WorldActs \/ BusLags \/ UNCHANGED vars
  <2>1. UNCHANGED commandVars
    BY <1>5 DEF WorldActs, BusLags, ContainerDies, vars, stacksVars, commandVars
  <2> QED BY <2>1, StackFrame
<1> QED BY <1>1, <1>2, <1>3, <1>4, <1>5 DEF Next

(* stacks_create and stacks_remove, overlapping for the same stack, failing
   and crashing anywhere: for any stacks and any number of commands, a stack
   network has its stack unless its removal is under way or was cut through. *)
THEOREM NetworksHaveStacks == Spec => []NetworkHasStack
<1>1. Init => StackInv
  BY DEF Init, StackInv, NetworkHasStack
<1>2. StackInv => NetworkHasStack
  BY DEF StackInv
<1> QED BY <1>1, <1>2, StackNext, PTL DEF Spec
------------------------------------------------------------------------------
(* Sequences whose elements have no common type. *)
LEMMA SeqAppend ==
  ASSUME NEW q, IsSeq(q), NEW m
  PROVE  /\ IsSeq(Append(q, m)) /\ Len(q) \in Nat
         /\ Len(Append(q, m)) = Len(q) + 1
         /\ DOMAIN q = 1..Len(q) /\ DOMAIN Append(q, m) = 1..(Len(q) + 1)
         /\ \A i \in 1..Len(q) : Append(q, m)[i] = q[i]
         /\ Append(q, m)[Len(q) + 1] = m
<1>1. PICK S : q \in Seq(S)
  BY DEF IsSeq
<1>2. q \in Seq(S \cup {m})
  BY <1>1
<1> QED BY <1>2 DEF IsSeq

LEMMA SeqTail ==
  ASSUME NEW q, IsSeq(q), q # <<>>
  PROVE  /\ IsSeq(Tail(q)) /\ Len(q) \in Nat \ {0}
         /\ Len(Tail(q)) = Len(q) - 1
         /\ DOMAIN q = 1..Len(q) /\ DOMAIN Tail(q) = 1..(Len(q) - 1)
         /\ \A i \in 1..(Len(q) - 1) : Tail(q)[i] = q[i + 1]
         /\ Head(q) = q[1]
BY DEF IsSeq

LEMMA SeqShort ==
  /\ IsSeq(<<>>) /\ Len(<<>>) = 0
  /\ \A m : IsSeq(<<m>>) /\ Len(<<m>>) = 1 /\ <<m>>[1] = m /\ DOMAIN <<m>> = {1}
<1>1. <<>> \in Seq({})
  OBVIOUS
<1>2. IsSeq(<<>>)
  BY <1>1 DEF IsSeq
<1>3. Len(<<>>) = 0
  OBVIOUS
<1>4. ASSUME NEW m
      PROVE  IsSeq(<<m>>) /\ Len(<<m>>) = 1 /\ <<m>>[1] = m /\ DOMAIN <<m>> = {1}
  <2>1. <<m>> \in Seq({m})
    OBVIOUS
  <2>2. IsSeq(<<m>>)
    BY <2>1 DEF IsSeq
  <2>3. Len(<<m>>) = 1 /\ <<m>>[1] = m
    OBVIOUS
  <2>4. DOMAIN <<m>> = {1}
    OBVIOUS
  <2> QED BY <2>2, <2>3, <2>4
<1> QED BY <1>2, <1>3, <1>4

(* How often a queue holds the message Update. *)
Updates(q) == {i \in DOMAIN q : q[i] = Update}
Count(q)   == Cardinality(Updates(q))

LEMMA CountType ==
  ASSUME NEW q, IsSeq(q)
  PROVE  IsFiniteSet(Updates(q)) /\ Count(q) \in Nat
<1>0. Len(q) \in Nat /\ DOMAIN q = 1..Len(q)
  BY SeqAppend
<1>1. IsFiniteSet(1..Len(q)) /\ Updates(q) \in SUBSET (1..Len(q))
  BY <1>0, FS_Interval DEF Updates
<1>2. IsFiniteSet(Updates(q))
  BY <1>1, FS_Subset
<1> QED BY <1>2, FS_CardinalityType DEF Count

LEMMA CountAppend ==
  ASSUME NEW q, IsSeq(q), NEW m
  PROVE  Count(Append(q, m)) = Count(q) + (IF m = Update THEN 1 ELSE 0)
<1>1. CASE m = Update
  <2>1. Updates(Append(q, m)) = Updates(q) \cup {Len(q) + 1}
    BY <1>1, SeqAppend DEF Updates
  <2>2. Len(q) + 1 \notin Updates(q)
    BY SeqAppend DEF Updates
  <2> QED BY <1>1, <2>1, <2>2, CountType, FS_AddElement DEF Count
<1>2. CASE m # Update
  <2>1. Updates(Append(q, m)) = Updates(q)
    BY <1>2, SeqAppend DEF Updates
  <2> QED BY <1>2, <2>1, CountType DEF Count
<1> QED BY <1>1, <1>2

LEMMA CountTail ==
  ASSUME NEW q, IsSeq(q), q # <<>>
  PROVE  Count(q) = Count(Tail(q)) + (IF Head(q) = Update THEN 1 ELSE 0)
<1> DEFINE T == Updates(Tail(q))
           U == Updates(q) \ {1}
           f == [i \in T |-> i + 1]
<1>1. f \in [T -> U]
  BY SeqTail DEF Updates
<1>2. \A i, j \in T : f[i] = f[j] => i = j
  BY SeqTail DEF Updates
<1>3. ASSUME NEW j \in U PROVE \E i \in T : f[i] = j
  <2>1. j - 1 \in T
    BY SeqTail DEF Updates
  <2>2. f[j - 1] = j
    BY <2>1, SeqTail DEF Updates
  <2> QED BY <2>1, <2>2
<1>4. ExistsBijection(T, U)
  <2> HIDE DEF T, U, f
  <2>1. f \in Injection(T, U) /\ f \in Surjection(T, U)
    BY <1>1, <1>2, <1>3 DEF Injection, Surjection, IsInjective
  <2> QED BY <2>1, Zenon DEF ExistsBijection, Bijection
<1>5. IsFiniteSet(T) /\ Cardinality(T) \in Nat
  BY SeqTail, CountType DEF Count
<1>6. Cardinality(U) = Cardinality(T)
  BY <1>4, <1>5, FS_Bijection
<1>7. Cardinality(U) = IF 1 \in Updates(q) THEN Count(q) - 1 ELSE Count(q)
  BY CountType, FS_RemoveElement DEF Count
<1>8. 1 \in Updates(q) <=> Head(q) = Update
  BY SeqTail DEF Updates
<1> QED BY <1>5, <1>6, <1>7, <1>8, CountType DEF Count

LEMMA CountShort == Count(<<>>) = 0 /\ \A m : m # Update => Count(<<m>>) = 0
<1>1. Updates(<<>>) = {}
  BY DEF Updates
<1>2. ASSUME NEW m, m # Update PROVE Updates(<<m>>) = {}
  BY <1>2, SeqShort DEF Updates
<1> QED BY <1>1, <1>2, FS_EmptySet DEF Count
------------------------------------------------------------------------------
Clean(q) == \A i \in DOMAIN q : q[i].kind = "Update" => q[i] = Update

(* A queue of the artifacts actor whose counter is right while no update is
   being handled. *)
Good(t) ==
  /\ t = [triggers |-> t.triggers, mail |-> t.mail, dropped |-> t.dropped]
  /\ IsSeq(t.mail) /\ Clean(t.mail)
  /\ t.triggers \in Nat /\ t.dropped \in Nat
  /\ t.triggers = Count(t.mail) + t.dropped

CountInv ==
  /\ IsSeq(artMail) /\ Clean(artMail)
  /\ artBusy.kind = "Update" => artBusy = Update
  /\ triggers \in Nat /\ dropped \in Nat
  /\ triggers = Count(artMail) + dropped + (IF artBusy = Update THEN 1 ELSE 0)
  /\ up = "settings" => triggers = 0 /\ dropped = 0 /\ artBusy = Idle

LEMMA CleanAppend ==
  ASSUME NEW q, IsSeq(q), Clean(q), NEW m, m.kind = "Update" => m = Update
  PROVE  Clean(Append(q, m))
BY SeqAppend DEF Clean

LEMMA TrySendGood ==
  ASSUME NEW q, IsSeq(q), Clean(q), NEW m, m.kind = "Update" => m = Update
  PROVE  IsSeq(ArtTrySend(q, m)) /\ Clean(ArtTrySend(q, m))
BY SeqAppend, CleanAppend DEF ArtTrySend

(* n messages at the end of a queue. *)
LEMMA CountConcat ==
  ASSUME NEW q, IsSeq(q), Clean(q), NEW n \in Nat
  PROVE  LET p == q \o [i \in 1 .. n |-> Update]
         IN  IsSeq(p) /\ Clean(p) /\ Count(p) = Count(q) + n
<1> DEFINE u == [i \in 1 .. n |-> Update]
           p == q \o u
<1>1. PICK S : q \in Seq(S)
  BY DEF IsSeq
<1>2. q \in Seq(S \cup {Update}) /\ u \in Seq(S \cup {Update}) /\ Len(u) = n
  BY <1>1
<1>3. /\ p \in Seq(S \cup {Update}) /\ Len(q) \in Nat /\ Len(p) = Len(q) + n
      /\ \A i \in 1 .. Len(q) + n : p[i] = IF i <= Len(q) THEN q[i] ELSE u[i - Len(q)]
  BY <1>2, ConcatProperties
<1>4. DOMAIN q = 1 .. Len(q) /\ DOMAIN p = 1 .. (Len(q) + n)
  BY <1>2, <1>3
<1>5. \A i \in Len(q) + 1 .. Len(q) + n : u[i - Len(q)] = Update
  BY <1>3
<1> HIDE DEF p, u
<1>6. IsSeq(p)
  BY <1>3 DEF IsSeq
<1>7. Clean(p)
  BY <1>3, <1>4, <1>5 DEF Clean
<1>8. Updates(p) = Updates(q) \cup (Len(q) + 1 .. Len(q) + n)
  BY <1>3, <1>4, <1>5 DEF Updates
<1>9. Updates(q) \cap (Len(q) + 1 .. Len(q) + n) = {}
  BY <1>3, <1>4 DEF Updates
<1>10. /\ IsFiniteSet(Len(q) + 1 .. Len(q) + n)
       /\ Cardinality(Len(q) + 1 .. Len(q) + n) = n
  BY <1>3, FS_Interval
<1>11. Cardinality(Updates(p)) = Cardinality(Updates(q)) + n - Cardinality({})
  BY <1>8, <1>9, <1>10, CountType, FS_Union
<1>12. Count(p) = Count(q) + n
  BY <1>11, CountType, FS_EmptySet DEF Count
<1> QED BY <1>6, <1>7, <1>12 DEF p, u

LEMMA TriggerGood == ASSUME NEW t, Good(t), NEW n \in Nat PROVE Good(Trigger(t, n))
<1>1. IsSeq(t.mail) /\ Clean(t.mail) /\ Count(t.mail) \in Nat /\ Len(t.mail) \in Nat
  BY CountType, SeqAppend DEF Good
<1>2. PICK fit : fit = IF Len(t.mail) + n <= MailboxSize THEN n
                       ELSE IF Len(t.mail) < MailboxSize THEN MailboxSize - Len(t.mail) ELSE 0
  OBVIOUS
<1>3. fit \in Nat /\ fit <= n
  BY <1>1, <1>2, MailboxAssumption
<1>4. PICK q : q = t.mail \o [i \in 1 .. fit |-> Update]
  OBVIOUS
<1>5. IsSeq(q) /\ Clean(q) /\ Count(q) = Count(t.mail) + fit
  BY <1>1, <1>3, <1>4, CountConcat
<1>6. Trigger(t, n) = [triggers |-> t.triggers + n, mail |-> q, dropped |-> t.dropped + (n - fit)]
  BY <1>2, <1>4 DEF Trigger
<1> QED BY <1>1, <1>3, <1>5, <1>6 DEF Good

LEMMA AfterScanGood == ASSUME NEW rs, NEW t, Good(t) PROVE Good(AfterScan(rs, t))
<1>1. Scanned(rs) \in SUBSET Projects
  BY DEF Scanned
<1>2. Cardinality(Scanned(rs)) \in Nat
  BY <1>1, ProjectsAssumption, FS_Subset, FS_CardinalityType
<1> QED BY <1>2, TriggerGood DEF AfterScan

LEMMA PollGood ==
  ASSUME NEW t, Good(t)
  PROVE  Good([t EXCEPT !.mail = ArtTrySend(@, Poll)])
<1> DEFINE q == ArtTrySend(t.mail, Poll)
<1>1. IsSeq(t.mail) /\ Clean(t.mail)
  BY DEF Good
<1>2. Poll.kind = "Poll" /\ Update.kind = "Update"
  BY DEF Poll, Update
<1>3. Poll # Update
  BY <1>2
<1>4. Count(Append(t.mail, Poll)) = Count(t.mail)
  BY <1>1, <1>3, CountType, CountAppend
<1>5. IsSeq(q) /\ Clean(q) /\ Count(q) = Count(t.mail)
  BY <1>1, <1>2, <1>4, TrySendGood DEF ArtTrySend
<1>6. [t EXCEPT !.mail = q] = [triggers |-> t.triggers, mail |-> q, dropped |-> t.dropped]
  BY DEF Good
<1>7. Good([t EXCEPT !.mail = q])
  <2> HIDE DEF q
  <2> QED BY <1>5, <1>6 DEF Good
<1> QED BY <1>7

(* While no update is handled the actor's own queue is good, and a good queue
   is what its handlers leave. *)
LEMMA QueueGood == CountInv /\ artBusy # Update => Good(Queue)
BY CountType DEF CountInv, Good, Queue

LEMMA BecomesGood ==
  ASSUME NEW t, Good(t), Becomes(t), artBusy' = Idle, up' # "settings"
  PROVE  CountInv'
<1>1. Idle.kind = "Idle" /\ Update.kind = "Update"
  BY DEF Idle, Update
<1>2. Idle # Update
  BY <1>1
<1>3. IsSeq(artMail)' /\ Clean(artMail)'
  BY DEF Good, Becomes, Clean, IsSeq
<1>4. Count(artMail') = Count(t.mail) /\ Count(t.mail) \in Nat
  BY CountType DEF Becomes, Good
<1> QED BY <1>1, <1>2, <1>3, <1>4 DEF CountInv, Good, Becomes, Count, Updates

LEMMA CountFrame ==
  ASSUME CountInv, UNCHANGED <<artMail, artBusy, triggers, dropped>>,
         up' = "settings" => up = "settings"
  PROVE  CountInv'
BY DEF CountInv, Clean, IsSeq, Count, Updates

LEMMA TakeCount == ASSUME CountInv, Take, up' # "settings" PROVE CountInv'
<1>1. IsSeq(artMail) /\ artMail # <<>> /\ artMail' = Tail(artMail)
      /\ artBusy = Idle /\ artBusy' = Head(artMail) /\ UNCHANGED <<triggers, dropped>>
  BY DEF Take, CountInv
<1>2. Count(artMail) = Count(artMail') + (IF artBusy' = Update THEN 1 ELSE 0)
  BY <1>1, CountTail
<1>3. IsSeq(artMail') /\ Count(artMail') \in Nat
  BY <1>1, SeqTail, CountType
<1>4. Clean(artMail') /\ (artBusy'.kind = "Update" => artBusy' = Update)
  BY <1>1, SeqTail DEF Clean, CountInv
<1>5. Idle.kind = "Idle" /\ Update.kind = "Update"
  BY DEF Idle, Update
<1>6. Idle # Update
  BY <1>5
<1> QED BY <1>1, <1>2, <1>3, <1>4, <1>6 DEF CountInv

LEMMA ArtifactsActsCount == ASSUME CountInv, ArtifactsActs PROVE CountInv'
<1>0. up' = up /\ up' # "settings" /\ ArtifactsStep
  BY DEF ArtifactsActs
<1>1. CASE Take
  BY <1>0, <1>1, TakeCount
<1>k. Update.kind = "Update"
  BY DEF Update
<1>2. CASE UpdateRoots
  <2> DEFINE t == AfterScan(roots' \ roots, Queue)
  <2>1. artBusy # Update /\ artBusy' = Idle
        /\ Becomes([t EXCEPT !.mail = ArtTrySend(@, Poll)])
    BY <1>2, <1>k DEF UpdateRoots, Handles
  <2>2. Good(t)
    BY <2>1, QueueGood, AfterScanGood
  <2> HIDE DEF t
  <2> QED BY <1>0, <2>1, <2>2, PollGood, BecomesGood
<1>3. CASE PollProjectRoots
  <2> DEFINE t == AfterScan(roots, Queue)
  <2>1. artBusy # Update /\ artBusy' = Idle /\ Becomes(t)
    BY <1>3, <1>k DEF PollProjectRoots, Handles
  <2>2. Good(t)
    BY <2>1, QueueGood, AfterScanGood
  <2> HIDE DEF t
  <2> QED BY <1>0, <2>1, <2>2, BecomesGood
<1>4. CASE NewContract
  <2>1. artBusy # Update /\ artBusy' = Idle /\ Becomes(Trigger(Queue, 1))
    BY <1>4, <1>k DEF NewContract, Handles
  <2> QED BY <1>0, <2>1, QueueGood, TriggerGood, BecomesGood
<1>5. CASE UpdateContracts
  <2> DEFINE t == [triggers |-> triggers - 1, mail |-> artMail, dropped |-> dropped]
  <2>1. artBusy = Update /\ artBusy' = Idle /\ Becomes(t)
    BY <1>5 DEF UpdateContracts, Handles, CountInv, Becomes
  <2>2. Good(t)
    BY <2>1, CountType DEF CountInv, Good
  <2> HIDE DEF t
  <2> QED BY <1>0, <2>1, <2>2, BecomesGood
<1> QED BY <1>0, <1>1, <1>2, <1>3, <1>4, <1>5 DEF ArtifactsStep

LEMMA ArtifactsHearsCount == ASSUME CountInv, ArtifactsHears PROVE CountInv'
<1>0. up' = up /\ up' # "settings" /\ ArtifactsReceiver
  BY DEF ArtifactsHears
<1>1. UNCHANGED <<artBusy, triggers, dropped>>
  BY <1>0 DEF ArtifactsReceiver
<1>2. CASE artMail' = artMail
  BY <1>0, <1>1, <1>2, CountFrame
<1>3. ASSUME NEW m, artMail' = Append(artMail, m), m.kind # "Update" PROVE CountInv'
  <2>1. m # Update /\ IsSeq(artMail) /\ Clean(artMail)
    BY <1>3 DEF Update, CountInv
  <2>2. Count(artMail') = Count(artMail) /\ IsSeq(artMail') /\ Clean(artMail')
    BY <1>3, <2>1, SeqAppend, CleanAppend, CountType, CountAppend
  <2> QED BY <1>0, <1>1, <2>2 DEF CountInv
<1>4. \/ artMail' = artMail
      \/ artMail' = Append(artMail, [kind |-> "New"])
      \/ artMail' = Append(artMail, [kind |-> "Roots", path |-> settings.fields["abiWatchPath"]])
  BY <1>0 DEF ArtifactsReceiver
<1> QED BY <1>2, <1>3, <1>4

LEMMA BootCount == ASSUME CountInv, Boot PROVE CountInv'
<1>1. CASE Start
  <2>1. artMail' = <<>> /\ artBusy' = Idle /\ triggers' = 0 /\ dropped' = 0
    BY <1>1 DEF Start, StartArtifacts
  <2>2. Idle.kind = "Idle" /\ Update.kind = "Update"
    BY DEF Idle, Update
  <2>3. Idle # Update
    BY <2>2
  <2>4. IsSeq(artMail') /\ Clean(artMail') /\ Count(artMail') = 0
    BY <2>1, SeqShort, CountShort DEF Clean
  <2> QED BY <2>1, <2>2, <2>3, <2>4 DEF CountInv
<1>2. CASE StartedArtifacts
  <2>1. up = "settings" /\ up' = "artifacts" /\ UNCHANGED <<artBusy, triggers, dropped>>
    BY <1>2 DEF StartedArtifacts, InitArtifacts
  <2>2. ASSUME NEW m, m.kind = "Roots", artMail' = <<m>>
        PROVE  IsSeq(artMail') /\ Clean(artMail') /\ Count(artMail') = 0
    <3>1. m # Update
      BY <2>2 DEF Update
    <3> QED BY <2>2, <3>1, SeqShort, CountShort DEF Clean
  <2>4. artMail' = <<>> \/ \E m : m.kind = "Roots" /\ artMail' = <<m>>
    BY <1>2 DEF StartedArtifacts, InitArtifacts
  <2>5. IsSeq(artMail') /\ Clean(artMail') /\ Count(artMail') = 0
    BY <2>2, <2>4, SeqShort, CountShort DEF Clean
  <2>6. artBusy' # Update /\ artBusy'.kind # "Update"
    BY <2>1 DEF CountInv, Idle, Update
  <2> QED BY <2>1, <2>5, <2>6 DEF CountInv
<1>3. CASE Ended \/ StartedStacks
  <2>1. UNCHANGED <<artMail, artBusy, triggers, dropped>> /\ up' # "settings"
    BY <1>3 DEF Ended, StartedStacks, artifactsVars
  <2> QED BY <2>1, CountFrame
<1> QED BY <1>1, <1>2, <1>3 DEF Boot

LEMMA CountNext == CountInv /\ [Next]_vars => CountInv'
<1> SUFFICES ASSUME CountInv, [Next]_vars PROVE CountInv'
  OBVIOUS
<1> DEFINE Frame == /\ UNCHANGED <<artMail, artBusy, triggers, dropped>>
                    /\ up' = "settings" => up = "settings"
<1>1. CASE Crash \/ Exit \/ UserActs \/ BusLags \/ UNCHANGED vars
  <2>1. Frame
    BY <1>1 DEF Crash, Exit, UserActs, BusLags, vars, artifactsVars
  <2> QED BY <2>1, CountFrame
<1>2. CASE Tasks
  <2>1. CASE \/ SettingsActs \/ SettingsHears \/ StacksActs \/ StacksHears
             \/ \E s \in Slugs : CommandActs(s)
             \/ \E r \in Receivers : Subscribe(r)
    <3>1. Frame
      BY <2>1 DEF SettingsActs, SettingsHears, StacksActs, StacksHears, CommandActs,
                  Subscribe, artifactsVars
    <3> QED BY <3>1, CountFrame
  <2> QED BY <1>2, <2>1, ArtifactsActsCount, ArtifactsHearsCount DEF Tasks
<1>3. CASE WorldActs
  <2>1. Frame
    BY <1>3 DEF WorldActs, Build, ContractFound, artifactsVars
  <2> QED BY <2>1, CountFrame
<1> QED BY <1>1, <1>2, <1>3, BootCount DEF Next

(* trigger_update_contracts and update_contracts, with messages that do not
   fit into the mailbox: for any artifacts, contracts and mailbox, and any
   order of triggers and messages, the counter is the number of updates still
   to be handled plus those that were dropped, so it is never decremented at
   zero. *)
THEOREM TriggersAlwaysCounted == Spec => []TriggersCounted
<1>1. Init => CountInv
  <2> SUFFICES ASSUME Init PROVE CountInv
    OBVIOUS
  <2>1. artMail = <<>> /\ artBusy = Idle /\ triggers = 0 /\ dropped = 0
    BY DEF Init
  <2>2. Idle.kind = "Idle" /\ Update.kind = "Update"
    BY DEF Idle, Update
  <2>3. IsSeq(artMail) /\ Clean(artMail) /\ Count(artMail) = 0
    BY <2>1, SeqShort, CountShort DEF Clean
  <2>4. Idle # Update
    BY <2>2
  <2> QED BY <2>1, <2>2, <2>3, <2>4 DEF CountInv
<1>2. CountInv => TriggersCounted
  BY DEF CountInv, TriggersCounted, Posted, Count, Updates
<1> QED BY <1>1, <1>2, CountNext, PTL DEF Spec
------------------------------------------------------------------------------
MailKinds == {"All", "DarkMode", "FastMode", "RunLocalStacks", "Step", "Finish", "Alias"}

Shape ==
  /\ IsSettings(settings) /\ (file = NoFile \/ IsSettings(file))
  /\ IsSeq(mail) /\ \A i \in DOMAIN mail : mail[i].kind \in MailKinds
  /\ IsBudget(left)

(* The faults so far are not forgotten. *)
Grows == IsBudget(left') /\ left.failed \subseteq left'.failed

LEMMA UsesGrows ==
  ASSUME IsBudget(left), NEW k, k # "failed", Uses(k)
  PROVE  Grows
BY DEF IsBudget, Uses, Grows

LEMMA FailsGrows ==
  ASSUME IsBudget(left), NEW k, k # "failed", Fails(k)
  PROVE  Grows /\ k \in left'.failed
BY DEF IsBudget, Fails, Grows

LEMMA SameGrows == IsBudget(left) /\ UNCHANGED left => Grows
BY DEF Grows, IsBudget

(* What a form leaves as it is until it is saved. *)
Kept(s, t) ==
  /\ s.fields["rustLog"] = t.fields["rustLog"]
  /\ s.fields["runLocalStacks"] = t.fields["runLocalStacks"]
  /\ s.aliases = t.aliases /\ s.steps = t.steps /\ s.hidden = t.hidden

LEMMA SavedFieldsIn == {"rustLog", "runLocalStacks"} \subseteq Fields
BY DEF Fields, Late

LEMMA AssignShape ==
  ASSUME NEW s, IsSettings(s), NEW map, NEW fs
  PROVE  /\ IsSettings(Assign(s, map, fs))
         /\ "rustLog" \notin fs /\ "runLocalStacks" \notin fs => Kept(Assign(s, map, fs), s)
<1> DEFINE g == [f \in DOMAIN s.fields |->
                   IF f \in fs \cap DOMAIN map THEN Stored(f, map[f]) ELSE s.fields[f]]
<1>1. DOMAIN s.fields = Fields
  BY DEF IsSettings
<1>2. Assign(s, map, fs) = [s EXCEPT !.fields = g]
  BY DEF Assign
<1>3. g = [f \in Fields |-> g[f]] /\ \A f \in Fields \ fs : g[f] = s.fields[f]
  BY <1>1
<1> HIDE DEF g
<1>4. [s EXCEPT !.fields = g] =
        [version |-> s.version, fields |-> g, aliases |-> s.aliases, steps |-> s.steps,
         hidden |-> s.hidden, onboarded |-> s.onboarded]
  BY DEF IsSettings
<1> QED BY <1>2, <1>3, <1>4, SavedFieldsIn DEF IsSettings, Kept

LEMMA AppliedShape ==
  ASSUME IsSettings(settings), NEW m, m.kind \in MailKinds \ {"All"}
  PROVE  IsSettings(Applied(m))
<1>1. ASSUME NEW f \in Fields, NEW v PROVE IsSettings([settings EXCEPT !.fields[f] = v])
  BY DEF IsSettings
<1>2. {"darkMode", "fastMode", "runLocalStacks"} \subseteq Fields
  BY DEF Fields, Early, Late
<1>3. CASE m.kind \in {"DarkMode", "FastMode", "RunLocalStacks"}
  BY <1>1, <1>2, <1>3 DEF Applied
<1>4. CASE m.kind \in {"Step", "Finish", "Alias"}
  BY <1>4 DEF Applied, FinishStep, Finish, IsSettings
<1> QED BY <1>3, <1>4 DEF MailKinds

LEMMA LoadShape == Shape => IsSettings(Load)
<1> SUFFICES ASSUME Shape PROVE IsSettings(Load)
  OBVIOUS
<1>1. IsSettings(DefaultSettings)
  BY FilesAssumption DEF DefaultSettings, IsSettings
<1>2. ASSUME NEW s, IsSettings(s) PROVE IsSettings(Deserialize(s))
  BY <1>2 DEF Deserialize, IsSettings
<1>3. ASSUME NEW s, IsSettings(s) PROVE IsSettings(V1ToV2(s))
  BY <1>3 DEF V1ToV2, IsSettings
<1>4. ASSUME NEW s, IsSettings(s) PROVE IsSettings(V2ToV3(s))
  <2> DEFINE g == [s.fields EXCEPT !["runLocalStacks"] = FALSE,
                                   !["walletconnectProjectId"] = None]
  <2>1. g = [f \in Fields |-> g[f]]
    BY <1>4 DEF IsSettings
  <2>2. V2ToV3(s) = [s EXCEPT !.version = 3, !.fields = g]
    BY DEF V2ToV3
  <2> HIDE DEF g
  <2>3. V2ToV3(s) = [version |-> 3, fields |-> g, aliases |-> s.aliases,
                     steps |-> s.steps, hidden |-> s.hidden, onboarded |-> s.onboarded]
    BY <1>4, <2>2 DEF IsSettings
  <2> QED BY <2>1, <2>3 DEF IsSettings
<1>5. ASSUME NEW s, IsSettings(s) PROVE IsSettings(RunMigrations(s))
  BY <1>3, <1>4, <1>5 DEF RunMigrations
<1> QED BY <1>1, <1>2, <1>5 DEF Load, Shape

(* What a step does to the settings: what matters is kept and the file is as
   it was, or they are saved and announced, or the disk has failed. *)
Moved ==
  \/ Kept(settings', settings) /\ UNCHANGED file
  \/ file' = settings' /\ Announce(Updated)
  \/ "disk" \in left'.failed

LEMMA MailTold ==
  ASSUME Shape, UNCHANGED mail \/ \E m : m.kind \in MailKinds /\ Tell(m)
  PROVE  IsSeq(mail') /\ \A i \in DOMAIN mail' : mail'[i].kind \in MailKinds
<1>1. CASE UNCHANGED mail
  BY <1>1 DEF Shape
<1>2. ASSUME NEW m, m.kind \in MailKinds, Tell(m)
      PROVE  IsSeq(mail') /\ \A i \in DOMAIN mail' : mail'[i].kind \in MailKinds
  BY <1>2, SeqAppend DEF Shape, Tell
<1> QED BY <1>1, <1>2

LEMMA MailFrame ==
  ASSUME Shape, UNCHANGED <<settings, file>>, Grows,
         UNCHANGED mail \/ \E m : m.kind \in MailKinds /\ Tell(m)
  PROVE  Shape' /\ Moved
<1>1. IsSeq(mail') /\ \A i \in DOMAIN mail' : mail'[i].kind \in MailKinds
  BY MailTold
<1>2. IsSettings(settings') /\ (file' = NoFile \/ IsSettings(file'))
  BY DEF Shape
<1> QED BY <1>1, <1>2 DEF Shape, Moved, Kept, Grows

LEMMA MailTail ==
  ASSUME Shape, mail # <<>>
  PROVE  /\ Head(mail).kind \in MailKinds
         /\ IsSeq(Tail(mail)) /\ \A i \in DOMAIN Tail(mail) : Tail(mail)[i].kind \in MailKinds
BY SeqTail DEF Shape

LEMMA SaveEffect ==
  ASSUME IsBudget(left), NEW s, Save(s)
  PROVE  /\ Grows
         /\ \/ file' = s /\ Announce(Updated)
            \/ UNCHANGED file /\ "disk" \in left'.failed
BY SameGrows, FailsGrows DEF Save

LEMMA SetValueEffect == ASSUME Shape, SetValue PROVE Shape' /\ Grows /\ Moved
<1>1. mail # <<>> /\ mail' = Tail(mail) /\ Head(mail).kind # "All"
      /\ settings' = Applied(Head(mail)) /\ Save(settings')
  BY DEF SetValue
<1>2. IsSettings(settings')
  BY <1>1, MailTail, AppliedShape DEF Shape
<1>3. Grows /\ (\/ file' = settings' /\ Announce(Updated)
                \/ UNCHANGED file /\ "disk" \in left'.failed)
  BY <1>1, SaveEffect DEF Shape
<1> QED BY <1>1, <1>2, <1>3, MailTail DEF Shape, Moved, Grows

(* A form's assignment that is not saved. *)
LEMMA AssignEffect ==
  ASSUME Shape, NEW map, NEW fs, "rustLog" \notin fs, "runLocalStacks" \notin fs,
         settings' = Assign(settings, map, fs), UNCHANGED <<file, left>>,
         IsSeq(mail'), \A i \in DOMAIN mail' : mail'[i].kind \in MailKinds
  PROVE  Shape' /\ Grows /\ Moved
<1>1. IsSettings(settings') /\ Kept(settings', settings)
  BY AssignShape DEF Shape
<1>2. Grows
  BY SameGrows DEF Shape
<1> QED BY <1>1, <1>2 DEF Shape, Moved, Grows

LEMMA TestKeyEffect ==
  ASSUME Shape, NEW k \in Keys, TestKey(k)
  PROVE  Shape' /\ Grows /\ Moved
<1>1. UNCHANGED <<file, left>>
      /\ (UNCHANGED mail \/ Tell([kind |-> "Step", step |-> StepOf(k)]))
  BY DEF TestKey
<1>2. Grows
  BY <1>1, SameGrows DEF Shape
<1>3. UNCHANGED mail \/ \E m : m.kind \in MailKinds /\ Tell(m)
  BY <1>1 DEF MailKinds
<1>4. CASE UNCHANGED settings
  BY <1>1, <1>2, <1>3, <1>4, MailFrame
<1>5. CASE settings' = Assign(settings, form.map, {k})
  <2>1. IsSeq(mail') /\ \A i \in DOMAIN mail' : mail'[i].kind \in MailKinds
    BY <1>3, MailTold
  <2>2. "rustLog" \notin {k} /\ "runLocalStacks" \notin {k}
    BY DEF Keys
  <2> QED BY <1>1, <1>5, <2>1, <2>2, AssignEffect
<1> QED BY <1>4, <1>5 DEF TestKey, KeyRejected

LEMMA FinishFormEffect == ASSUME Shape, FinishForm PROVE Shape' /\ Grows /\ Moved
<1>0. UNCHANGED mail
  BY DEF FinishForm
<1>1. CASE AutostartFails \/ ReloadFails
  <2>1. ASSUME NEW n \in {3, 5}
        PROVE  "rustLog" \notin LateUpTo(n) /\ "runLocalStacks" \notin LateUpTo(n)
    BY DEF LateUpTo, Late
  <2> QED BY <1>0, <1>1, <2>1, AssignEffect DEF AutostartFails, ReloadFails, Shape
<1>2. CASE settings' = Assign(settings, form.map, LateUpTo(7)) /\ Save(settings')
  <2>1. IsSettings(settings')
    BY <1>2, AssignShape DEF Shape
  <2>2. Grows /\ (\/ file' = settings' /\ Announce(Updated)
                  \/ UNCHANGED file /\ "disk" \in left'.failed)
    BY <1>2, SaveEffect DEF Shape
  <2> QED BY <1>0, <2>1, <2>2 DEF Shape, Moved, Grows
<1> QED BY <1>1, <1>2 DEF FinishForm

LEMMA SettingsStepEffect == ASSUME Shape, SettingsStep PROVE Shape' /\ Grows /\ Moved
<1>1. CASE BeginForm
  <2>1. "rustLog" \notin Early /\ "runLocalStacks" \notin Early
    BY DEF Early
  <2>2. mail # <<>> /\ mail' = Tail(mail) /\ UNCHANGED <<file, left>>
        /\ settings' = Assign(settings, Head(mail).map, Early)
    BY <1>1 DEF BeginForm
  <2> QED BY <2>1, <2>2, MailTail, AssignEffect
<1> QED BY <1>1, SetValueEffect, TestKeyEffect, FinishFormEffect DEF SettingsStep
------------------------------------------------------------------------------
(* The other steps leave the settings alone, and at most tell them something. *)
Aside ==
  /\ UNCHANGED <<settings, file>> /\ Grows
  /\ UNCHANGED mail \/ \E m : m.kind \in MailKinds /\ Tell(m)

LEMMA ContainerGrows ==
  ASSUME IsBudget(left), Run \/ Stop \/ Shutdown \/ Initializing \/ \E b : SetEnabled(b)
  PROVE  Grows
<1>1. Run => Grows
  BY SameGrows, FailsGrows DEF Run
<1>2. Stop => Grows
  BY SameGrows, FailsGrows DEF Stop
<1>3. Shutdown => Grows
  BY <1>2, SameGrows DEF Shutdown
<1>4. Initializing => Grows
  BY <1>1, SameGrows, FailsGrows DEF Initializing, NotReady
<1>5. ASSUME NEW b, SetEnabled(b) PROVE Grows
  BY <1>1, <1>2, <1>5, SameGrows DEF SetEnabled
<1> QED BY <1>1, <1>2, <1>3, <1>4, <1>5

LEMMA ScanAside ==
  ASSUME NEW rs, Scan(rs)
  PROVE  UNCHANGED mail \/ \E m : m.kind \in MailKinds /\ Tell(m)
<1>1. [kind |-> "Step", step |-> "Foundry"].kind \in MailKinds
  BY DEF MailKinds
<1> QED BY <1>1 DEF Scan

LEMMA ArtifactsAside ==
  ASSUME IsBudget(left), ArtifactsStep \/ ArtifactsReceiver \/ InitArtifacts
  PROVE  Aside
<1>1. CASE Take \/ NewContract \/ ArtifactsReceiver \/ InitArtifacts
  BY <1>1, SameGrows DEF Take, NewContract, ArtifactsReceiver, InitArtifacts, others,
                         settingsVars, Aside
<1>2. CASE UpdateRoots \/ PollProjectRoots
  BY <1>2, SameGrows, ScanAside DEF UpdateRoots, PollProjectRoots, others, Aside
<1>3. CASE UpdateContracts
  <2>1. Grows
    BY <1>3, SameGrows, FailsGrows DEF UpdateContracts, MatchContracts
  <2> QED BY <1>3, <2>1 DEF UpdateContracts, settingsVars, Aside
<1> QED BY <1>1, <1>2, <1>3 DEF ArtifactsStep

LEMMA StacksAside ==
  ASSUME IsBudget(left),
         HandleSetEnabled \/ StacksReceiver \/ InitStacks \/ StacksShutdown \/ ContainerDies
  PROVE  Aside
<1>1. Grows
  BY ContainerGrows, SameGrows, FailsGrows
     DEF HandleSetEnabled, StacksReceiver, InitStacks, StacksShutdown, ContainerDies
<1> QED BY <1>1 DEF HandleSetEnabled, StacksReceiver, InitStacks, StacksShutdown,
                    ContainerDies, settingsVars, Aside

LEMMA StackCommandsAside ==
  ASSUME IsBudget(left), StacksUnchanged,
         \E s \in Slugs : StackCommand(s) \/ StackProgress(s)
  PROVE  Aside
<1>1. Grows
  BY SameGrows, UsesGrows DEF StackCommand, CreateStack, RemoveStack, StackProgress,
                              GetChainId, AddStackNetwork, RemoveStackNetwork
<1> QED BY <1>1 DEF StacksUnchanged, settingsVars, Aside

LEMMA CommandsAside ==
  ASSUME IsBudget(left), NEW c \in Commands, SettingsCommand(c)
  PROVE  Aside
<1>1. c.kind \in MailKinds
  BY DEF Commands, MailKinds
<1>2. Grows
  BY <1>1, UsesGrows DEF SettingsCommand, MailKinds
<1> QED BY <1>1, <1>2 DEF SettingsCommand, Aside

LEMMA ReceiverAside == ASSUME IsBudget(left), SettingsReceiver PROVE Aside
<1>1. ASSUME NEW kind PROVE [kind |-> "Step", step |-> ReceiverStep(kind)].kind \in MailKinds
  BY DEF MailKinds
<1> QED BY <1>1, SameGrows DEF SettingsReceiver, Aside

LEMMA WorldAside == ASSUME IsBudget(left), WorldActs PROVE Aside
<1>1. CASE \E kind \in Handled["settings"] : Announced(kind)
  <2>1. "failed" \notin Handled["settings"]
    BY DEF Handled
  <2> QED BY <1>1, <2>1, UsesGrows DEF Announced, Aside
<1>2. CASE (\E f \in Files : Build(f)) \/ \E c \in Contracts : ContractFound(c)
  BY <1>2, UsesGrows DEF Build, ContractFound, settingsVars, Aside
<1> QED BY <1>1, <1>2, StacksAside DEF WorldActs

LEMMA BootAside ==
  ASSUME IsBudget(left), Ended \/ StartedArtifacts \/ StartedStacks \/ Crash \/ Exit
  PROVE  Aside /\ up' # "settings" /\ (Running' => Running)
<1>1. CASE Ended \/ Crash
  BY <1>1, UsesGrows DEF Ended, Crash, settingsVars, Aside, Running
<1>2. CASE StartedArtifacts
  BY <1>2, ArtifactsAside DEF StartedArtifacts, Running
<1>3. CASE StartedStacks
  <2>1. Aside
    BY <1>3, StacksAside, SameGrows DEF StartedStacks, settingsVars, Aside
  <2> QED BY <1>3, <2>1 DEF StartedStacks, Running
<1>4. CASE Exit
  BY <1>4, ContainerGrows DEF Exit, settingsVars, Aside, Running
<1> QED BY <1>1, <1>2, <1>3, <1>4

LEMMA StartEffect ==
  ASSUME Shape, Start
  PROVE  Shape' /\ Grows /\ up' = "settings" /\ file' = settings'
<1>1. settings' = Load /\ file' = settings' /\ mail' = <<>> /\ UNCHANGED left
      /\ up' = "settings"
  BY DEF Start, StartSettings
<1>2. IsSettings(settings')
  BY <1>1, LoadShape
<1>3. IsSeq(mail') /\ \A i \in DOMAIN mail' : mail'[i].kind \in MailKinds
  BY <1>1, SeqShort
<1>4. Grows
  BY <1>1, SameGrows DEF Shape
<1> QED BY <1>1, <1>2, <1>3, <1>4 DEF Shape, Grows

(* Every step but the start of the process. *)
LEMMA StepEffect ==
  ASSUME Shape, Next, ~Start
  PROVE  Shape' /\ Grows /\ Moved /\ (Running' => Running)
<1>0. IsBudget(left)
  BY DEF Shape
<1>1. Aside => Shape' /\ Grows /\ Moved
  BY MailFrame DEF Aside
<1>2. CASE Boot \/ Crash \/ Exit
  BY <1>0, <1>1, <1>2, BootAside DEF Boot
<1>3. CASE Tasks
  <2>1. CASE SettingsActs
    BY <2>1, SettingsStepEffect DEF SettingsActs, Running
  <2>2. CASE SettingsHears
    BY <1>0, <1>1, <2>2, ReceiverAside DEF SettingsHears, Running
  <2>3. CASE StacksActs \/ StacksHears
    BY <1>0, <1>1, <2>3, StacksAside DEF StacksActs, StacksHears, Running
  <2>4. CASE ArtifactsActs \/ ArtifactsHears
    BY <1>0, <1>1, <2>4, ArtifactsAside DEF ArtifactsActs, ArtifactsHears, Running
  <2>5. CASE \E s \in Slugs : CommandActs(s)
    BY <1>0, <1>1, <2>5, StackCommandsAside DEF CommandActs, Running
  <2>6. CASE \E r \in Receivers : Subscribe(r)
    BY <1>0, <1>1, <2>6, SameGrows DEF Subscribe, settingsVars, Aside, Running
  <2> QED BY <1>3, <2>1, <2>2, <2>3, <2>4, <2>5, <2>6 DEF Tasks
<1>4. CASE UserActs
  <2>1. Aside
    BY <1>0, <1>4, CommandsAside, StackCommandsAside, StacksAside DEF UserActs
  <2> QED BY <1>1, <1>4, <2>1 DEF UserActs, Running
<1>5. CASE WorldActs
  <2>1. up' = up
    BY <1>5 DEF WorldActs
  <2> QED BY <1>0, <1>1, <1>5, <2>1, WorldAside DEF Running
<1>6. CASE BusLags
  BY <1>0, <1>1, <1>6, FailsGrows DEF BusLags, Lag, settingsVars, Aside, Running
<1> QED BY <1>2, <1>3, <1>4, <1>5, <1>6 DEF Next

SavedInv == Shape /\ SavedFields

LEMMA SavedInit == Init => SavedInv
<1> SUFFICES ASSUME Init PROVE SavedInv
  OBVIOUS
<1>1. IsSettings(DefaultSettings)
  BY FilesAssumption DEF DefaultSettings, IsSettings
<1>2. settings = DefaultSettings /\ file \in FirstFiles /\ mail = <<>> /\ left \in Budgets
      /\ up = "off"
  BY DEF Init
<1>3. IsSeq(mail) /\ \A i \in DOMAIN mail : mail[i].kind \in MailKinds
  BY <1>2, SeqShort
<1>4. Shape
  BY <1>1, <1>2, <1>3, FilesAssumption, BudgetsAssumption DEF Shape
<1>5. SavedFields
  BY <1>2 DEF SavedFields, Running
<1> QED BY <1>4, <1>5 DEF SavedInv

LEMMA SavedNext == SavedInv /\ [Next]_vars => SavedInv'
<1> SUFFICES ASSUME SavedInv, [Next]_vars PROVE SavedInv'
  OBVIOUS
<1>0. Shape /\ SavedFields
  BY DEF SavedInv
<1>1. CASE UNCHANGED vars
  <2>1. UNCHANGED <<settings, file, mail, left, up>>
    BY <1>1 DEF vars, settingsVars
  <2>2. Shape'
    BY <1>0, <2>1 DEF Shape
  <2>3. SavedFields'
    BY <1>0, <2>1 DEF SavedFields, Running
  <2> QED BY <2>2, <2>3 DEF SavedInv
<1>2. CASE Start
  BY <1>0, <1>2, StartEffect DEF SavedInv, SavedFields
<1>3. CASE Next /\ ~Start
  <2>1. Shape' /\ Grows /\ Moved /\ (Running' => Running)
    BY <1>0, <1>3, StepEffect
  <2>2. CASE Kept(settings', settings) /\ UNCHANGED file
    BY <1>0, <2>1, <2>2 DEF SavedInv, SavedFields, Kept, Grows
  <2>3. CASE file' = settings' \/ "disk" \in left'.failed
    BY <2>1, <2>3 DEF SavedInv, SavedFields
  <2> QED BY <2>1, <2>2, <2>3 DEF Moved
<1> QED BY <1>1, <1>2, <1>3

(* SettingsActor::set, which returns on the first failing test with the
   fields before it changed: for any forms, files and commands, and tests,
   tells and crashes in any order, what is in memory differs from the file
   in none of the log level, the stacks setting, the aliases and the
   onboarding, unless a write has failed. *)
THEOREM FieldsAlwaysSaved == Spec => []SavedFields
<1>1. SavedInv => SavedFields
  BY DEF SavedInv
<1> QED BY <1>1, SavedInit, SavedNext, PTL DEF Spec
------------------------------------------------------------------------------
BusOK == inbox = [r \in Receivers |-> inbox[r]] /\ IsSeq(inbox["stacks"])

(* The last value of the setting that the stacks actor gets to see. *)
LastTold == IF stacksMail = <<>> THEN enabled ELSE stacksMail[Len(stacksMail)]

FollowInv ==
  /\ BusOK /\ IsSeq(stacksMail)
  /\ /\ up = "ready" /\ engine # "none" /\ "disk" \notin left.failed
     /\ "stacks" \notin unheard /\ inbox["stacks"] = <<>>
     => LastTold = settings.fields["runLocalStacks"]

(* What is on its way to the receiver of stacks stays so, unless it is lost,
   and what was missed by it stays missed. *)
BusStep ==
  /\ BusOK'
  /\ inbox["stacks"] # <<>> => inbox'["stacks"] # <<>> \/ "stacks" \in unheard'
  /\ "stacks" \in unheard => "stacks" \in unheard'

LEMMA PushSeq ==
  ASSUME NEW q, IsSeq(q), NEW m
  PROVE  IsSeq(Push(q, m)) /\ Push(q, m) # <<>>
<1>1. ASSUME NEW p, IsSeq(p) PROVE IsSeq(Append(p, m)) /\ Append(p, m) # <<>>
  <2> DEFINE a == Append(p, m)
  <2>1. IsSeq(a) /\ Len(a) = Len(p) + 1 /\ Len(p) \in Nat
    BY <1>1, SeqAppend
  <2>2. a # <<>>
    <3> HIDE DEF a
    <3> QED BY <2>1, SeqShort
  <2> QED BY <2>1, <2>2
<1>2. CASE Len(q) < Capacity
  BY <1>1, <1>2 DEF Push
<1>3. CASE ~(Len(q) < Capacity)
  <2>1. q # <<>>
    BY <1>3, SeqShort, CapacityAssumption
  <2>2. IsSeq(Tail(q))
    BY <2>1, SeqTail
  <2> QED BY <1>1, <1>3, <2>2 DEF Push
<1> QED BY <1>2, <1>3

LEMMA AnnounceBus ==
  ASSUME BusOK, NEW m, Announce(m)
  PROVE  /\ BusStep
         /\ m.kind = "SettingsUpdated" => inbox'["stacks"] # <<>> \/ "stacks" \in unheard'
<1>1. "stacks" \in Receivers
  BY AppAssumption
<1>2. inbox' = [r \in Receivers |-> inbox'[r]]
  BY DEF Announce, Sent
<1>3. inbox'["stacks"] = IF "stacks" \in subscribed /\ m.kind \in Handled["stacks"]
                         THEN Push(inbox["stacks"], m) ELSE inbox["stacks"]
  BY <1>1 DEF Announce, Sent, Send
<1>4. IsSeq(inbox'["stacks"]) /\ (inbox["stacks"] # <<>> => inbox'["stacks"] # <<>>)
  BY <1>3, PushSeq DEF BusOK
<1>5. unheard \subseteq unheard'
  BY DEF Announce
<1>6. BusStep
  BY <1>2, <1>4, <1>5 DEF BusStep, BusOK
<1>7. ASSUME m.kind = "SettingsUpdated" PROVE inbox'["stacks"] # <<>> \/ "stacks" \in unheard'
  <2>1. m.kind \in Handled["stacks"]
    BY <1>7 DEF Handled
  <2>2. CASE "stacks" \in subscribed
    BY <1>3, <2>1, <2>2, PushSeq DEF BusOK
  <2>3. CASE "stacks" \notin subscribed
    BY <1>1, <2>1, <2>3 DEF Announce, Misses
  <2> QED BY <2>2, <2>3
<1> QED BY <1>6, <1>7

LEMMA SameBus ==
  ASSUME BusOK, UNCHANGED inbox, "stacks" \in unheard => "stacks" \in unheard'
  PROVE  BusStep
BY DEF BusStep, BusOK

LEMMA ReceivedBus ==
  ASSUME BusOK, NEW r, r # "stacks", inbox' = Received(r), UNCHANGED unheard
  PROVE  BusStep
<1>1. inbox' = [k \in Receivers |-> inbox'[k]]
  BY DEF Received, BusOK
<1>2. inbox'["stacks"] = inbox["stacks"]
  BY AppAssumption DEF Received, BusOK
<1> QED BY <1>1, <1>2 DEF BusStep, BusOK

LEMMA SettingsStepBus == ASSUME BusOK, SettingsStep PROVE BusStep
<1>1. ASSUME NEW s, Save(s) PROVE BusStep
  BY <1>1, AnnounceBus, SameBus DEF Save
<1> QED BY <1>1, SameBus DEF SettingsStep, SetValue, BeginForm, TestKey, FinishForm,
                             AutostartFails, ReloadFails

LEMMA ArtifactsStepBus == ASSUME BusOK, ArtifactsStep PROVE BusStep
<1>1. CASE UpdateContracts
  <2>1. UNCHANGED inbox /\ ("stacks" \in unheard => "stacks" \in unheard')
    BY <1>1 DEF UpdateContracts, MatchContracts
  <2> QED BY <2>1, SameBus
<1>2. CASE Take \/ UpdateRoots \/ PollProjectRoots \/ NewContract
  BY <1>2, SameBus DEF Take, UpdateRoots, PollProjectRoots, NewContract, others
<1> QED BY <1>1, <1>2 DEF ArtifactsStep

(* The steps that do not reach the stacks actor. *)
Elsewhere == BusStep /\ UNCHANGED <<stacksMail, enabled, engine, up>>

LEMMA TasksElsewhere ==
  ASSUME BusOK, Tasks, ~StacksActs, ~StacksHears
  PROVE  Elsewhere
<1>1. CASE SettingsActs
  BY <1>1, SettingsStepBus DEF SettingsActs, stacksVars, Elsewhere
<1>2. CASE SettingsHears
  BY <1>2, ReceivedBus DEF SettingsHears, SettingsReceiver, stacksVars, Elsewhere
<1>3. CASE ArtifactsActs
  BY <1>3, ArtifactsStepBus DEF ArtifactsActs, stacksVars, Elsewhere
<1>4. CASE ArtifactsHears
  BY <1>4, ReceivedBus DEF ArtifactsHears, ArtifactsReceiver, stacksVars, Elsewhere
<1>5. CASE \E s \in Slugs : CommandActs(s)
  BY <1>5, SameBus DEF CommandActs, StacksUnchanged, Elsewhere
<1>6. CASE \E r \in Receivers : Subscribe(r)
  BY <1>6, SameBus DEF Subscribe, stacksVars, Elsewhere
<1> QED BY <1>1, <1>2, <1>3, <1>4, <1>5, <1>6 DEF Tasks

LEMMA InputsElsewhere ==
  ASSUME BusOK, UserActs \/ WorldActs
  PROVE  Elsewhere
<1>1. CASE UserActs
  <2>1. UNCHANGED <<stacksMail, enabled, engine, up, inbox, unheard>>
    BY <1>1 DEF UserActs, SettingsCommand, StacksUnchanged, StacksShutdown, stacksVars
  <2> QED BY <2>1, SameBus DEF Elsewhere
<1>2. CASE WorldActs
  <2>1. UNCHANGED <<stacksMail, enabled, engine, up>>
    BY <1>2 DEF WorldActs, ContainerDies, stacksVars
  <2>2. BusStep
    BY <1>2, AnnounceBus, SameBus DEF WorldActs, Announced, Build, ContractFound, ContainerDies
  <2> QED BY <2>1, <2>2 DEF Elsewhere
<1> QED BY <1>1, <1>2

(* A lost announcement either has another one behind it or is remembered. *)
LEMMA LagElsewhere == ASSUME BusOK, BusLags PROVE Elsewhere
<1>1. PICK r \in subscribed : Lag(r)
  BY DEF BusLags
<1>2. inbox' = Received(r) /\ unheard \subseteq unheard'
  BY <1>1 DEF Lag, Lagged
<1>3. inbox' = [k \in Receivers |-> inbox'[k]]
  BY <1>2 DEF Received, BusOK
<1>4. CASE r # "stacks"
  <2>1. inbox'["stacks"] = inbox["stacks"]
    BY <1>2, <1>4, AppAssumption DEF Received, BusOK
  <2> QED BY <1>2, <1>3, <2>1 DEF BusLags, stacksVars, Elsewhere, BusStep, BusOK
<1>5. CASE r = "stacks"
  <2>1. inbox["stacks"] # <<>> /\ inbox'["stacks"] = Tail(inbox["stacks"])
    BY <1>1, <1>2, <1>5, AppAssumption DEF Lag, Lagged, Received, BusOK
  <2>2. /\ IsSeq(inbox'["stacks"]) /\ Len(inbox["stacks"]) \in Nat \ {0}
        /\ Len(inbox'["stacks"]) = Len(inbox["stacks"]) - 1
    BY <2>1, SeqTail DEF BusOK
  <2>3. CASE Len(inbox["stacks"]) = 1
    <3>1. "stacks" \in unheard'
      BY <1>1, <1>5, <2>3 DEF Lag
    <3> QED BY <1>3, <2>2, <3>1 DEF BusLags, stacksVars, Elsewhere, BusStep, BusOK
  <2>4. CASE Len(inbox["stacks"]) # 1
    <3>1. Len(inbox'["stacks"]) # 0
      BY <2>2, <2>4
    <3>2. inbox'["stacks"] # <<>>
      BY <3>1, SeqShort
    <3> QED BY <1>2, <1>3, <2>2, <3>2 DEF BusLags, stacksVars, Elsewhere, BusStep, BusOK
  <2> QED BY <2>3, <2>4
<1> QED BY <1>4, <1>5

LEMMA ElsewhereFollows ==
  ASSUME FollowInv, Elsewhere, Grows, Moved
  PROVE  FollowInv'
<1>1. BusOK' /\ IsSeq(stacksMail')
  BY DEF FollowInv, Elsewhere, BusStep
<1>2. CASE Kept(settings', settings)
  BY <1>1, <1>2 DEF FollowInv, Elsewhere, BusStep, Grows, Kept, LastTold
<1>3. CASE Announce(Updated)
  <2>1. inbox'["stacks"] # <<>> \/ "stacks" \in unheard'
    BY <1>3, AnnounceBus DEF Updated, FollowInv
  <2> QED BY <1>1, <2>1 DEF FollowInv
<1>4. CASE "disk" \in left'.failed
  BY <1>1, <1>4 DEF FollowInv
<1> QED BY <1>2, <1>3, <1>4 DEF Moved

LEMMA StacksActsFollow ==
  ASSUME FollowInv, StacksActs, Aside
  PROVE  FollowInv'
<1>1. stacksMail # <<>> /\ stacksMail' = Tail(stacksMail) /\ enabled' = Head(stacksMail)
      /\ UNCHANGED <<up, engine, inbox, unheard, settings>>
  BY DEF StacksActs, HandleSetEnabled, SetEnabled, settingsVars
<1>2. BusOK' /\ IsSeq(stacksMail') /\ Len(stacksMail) \in Nat \ {0}
      /\ Len(stacksMail') = Len(stacksMail) - 1
  BY <1>1, SeqTail DEF FollowInv, BusOK
<1>3. LastTold' = LastTold
  <2>1. CASE Len(stacksMail) = 1
    <3>1. stacksMail' = <<>>
      BY <1>1, <1>2, <2>1 DEF IsSeq
    <3> QED BY <1>1, <2>1, <3>1, SeqTail DEF LastTold, FollowInv
  <2>2. CASE Len(stacksMail) # 1
    <3>1. stacksMail' # <<>> /\ Len(stacksMail') \in 1..(Len(stacksMail) - 1)
      BY <1>2, <2>2, SeqShort
    <3>2. stacksMail'[Len(stacksMail')] = stacksMail[Len(stacksMail)]
      BY <1>1, <1>2, <3>1, SeqTail DEF FollowInv
    <3> QED BY <1>1, <3>1, <3>2 DEF LastTold
  <2> QED BY <2>1, <2>2
<1> QED BY <1>1, <1>2, <1>3 DEF FollowInv, Aside, Grows

(* Whatever is told last is the setting as it is now. *)
LEMMA ToldNow ==
  ASSUME BusOK', IsSeq(stacksMail'), stacksMail' # <<>>,
         stacksMail'[Len(stacksMail')] = settings.fields["runLocalStacks"],
         UNCHANGED settings
  PROVE  FollowInv'
BY DEF FollowInv, LastTold

LEMMA StacksHearsFollow ==
  ASSUME FollowInv, StacksHears
  PROVE  FollowInv'
<1>1. inbox["stacks"] # <<>> /\ inbox' = Received("stacks") /\ UNCHANGED settings
      /\ stacksMail' = Append(stacksMail, settings.fields["runLocalStacks"])
  BY DEF StacksHears, StacksReceiver, settingsVars
<1>2. BusOK'
  <2>1. inbox' = [r \in Receivers |-> inbox'[r]] /\ inbox'["stacks"] = Tail(inbox["stacks"])
    BY <1>1, AppAssumption DEF Received, FollowInv, BusOK
  <2> QED BY <1>1, <2>1, SeqTail DEF FollowInv, BusOK
<1>3. IsSeq(stacksMail') /\ Len(stacksMail) \in Nat /\ Len(stacksMail') = Len(stacksMail) + 1
      /\ stacksMail'[Len(stacksMail')] = settings.fields["runLocalStacks"]
  BY <1>1, SeqAppend DEF FollowInv
<1>4. stacksMail' # <<>>
  BY <1>3, SeqShort
<1> QED BY <1>1, <1>2, <1>3, <1>4, ToldNow

LEMMA BootFollow == ASSUME FollowInv, Boot \/ Crash \/ Exit PROVE FollowInv'
<1>1. CASE Start
  <2>1. up' = "settings" /\ stacksMail' = <<>> /\ inbox' = [r \in Receivers |-> <<>>]
    BY <1>1 DEF Start, StartStacks
  <2>2. BusOK'
    BY <2>1, AppAssumption, SeqShort DEF BusOK
  <2> QED BY <2>1, <2>2, SeqShort DEF FollowInv
<1>2. CASE Ended \/ StartedArtifacts \/ Crash \/ Exit
  <2>1. up' # "ready" /\ UNCHANGED <<inbox, stacksMail>>
    BY <1>2 DEF Ended, StartedArtifacts, InitArtifacts, Crash, Exit, stacksVars
  <2>2. BusOK' /\ IsSeq(stacksMail')
    BY <2>1 DEF FollowInv, BusOK
  <2> QED BY <2>1, <2>2 DEF FollowInv
<1>3. CASE StartedStacks
  <2>1. BusOK'
    BY <1>3 DEF StartedStacks, InitStacks, FollowInv, BusOK
  <2>2. CASE InitStacks
    <3>1. stacksMail' = <<settings.fields["runLocalStacks"]>> /\ UNCHANGED settings
      BY <2>2 DEF InitStacks, settingsVars
    <3>2. IsSeq(stacksMail') /\ Len(stacksMail') = 1
          /\ stacksMail'[1] = settings.fields["runLocalStacks"]
      BY <3>1, SeqShort
    <3>3. stacksMail' # <<>>
      BY <3>2, SeqShort
    <3> QED BY <2>1, <3>1, <3>2, <3>3, ToldNow
  <2>3. CASE engine = "none" /\ UNCHANGED stacksVars
    BY <2>1, <2>3 DEF FollowInv, stacksVars
  <2> QED BY <1>3, <2>2, <2>3 DEF StartedStacks
<1> QED BY <1>1, <1>2, <1>3 DEF Boot

LEMMA FollowNext == SavedInv /\ FollowInv /\ [Next]_vars => FollowInv'
<1> SUFFICES ASSUME SavedInv, FollowInv, [Next]_vars PROVE FollowInv'
  OBVIOUS
<1>0. Shape /\ IsBudget(left) /\ BusOK
  BY DEF SavedInv, Shape, FollowInv
<1>1. CASE UNCHANGED vars
  <2>1. UNCHANGED <<inbox, stacksMail, enabled, engine, up, left, unheard, settings>>
    BY <1>1 DEF vars, stacksVars, settingsVars
  <2> QED BY <2>1 DEF FollowInv, BusOK, LastTold
<1>2. CASE Boot \/ Crash \/ Exit
  BY <1>2, BootFollow
<1>3. CASE StacksActs \/ StacksHears
  BY <1>0, <1>3, StacksAside, StacksActsFollow, StacksHearsFollow DEF StacksActs
<1>4. CASE Elsewhere /\ Next /\ ~Start
  BY <1>0, <1>4, StepEffect, ElsewhereFollows
<1>5. (Tasks \/ UserActs \/ WorldActs \/ BusLags) => ~Start
  BY DEF Tasks, UserActs, WorldActs, BusLags, Running, Start, SettingsActs, SettingsHears, StacksActs, StacksHears,
         ArtifactsActs, ArtifactsHears, CommandActs, Subscribe
<1>6. CASE (Tasks /\ ~StacksActs /\ ~StacksHears) \/ UserActs \/ WorldActs \/ BusLags
  BY <1>0, <1>4, <1>5, <1>6, TasksElsewhere, InputsElsewhere, LagElsewhere DEF Next
<1> QED BY <1>1, <1>2, <1>3, <1>6 DEF Next

(* The stacks receiver re-reads the setting on every SettingsUpdated: for any
   channel and mailbox, forms and commands, and however updates are queued or
   overtaken, an idle stacks actor has the setting, unless the last
   announcement is one its receiver never saw (it had not subscribed, or other
   messages filled the ring) or a write failed.  An announcement that is lost
   with a later one behind it does no harm. *)
THEOREM EnabledAlwaysFollows == Spec => []EnabledFollows
<1>1. Init => FollowInv
  <2> SUFFICES ASSUME Init PROVE FollowInv
    OBVIOUS
  <2>1. up = "off" /\ stacksMail = <<>> /\ inbox = [r \in Receivers |-> <<>>]
    BY DEF Init
  <2>2. BusOK
    BY <2>1, AppAssumption, SeqShort DEF BusOK
  <2> QED BY <2>1, <2>2, SeqShort DEF FollowInv
<1>2. FollowInv => EnabledFollows
  BY DEF FollowInv, EnabledFollows, LastTold
<1> QED BY <1>1, <1>2, SavedInit, SavedNext, FollowNext, PTL DEF Spec
==============================================================================
