------------------------------- MODULE Consent -------------------------------
(***************************************************************************)
(* What the program owes its user: what is done in the user's name is done *)
(* after a window of that very request has shown its terms and the user    *)
(* then agreed - once - or it needs no consent at all; and each part of    *)
(* its content was shown there or is what was asked for.  The parts count  *)
(* one by one: that they were shown together is not promised.  How         *)
(* requests are served, which windows there are and how they talk to the   *)
(* program is not said here.                                               *)
(***************************************************************************)
EXTENDS Naturals

CONSTANTS Slots,    \* where requests are served, one at a time each
          Deeds,    \* what can be done in the user's name
          Terms,    \* deed -> the parts of it that a window always shows
          Content,  \* deed -> the parts that a window may be able to change
          Free      \* the deeds that need no consent

VARIABLES asked,    \* slot -> the content that was asked for
          offered,  \* slot -> the parts its window has shown so far
          agreed,   \* slot -> the user has agreed
          done,     \* the deeds done
          count     \* how many times anything was done

vars == <<asked, offered, agreed, done, count>>

Init ==
  /\ asked = [s \in Slots |-> {}]
  /\ offered = [s \in Slots |-> {}]
  /\ agreed = [s \in Slots |-> FALSE]
  /\ done = {} /\ count = 0

(* Something is asked for, *)
Ask(s) ==
  /\ asked[s] = {} /\ offered[s] = {}
  /\ asked' = [asked EXCEPT ![s] = asked'[s]]
  /\ UNCHANGED <<offered, agreed, done, count>>

(* a window shows parts of what may be done, *)
Offer(s) ==
  /\ offered[s] \subseteq offered'[s]
  /\ offered' = [offered EXCEPT ![s] = offered'[s]]
  /\ UNCHANGED <<asked, agreed, done, count>>

(* and the user agrees. *)
Agree(s) ==
  /\ offered[s] # {}
  /\ agreed' = [agreed EXCEPT ![s] = TRUE]
  /\ UNCHANGED <<asked, offered, done, count>>

Record(d) == done' = done \cup {d} /\ count' = count + 1

(* What was shown and agreed to is void from now on; the request ends, or
   comes back with another window. *)
Forget(s) ==
  /\ offered' = [offered EXCEPT ![s] = {}]
  /\ agreed' = [agreed EXCEPT ![s] = FALSE]
  /\ asked' \in {asked, [asked EXCEPT ![s] = {}]}

(* It is done, which uses the consent up. *)
Do(s, d) ==
  /\ agreed[s] /\ Terms[d] \subseteq offered[s]
  /\ Content[d] \subseteq offered[s] \cup asked[s]
  /\ Record(d) /\ Forget(s)

(* What needs no consent is done without, as it was asked for. *)
DoFree(s, d) ==
  /\ d \in Free /\ Content[d] \subseteq asked[s]
  /\ Record(d) /\ Forget(s)

(* A request ends without having done anything. *)
Lapse(s) == Forget(s) /\ UNCHANGED <<done, count>>

Next ==
  \/ \E s \in Slots : Ask(s) \/ Offer(s) \/ Agree(s) \/ Lapse(s)
  \/ \E s \in Slots, d \in Deeds : Do(s, d) \/ DoFree(s, d)

Spec == Init /\ [][Next]_vars
==============================================================================
