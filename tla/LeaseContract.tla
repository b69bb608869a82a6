----------------------------- MODULE LeaseContract -----------------------------
(***************************************************************************)
(* What the process pool promises its callers, without saying how: a       *)
(* process in service is held by at most one operation; nobody but its own *)
(* end or the end of the process takes a lease away; a doomed process is   *)
(* held by whoever holds it already and is never granted again.            *)
(***************************************************************************)
EXTENDS Integers

CONSTANTS Proc, Op, NoOp

VARIABLES
  present,  \* processes in service
  doomed,   \* those among them that will be stopped
  holder,   \* the operation that holds each process, or NoOp
  used      \* operations that have had their lease

vars == <<present, doomed, holder, used>>

Init ==
  /\ present = {}
  /\ doomed = {}
  /\ holder = [p \in Proc |-> NoOp]
  /\ used = {}

\* One process may start in the same step in which others leave or are doomed.
Refill(S) == \E new \in SUBSET (Proc \ present) :
  /\ \A p, q \in new : p = q
  /\ present' = S \cup new

Grant(p, o) ==
  /\ o \notin used
  /\ holder[p] = NoOp
  /\ \/ p \in present \ doomed
     \/ p \notin present
  /\ present' = present \cup {p}
  /\ holder' = [holder EXCEPT ![p] = o]
  /\ used' = used \cup {o}
  /\ UNCHANGED doomed

Return(p) ==
  /\ holder[p] # NoOp
  /\ holder' = [holder EXCEPT ![p] = NoOp]
  /\ doomed' \in {doomed, doomed \cup {p}}
  /\ UNCHANGED <<present, used>>

Doom(S) ==
  /\ doomed' = doomed \cup S
  /\ Refill(present)
  /\ UNCHANGED <<holder, used>>

Leave(p) ==
  /\ p \in present
  /\ Refill(present \ {p})
  /\ doomed' = doomed \ {p}
  /\ holder' = [holder EXCEPT ![p] = NoOp]
  /\ UNCHANGED used

Next ==
  \/ \E p \in Proc : (\E o \in Op : Grant(p, o)) \/ Return(p) \/ Leave(p)
  \/ \E S \in SUBSET present : Doom(S)

Spec == Init /\ [][Next]_vars

================================================================================
