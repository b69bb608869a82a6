------------------------------ MODULE MCRendezvous ------------------------------
(* Instances of Rendezvous for TLC. *)
EXTENDS Rendezvous, TLC

CONSTANT b1

\* One backend creates every capability.
OneHost == [p \in Pair |-> b1]
Symmetric == Permutations(Device) \cup Permutations(Account) \cup Permutations(Pair) \cup Permutations(Ticket)
=================================================================================
