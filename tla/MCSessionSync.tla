---------------------------- MODULE MCSessionSync ----------------------------
(* Model values for SessionSync; its clients are interchangeable. *)
EXTENDS SessionSync, TLC

CONSTANTS c1, c2

OneClient  == {c1}
TwoClients == {c1, c2}
Symmetry   == Permutations(Client)

===============================================================================
