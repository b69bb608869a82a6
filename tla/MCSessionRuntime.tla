---------------------------- MODULE MCSessionRuntime ----------------------------
(* Instances of SessionRuntime for TLC. *)
EXTENDS SessionRuntime, TLC

\* Requests and processes are interchangeable: neither is ordered or chosen.
Symmetric == Permutations(Req) \cup Permutations(Proc)

================================================================================
