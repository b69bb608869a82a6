----------------------------- MODULE MCProcessPool -----------------------------
(* Instances of ProcessPool for TLC. *)
EXTENDS ProcessPool, TLC

\* Processes and operations are interchangeable: neither is ordered or chosen.
Symmetric == Permutations(Proc) \cup Permutations(Op)

================================================================================
