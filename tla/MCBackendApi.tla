------------------------------ MODULE MCBackendApi ------------------------------
(* Instances of BackendApi for TLC. *)
EXTENDS BackendApi, TLC

\* One request of each kind for an attempt, and an append for each chunk.
Calls == {<<a, m, Nothing>> : a \in Attempt, m \in {"create", "complete", "abort"}}
           \cup {<<a, "append", k>> : a \in Attempt, k \in Chunk}
OwnerOf == [c \in Calls |-> c[1]]
KindOf == [c \in Calls |-> c[2]]
PartOf == [c \in Calls |-> c[3]]
Symmetric == Permutations(Upload) \cup Permutations(Attempt)
=================================================================================
