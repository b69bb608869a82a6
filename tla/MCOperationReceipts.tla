--------------------------- MODULE MCOperationReceipts ---------------------------
(* Instances of OperationReceipts for TLC. *)
EXTENDS OperationReceipts

CONSTANTS c1, c2, o1, o2, o3, o4

\* Operations of the second browser push receipts of the first one out.
OwnerOfFour == [op \in {o1, o2, o3, o4} |-> IF op \in {o1, o3} THEN c1 ELSE c2]

\* The second browser queues two prompts during a compaction.
OwnerOfDeferred == [op \in {o1, o2, o3} |-> IF op = o1 THEN c1 ELSE c2]
OwnerOfOne      == [op \in {o1, o2} |-> c1]

===============================================================================
