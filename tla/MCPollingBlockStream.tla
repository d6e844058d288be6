------------------------- MODULE MCPollingBlockStream -------------------------
(* A block stream over the tree of MCBlockTree.                            *)
EXTENDS PollingBlockStream, MCBlockTree

MCTriggers == [b \in Blocks |-> IF b \in {"a1", "a3", "a4", "b2", "c1", "c2"} THEN 1 ELSE 0]

=============================================================================
