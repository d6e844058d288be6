------------------------------ MODULE MCBlockTree ------------------------------
(***************************************************************************)
(* A chain of four blocks on the genesis block with two forks of two       *)
(* blocks each: g - a1 - a2 - a3 - a4, a1 - b2 - b3 and g - c1 - c2.       *)
(***************************************************************************)
EXTENDS BlockTree, Sequences

(* Every block with its ancestors.                                         *)
MCPath ==
    [g  |-> <<"g">>,
     a1 |-> <<"a1", "g">>,
     a2 |-> <<"a2", "a1", "g">>,
     a3 |-> <<"a3", "a2", "a1", "g">>,
     a4 |-> <<"a4", "a3", "a2", "a1", "g">>,
     b2 |-> <<"b2", "a1", "g">>,
     b3 |-> <<"b3", "b2", "a1", "g">>,
     c1 |-> <<"c1", "g">>,
     c2 |-> <<"c2", "c1", "g">>]

MCEarlyFork == DOMAIN MCPath \ {"b2", "b3"}

MCShortFork == DOMAIN MCPath \ {"a4", "b3", "c1", "c2"}

MCLateFork == DOMAIN MCPath \ {"a4", "c1", "c2"}

MCNumber == [b \in Blocks |-> Len(MCPath[b]) - 1]

MCParent == [b \in Blocks \ {"g"} |-> MCPath[b][2]]

MCAnc(b, k) == MCPath[b][k + 1]

=============================================================================
