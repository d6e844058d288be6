----------------------------- MODULE EntityTables -----------------------------
(***************************************************************************)
(* The entity tables of a deployment.  Every version of an entity carries  *)
(* the range of blocks for which it is current, so a table answers what    *)
(* the entity was as of any block: it is modelled as that function.        *)
(***************************************************************************)
EXTENDS Integers, Sequences

CONSTANTS
    Keys,      \* entity keys
    Values,    \* contents of an entity
    None,      \* the entity does not exist
    MaxBlock,  \* bound on block numbers; stands for BLOCK_NUMBER_MAX as well
    Batches    \* the modifications a block may make: a function from some
               \* keys to their new version (Remove is None)

Versions == Values \cup {None}
Blocks == 0..MaxBlock
Tables == [Keys -> [Blocks -> Versions]]

(* A deployment in the database: its tables, and the block it has reached. *)
Deployments == [table : Tables, ptr : Blocks]

ASSUME TablesAssumption ==
    /\ MaxBlock \in Nat
    /\ \A m \in Batches : /\ DOMAIN m \subseteq Keys
                         /\ \A k \in DOMAIN m : m[k] \in Versions

NewDeployment == [table |-> [k \in Keys |-> [b \in Blocks |-> None]], ptr |-> 0]

(* Insert, Overwrite and Remove of block n close the current version of an *)
(* entity and start the new one at n.                                      *)
WriteAt(d, n, m) ==
    [table |-> [k \in Keys |-> [b \in Blocks |->
                   IF k \in DOMAIN m /\ b >= n THEN m[k] ELSE d.table[k][b]]],
     ptr |-> n]

(* Reverting to block n deletes the versions that start after n and makes  *)
(* those that were current at n current again.                             *)
RevertAt(d, n) ==
    [table |-> [k \in Keys |-> [b \in Blocks |->
                   IF b > n THEN d.table[k][n] ELSE d.table[k][b]]],
     ptr |-> n]

=============================================================================
