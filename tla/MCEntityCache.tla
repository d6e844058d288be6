---------------------------- MODULE MCEntityCache ----------------------------
(***************************************************************************)
(* Instances of EntityCache for TLC.  The values of fields are only        *)
(* compared with each other, so they can be permuted.                      *)
(***************************************************************************)
EXTENDS EntityCache, TLC

ValueSymmetry == Permutations(Values)

====
