---------------------------- MODULE MCWriteQueue ----------------------------
(***************************************************************************)
(* Two entities: a block changes one of them, or deletes it and            *)
(* changes the other.                                                      *)
(***************************************************************************)
EXTENDS WriteQueue, TLC

CONSTANTS k1, k2, v1, v2

MCKeys == {k1, k2}
MCValues == {v1, v2}
MCBatches == {k1 :> v1, k1 :> None @@ k2 :> v1}

=============================================================================
