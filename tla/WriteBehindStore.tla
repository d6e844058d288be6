--------------------------- MODULE WriteBehindStore ---------------------------
(***************************************************************************)
(* What the WritableStore of graph-node promises the subgraph runner: the  *)
(* behaviour of Writer::Sync, where a write is applied before the call     *)
(* returns, except that a crash may lose the most recent writes.           *)
(*                                                                         *)
(* versions is a nonempty sequence of deployments.  Its head is what the   *)
(* database holds; its last element is what the runner has been told is    *)
(* stored.                                                                 *)
(***************************************************************************)
EXTENDS EntityTables

VARIABLES
    versions,  \* the deployment, from the durable to the visible state
    result,    \* answer of the last read
    failed     \* the store has reported an error and is of no use anymore

storeVars == <<versions, result, failed>>

Visible == versions[Len(versions)]

StoreInit ==
    /\ versions = <<NewDeployment>>
    /\ result = << >>
    /\ failed = FALSE

(* The runner moves forward or reverts, from the head that it has been     *)
(* told.                                                                   *)
Write(n, m) ==
    /\ n > Visible.ptr
    /\ versions' = Append(versions, WriteAt(Visible, n, m))
    /\ result' = << >>
    /\ UNCHANGED failed

RevertTo(n) ==
    /\ n < Visible.ptr
    /\ versions' = Append(versions, RevertAt(Visible, n))
    /\ result' = << >>
    /\ UNCHANGED failed

(* A request that changes nothing.                                         *)
Mark ==
    /\ versions' = Append(versions, Visible)
    /\ UNCHANGED <<result, failed>>

(* A read answers from the visible table; after a failure, with anything.  *)
Read(K) ==
    /\ result' \in [K -> Versions]
    /\ ~failed => result' = [k \in K |-> Visible.table[k][MaxBlock]]
    /\ UNCHANGED <<versions, failed>>

(* The answer of a read is used up.                                        *)
Forget ==
    /\ result' = << >>
    /\ UNCHANGED <<versions, failed>>

Persist ==
    /\ Len(versions) > 1
    /\ versions' = Tail(versions)
    /\ UNCHANGED <<result, failed>>

(* The oldest write that is not yet durable may or may not become so.      *)
Fail ==
    /\ ~failed
    /\ Len(versions) > 1
    /\ failed' = TRUE
    /\ versions' \in {versions, Tail(versions)}
    /\ UNCHANGED result

Recover ==
    /\ versions' = << versions[1] >>
    /\ result' = << >>
    /\ failed' = FALSE

StoreNext ==
    \/ \E n \in Blocks, m \in Batches : Write(n, m)
    \/ \E n \in Blocks : RevertTo(n)
    \/ Mark
    \/ \E K \in SUBSET Keys : Read(K)
    \/ Forget
    \/ Persist
    \/ Fail
    \/ Recover

StoreSpec == StoreInit /\ [][StoreNext]_storeVars

=============================================================================
