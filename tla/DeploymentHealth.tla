--------------------------- MODULE DeploymentHealth ---------------------------
(***************************************************************************)
(* How a deployment fails and recovers: the runner's handling of errors    *)
(* (core/src/subgraph/runner.rs), the error and health columns in the      *)
(* database (store/postgres/src/deployment.rs, deployment_store.rs) and    *)
(* the dynamic data sources, in memory (context/instance.rs) and stored    *)
(* (store/postgres/src/dynds/private.rs).                                  *)
(*                                                                         *)
(* Blocks are written through the write queue, but fail_subgraph and the   *)
(* two unfail operations go to the database at once, so they overtake what *)
(* is queued.  A crash loses the runner and the queue.                     *)
(***************************************************************************)
EXTENDS BlockTree, Sequences, FiniteSets

CONSTANTS
    Errors,       \* the blocks with a handler that fails deterministically
    Creates,      \* the blocks with a handler that creates a data source
    QueueSize,    \* capacity of the write queue
    MaxUnknown,   \* bound on non-deterministic errors
    MaxCrashes,   \* bound on process restarts
    MaxRewinds,   \* bound on rewinds by an operator
    RewindDepth,  \* bound on the number of blocks of one rewind
    MaxWriteFails \* bound on writes that fail for an unknown reason

ASSUME HealthAssumption ==
    /\ Errors \subseteq Blocks \ {Genesis}
    /\ Creates \subseteq Blocks \ {Genesis}
    /\ QueueSize \in Nat \ {0}
    /\ {MaxUnknown, MaxCrashes, MaxRewinds, RewindDepth, MaxWriteFails} \subseteq Nat

VARIABLES
    dbPtr,      \* subgraph_deployment: latest_ethereum_block_*
    errs,       \* the rows of subgraph_error
    health,     \* subgraph_deployment.health
    failed,     \* subgraph_deployment.failed
    fatalError, \* subgraph_deployment.fatal_error, or None
    synced,     \* subgraph_deployment.synced
    rows,       \* data_sources$: one row per block that created a source
    queue,      \* the write queue
    poisoned,   \* the write queue refuses requests
    phase,      \* what the runner is doing
    ptr,        \* WritableStore.block_ptr
    hosts,      \* SubgraphInstance.hosts, the dynamic ones
    blk,        \* the block the runner is handling, or None
    tryUnfail,  \* should_try_unfail_non_deterministic
    prevHealth, \* unfail_deterministic_error: the health to go back to
    nonFatal,   \* the nonFatalErrors feature
    chainHead,  \* the head of the chain the stream follows
    unknowns, crashes, rewinds, writeFails

dbVars == <<dbPtr, errs, health, failed, fatalError, synced, rows>>
runnerVars == <<phase, ptr, hosts, blk, tryUnfail, prevHealth>>
writerVars == <<queue, poisoned>>
countVars == <<unknowns, crashes, rewinds, writeFails>>
vars == <<dbVars, runnerVars, writerVars, nonFatal, chainHead, countVars>>

-----------------------------------------------------------------------------
(* The tables of a deployment.  A row of subgraph_error is identified by   *)
(* its contents: handler is TRUE for the errors stored with a block, FALSE *)
(* for the ones fail_subgraph stores.                                      *)

Error(b, handler, det) == [block |-> b, handler |-> handler, deterministic |-> det]

fatal == {e \in errs : e = fatalError}

has_deterministic_errors(es, n) ==
    \E e \in es : e.deterministic /\ Number[e.block] <= n

check_health(h, es, n) ==
    CASE h = "Healthy" /\ has_deterministic_errors(es, n) -> "Unhealthy"
      [] h = "Unhealthy" /\ ~has_deterministic_errors(es, n) -> "Healthy"
      [] OTHER -> h

update_deployment_status(h, e) ==
    /\ health' = h
    /\ failed' = (h = "Failed")
    /\ fatalError' = e

fail(b, det) ==
    /\ errs' = errs \cup {Error(b, FALSE, det)}
    /\ update_deployment_status("Failed", Error(b, FALSE, det))

dynds_revert(n) == {b \in rows : Number[b] # n}

revert_subgraph_errors(n) ==
    LET kept == {e \in errs : Number[e.block] < n}
    IN  /\ errs' = kept
        /\ failed' = (failed /\ health # "Failed")
        /\ health' = IF failed /\ health = "Failed" THEN "Healthy"
                     ELSE check_health(health, kept, n - 1)

rewind_with_conn(to) ==
    /\ dbPtr' = to
    /\ rows' = dynds_revert(Number[to] + 1)
    /\ revert_subgraph_errors(Number[to] + 1)
    /\ UNCHANGED <<fatalError, synced>>

transact_block_operations(r) ==
    /\ dbPtr' = r.block
    /\ rows' = rows \cup r.sources
    /\ IF r.error
       THEN /\ errs' = errs \cup {Error(r.block, TRUE, TRUE)}
            /\ health' = check_health(health, errs', Number[r.block])
       ELSE UNCHANGED <<errs, health>>
    /\ UNCHANGED <<failed, fatalError, synced>>

-----------------------------------------------------------------------------
(* The writer of the queue.                                                *)

WriteRequest(b, error, sources) ==
    [op |-> "write", block |-> b, error |-> error, sources |-> sources]

RevertRequest(to) == [op |-> "revert", block |-> to]

Enqueue(r) ==
    /\ Len(queue) < QueueSize
    /\ queue' = Append(queue, r)
    /\ UNCHANGED poisoned

Accepted(r) ==
    IF r.op = "write" THEN Number[r.block] > Number[dbPtr]
    ELSE Number[r.block] < Number[dbPtr]

WriterCommits ==
    /\ queue # << >> /\ ~poisoned
    /\ Accepted(Head(queue))
    /\ IF Head(queue).op = "write" THEN transact_block_operations(Head(queue))
       ELSE rewind_with_conn(Head(queue).block)
    /\ queue' = Tail(queue)
    /\ UNCHANGED <<runnerVars, poisoned, nonFatal, chainHead, countVars>>

WriterFails ==
    /\ queue # << >> /\ ~poisoned
    /\ \/ ~Accepted(Head(queue)) /\ UNCHANGED writeFails
       \/ writeFails < MaxWriteFails /\ writeFails' = writeFails + 1
    /\ poisoned' = TRUE
    /\ UNCHANGED <<dbVars, runnerVars, queue, nonFatal, chainHead, unknowns, crashes, rewinds>>

-----------------------------------------------------------------------------
(* Starting: build_subgraph_runner reads the pointer and the data sources, *)
(* then run_inner undoes the block of a deterministic failure.             *)

build_subgraph_runner ==
    /\ phase = "down"
    /\ ptr' = dbPtr
    /\ hosts' = rows
    /\ tryUnfail' = TRUE
    /\ phase' = IF dbPtr = Genesis THEN "running" ELSE "unfail"
    /\ UNCHANGED <<dbVars, blk, prevHealth, writerVars, nonFatal, chainHead, countVars>>

(* run_inner ends with an error when the provider does not know the parent. *)
parent_ptr_fails ==
    /\ phase = "unfail"
    /\ unknowns < MaxUnknown
    /\ unknowns' = unknowns + 1
    /\ phase' = "stopped"
    /\ UNCHANGED <<dbVars, ptr, hosts, blk, tryUnfail, prevHealth, writerVars, nonFatal,
                   chainHead, crashes, rewinds, writeFails>>

AtHead(e) == e.deterministic /\ e.block = ptr

(* The inner revert commits on a connection of its own.                    *)
unfail_deterministic_error ==
    /\ phase = "unfail"
    /\ IF \E e \in fatal : AtHead(e)
       THEN /\ prevHealth' = IF has_deterministic_errors(errs, Number[ptr] - 1)
                             THEN "Unhealthy" ELSE "Healthy"
            /\ rewind_with_conn(Parent[ptr])
            /\ phase' = "unfail_status"
       ELSE /\ phase' = "running"
            /\ UNCHANGED <<dbVars, prevHealth>>
    /\ UNCHANGED <<ptr, hosts, blk, tryUnfail, writerVars, nonFatal, chainHead, countVars>>

unfail_status ==
    /\ phase = "unfail_status"
    /\ update_deployment_status(prevHealth, None)
    /\ ptr' = dbPtr
    /\ prevHealth' = "Healthy"
    /\ phase' = "running"
    /\ UNCHANGED <<dbPtr, errs, synced, rows, hosts, blk, tryUnfail,
                   writerVars, nonFatal, chainHead, countVars>>

-----------------------------------------------------------------------------
(* Processing a block.                                                     *)

revert_data_sources_Later(n) == {b \in hosts : Number[b] <= n}

revert_data_sources(n) == {b \in hosts : Number[b] < n}

(* add_dynamic_data_source ignores a source that has a host, and the block *)
(* then does not persist it.                                               *)
Created(b) == {c \in {b} \cap Creates : c \notin hosts}

(* The assertion that hosts remain ordered by creation block.              *)
HostsInOrder(b) == b \in Creates => \A c \in hosts : Number[c] <= Number[b]

NextBlock(b) ==
    /\ phase = "running"
    /\ b # Genesis /\ Parent[b] = ptr
    /\ OnChain(b, chainHead)
    /\ blk' = b

(* A block whose handlers end without an unknown error.                    *)
process_block(b) ==
    /\ NextBlock(b)
    /\ ~poisoned
    /\ HostsInOrder(b)
    /\ Enqueue(WriteRequest(b, b \in Errors, Created(b)))
    /\ ptr' = b
    /\ \/ /\ b \in Errors /\ ~nonFatal
          /\ hosts' = revert_data_sources(Number[b])
          /\ phase' = "fail"
       \/ /\ b \in Errors /\ nonFatal /\ ~synced
          /\ hosts' = hosts \cup Created(b)
          /\ phase' = "unassigned"
       \/ /\ b \in Errors => nonFatal /\ synced
          /\ hosts' = hosts \cup Created(b)
          /\ phase' = "processed"
    /\ UNCHANGED <<dbVars, tryUnfail, prevHealth, nonFatal, chainHead, countVars>>

(* A block that ends with an unknown error: a failing handler, or a write  *)
(* that the poisoned queue refuses.                                        *)
process_block_unknown(b) ==
    /\ NextBlock(b)
    /\ \/ poisoned /\ UNCHANGED unknowns
       \/ ~poisoned /\ unknowns < MaxUnknown /\ unknowns' = unknowns + 1
    /\ hosts' = revert_data_sources(Number[b])
    /\ phase' = "check_health"
    /\ UNCHANGED <<dbVars, ptr, tryUnfail, prevHealth, writerVars, nonFatal,
                   chainHead, crashes, rewinds, writeFails>>

process_block_panics(b) ==
    /\ NextBlock(b)
    /\ ~HostsInOrder(b)
    /\ phase' = "stopped"
    /\ UNCHANGED <<dbVars, ptr, hosts, tryUnfail, prevHealth, writerVars,
                   nonFatal, chainHead, countVars>>

(* The block was processed: the sync status, then the unfail.              *)
deployment_synced ==
    /\ phase = "processed"
    /\ synced' = (synced \/ Number[chainHead] - Number[blk] <= 1)
    /\ phase' = IF tryUnfail THEN "unfail_unknown" ELSE "running"
    /\ UNCHANGED <<dbPtr, errs, health, failed, fatalError, rows, ptr, hosts, blk,
                   tryUnfail, prevHealth, writerVars, nonFatal, chainHead, countVars>>

unfail_non_deterministic_error ==
    {e \in fatal : ~e.deterministic /\ Number[blk] >= Number[e.block]}

UnfailUnknown ==
    /\ phase = "unfail_unknown"
    /\ IF unfail_non_deterministic_error # {}
       THEN /\ update_deployment_status("Healthy", None)
            /\ errs' = errs \ unfail_non_deterministic_error
            /\ tryUnfail' = FALSE
       ELSE UNCHANGED <<errs, health, failed, fatalError, tryUnfail>>
    /\ phase' = "running"
    /\ UNCHANGED <<dbPtr, synced, rows, ptr, hosts, blk, prevHealth, writerVars,
                   nonFatal, chainHead, countVars>>

FailDeterministic_Continues ==
    /\ phase = "fail"
    /\ fail(blk, TRUE)
    /\ phase' = "running"
    /\ UNCHANGED <<dbPtr, synced, rows, ptr, hosts, blk, tryUnfail, prevHealth,
                   writerVars, nonFatal, chainHead, countVars>>

(* The block failed deterministically: the runner ends with an error.      *)
FailDeterministic ==
    /\ phase = "fail"
    /\ fail(blk, TRUE)
    /\ phase' = "stopped"
    /\ UNCHANGED <<dbPtr, synced, rows, ptr, hosts, blk, tryUnfail, prevHealth,
                   writerVars, nonFatal, chainHead, countVars>>

(* The block failed with an unknown error: the runner marks the deployment *)
(* failed unless it is already, sleeps and restarts its stream.            *)
CheckHealth ==
    /\ phase = "check_health"
    /\ phase' = IF health = "Failed" THEN "sleeping" ELSE "fail_unknown"
    /\ UNCHANGED <<dbVars, ptr, hosts, blk, tryUnfail, prevHealth, writerVars,
                   nonFatal, chainHead, countVars>>

FailUnknown ==
    /\ phase = "fail_unknown"
    /\ fail(blk, FALSE)
    /\ phase' = "sleeping"
    /\ UNCHANGED <<dbPtr, synced, rows, ptr, hosts, blk, tryUnfail, prevHealth,
                   writerVars, nonFatal, chainHead, countVars>>

WakeUp_NotTried ==
    /\ phase = "sleeping"
    /\ phase' = "running"
    /\ UNCHANGED <<dbVars, ptr, hosts, blk, tryUnfail, prevHealth, writerVars,
                   nonFatal, chainHead, countVars>>

WakeUp ==
    /\ phase = "sleeping"
    /\ tryUnfail' = TRUE
    /\ phase' = "running"
    /\ UNCHANGED <<dbVars, ptr, hosts, blk, prevHealth, writerVars, nonFatal,
                   chainHead, countVars>>

(* A reorg.  The pointer moves before the request is queued; the poisoned  *)
(* queue refuses it and the stream is restarted.                           *)
handle_revert ==
    /\ phase = "running"
    /\ ~OnChain(ptr, chainHead)
    /\ ptr' = Parent[ptr]
    /\ \/ ~poisoned /\ Enqueue(RevertRequest(Parent[ptr]))
                    /\ hosts' = revert_data_sources(Number[ptr])
       \/ poisoned /\ UNCHANGED <<queue, poisoned, hosts>>
    /\ UNCHANGED <<dbVars, phase, blk, tryUnfail, prevHealth, nonFatal, chainHead, countVars>>

-----------------------------------------------------------------------------
(* The process and its surroundings.                                       *)

Crash ==
    /\ crashes < MaxCrashes
    /\ phase # "down"
    /\ crashes' = crashes + 1
    /\ phase' = IF phase = "unassigned" THEN "unassigned" ELSE "down"
    /\ queue' = << >>
    /\ poisoned' = FALSE
    /\ ptr' = dbPtr
    /\ hosts' = {}
    /\ blk' = None
    /\ prevHealth' = "Healthy"
    /\ UNCHANGED <<dbVars, tryUnfail, nonFatal, chainHead, unknowns, rewinds, writeFails>>

(* An operator assigns the deployment again once its runner has stopped,   *)
(* which it does after flushing the queue.                                 *)
Reassign ==
    /\ phase = "unassigned"
    /\ queue = << >>
    /\ phase' = "down"
    /\ blk' = None
    /\ UNCHANGED <<dbVars, ptr, hosts, tryUnfail, prevHealth, writerVars, nonFatal,
                   chainHead, countVars>>

(* graphman rewind: to an ancestor, while the deployment is paused.        *)
Rewind(to) ==
    /\ phase = "down"
    /\ rewinds < MaxRewinds
    /\ OnChain(to, dbPtr) /\ Number[to] < Number[dbPtr]
    /\ Number[dbPtr] - Number[to] <= RewindDepth
    /\ rewind_with_conn(to)
    /\ rewinds' = rewinds + 1
    /\ UNCHANGED <<runnerVars, writerVars, nonFatal, chainHead, unknowns, crashes, writeFails>>

ChainAdvances(b) ==
    /\ Number[b] > Number[chainHead]
    /\ chainHead' = b
    /\ UNCHANGED <<dbVars, runnerVars, writerVars, nonFatal, countVars>>

Init ==
    /\ dbPtr = Genesis
    /\ errs = {}
    /\ health = "Healthy"
    /\ failed = FALSE
    /\ fatalError = None
    /\ synced = FALSE
    /\ rows = {}
    /\ queue = << >>
    /\ poisoned = FALSE
    /\ phase = "down"
    /\ ptr = Genesis
    /\ hosts = {}
    /\ blk = None
    /\ tryUnfail = TRUE
    /\ prevHealth = "Healthy"
    /\ nonFatal \in BOOLEAN
    /\ chainHead = Genesis
    /\ unknowns = 0 /\ crashes = 0 /\ rewinds = 0 /\ writeFails = 0

Runner ==
    \/ build_subgraph_runner
    \/ parent_ptr_fails
    \/ unfail_deterministic_error
    \/ unfail_status
    \/ \E b \in Blocks : process_block(b) \/ process_block_unknown(b)
                         \/ process_block_panics(b)
    \/ deployment_synced
    \/ UnfailUnknown
    \/ FailDeterministic
    \/ CheckHealth
    \/ FailUnknown
    \/ WakeUp
    \/ handle_revert

Writer == WriterCommits \/ WriterFails

Next ==
    \/ Runner
    \/ Writer
    \/ Crash
    \/ Reassign
    \/ \E to \in Blocks : Rewind(to)
    \/ \E b \in Blocks : ChainAdvances(b)

Spec == Init /\ [][Next]_vars

(* The runner's thread and the writer's task keep running.                 *)
FairSpec == Spec /\ WF_vars(Runner) /\ WF_vars(Writer)

-----------------------------------------------------------------------------
Phases == {"down", "unfail", "unfail_status", "running", "processed", "unfail_unknown",
           "fail", "check_health", "fail_unknown", "sleeping", "stopped", "unassigned"}

(* While the runner waits for a block it has a host for exactly the data   *)
(* sources that the blocks up to its pointer create, queued writes and     *)
(* reverts included.                                                       *)
HostsMatchPtr ==
    phase = "running" /\ ~poisoned /\ rewinds = 0 =>
        hosts = Creates \cap Lineage(ptr)

(* Without nonFatalErrors the deployment head never passes a block that    *)
(* failed deterministically, unless the process crashed in between.        *)
StopsUnlessCrashed ==
    crashes = 0 /\ ~nonFatal =>
        \A b \in Errors : OnChain(b, dbPtr) => b = dbPtr

FailedUnknown == failed /\ \E e \in fatal : ~e.deterministic

(* A non-deterministic failure heals: the runner retries until a block     *)
(* goes through, unless the queue is poisoned, the deployment unassigned   *)
(* or stopped, or a crash lost the chance to unfail and the chain has no   *)
(* further block.                                                          *)
UnknownFailureHeals ==
    FailedUnknown ~> \/ ~FailedUnknown
                     \/ poisoned
                     \/ phase \in {"unassigned", "stopped"}
                     \/ crashes > 0 /\ phase = "running" /\ ptr = chainHead

=============================================================================
