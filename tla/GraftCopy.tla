----------------------------- MODULE GraftCopy -----------------------------
(***************************************************************************)
(* Copying the data of a deployment into a new one (a graft, or a copy in  *)
(* another shard), while the source goes on indexing and is pruned.        *)
(*                                                                         *)
(* The copy goes through the versions of a table in batches of vids, each  *)
(* batch in a transaction of its own that also records the progress, so    *)
(* that a node that starts the deployment after a crash can continue.      *)
(* Pruning copies the versions that are still needed into a shadow table,  *)
(* the final ones while the writer runs and the others while it is locked  *)
(* out, and then replaces the table by the shadow table.                   *)
(*                                                                         *)
(* A version is [vid, id, lower, upper]; it is visible from block lower to *)
(* the block before upper.                                                 *)
(***************************************************************************)
EXTENDS Integers, Sequences, FiniteSets, SequencesExt

CONSTANTS
    EntityIds,
    Nodes,          \* nodes that start the deployment, one after the other
    TargetBlock,    \* the graft block
    ReorgThreshold, \* how far the chain may go back
    BatchSizes,     \* what AdaptiveBatchSize can make of a batch, see adapt
    InitialSize,    \* INITIAL_BATCH_SIZE
    PruneTo,        \* the earliest blocks graphman prune is asked for
    FirstHead,      \* blocks the source has indexed before the copy starts
    MaxHead,        \* bound: blocks
    SourceBlocks,   \* the blocks that create a data source
    MaxMoves,      \* bound: blocks, reorgs, prunes, crashes and cancellations after the start
    Unset

ASSUME GraftAssumption ==
    /\ {TargetBlock, ReorgThreshold, FirstHead, MaxHead, MaxMoves} \subseteq Nat
    /\ TargetBlock + ReorgThreshold <= FirstHead
    /\ BatchSizes \subseteq Nat \ {0}
    /\ InitialSize \in BatchSizes

VARIABLES
    src,        \* the versions in the source table
    srcHead,    \* [block, highest]: the source's block, and the highest it has been at
    srcSources, \* the source's dynamic data sources: the blocks that created them
    earliest,   \* earliest_block_number of the source
    pruner,     \* where graphman prune is
    shadow,     \* versions in the shadow table of prune
    dst,        \* the versions in the destination table, in the order of insertion
    dstPtr,     \* the destination's block, Unset before it is initialized
    dstEarliest, \* earliest_block_number of the destination
    dstSources,
    copyState,  \* copy_state and copy_table_state of the destination
    copier,     \* node -> where it is in start_subgraph
    cancelled,  \* active_copies.cancelled_at is set
    moves,     \* how many blocks, reorgs, prunes, crashes and cancellations there were
    truth       \* history: block -> the versions that are visible at it

sourceVars == <<src, srcHead, srcSources, truth>>
pruneVars == <<earliest, pruner, shadow>>
copyVars == <<dst, dstPtr, dstEarliest, dstSources, copyState, copier, cancelled>>
graftVars == <<sourceVars, pruneVars, copyVars, moves>>

Inf == 100
VisibleAt(rows, b) == {r \in rows : r.lower <= b /\ b < r.upper}
Version(r) == <<r.id, r.lower>>
Versions(rows) == {Version(r) : r \in rows}
NextVid(rows) == 1 + FoldSet(LAMBDA r, m : IF r.vid > m THEN r.vid ELSE m, 0, rows)
-----------------------------------------------------------------------------
\* The writer of the source. A block writes or removes one entity.

CopyEvent ==
    /\ moves < MaxMoves
    /\ moves' = moves + 1

Clamped(rows, id, block) ==
    {IF r.id = id /\ r.upper = Inf THEN [r EXCEPT !.upper = block] ELSE r : r \in rows}

\* Layout::insert, update and delete
Written(rows, change, block) ==
    IF change.op = "remove" THEN Clamped(rows, change.id, block)
    ELSE Clamped(rows, change.id, block) \cup
           {[vid |-> NextVid(rows), id |-> change.id, lower |-> block, upper |-> Inf]}

\* Layout::revert_block
Reverted(rows, block) ==
    {IF r.upper >= block THEN [r EXCEPT !.upper = Inf] ELSE r : r \in {x \in rows : x.lower < block}}

Changes == [op : {"write", "remove"}, id : EntityIds]

transact_block(change) ==
    LET block == srcHead.block + 1
    IN /\ CopyEvent
       /\ pruner.pc \notin {"nonfinal", "switch"}
       /\ block <= MaxHead
       /\ src' = Written(src, change, block)
       /\ srcHead' = [block |-> block,
                      highest |-> IF block > srcHead.highest THEN block ELSE srcHead.highest]
       /\ srcSources' = IF block \in SourceBlocks THEN Append(srcSources, block) ELSE srcSources
       /\ truth' = [b \in 1 .. block |->
                      IF b < block THEN truth[b] ELSE Versions(VisibleAt(src', block))]
       /\ UNCHANGED <<pruneVars, copyVars>>

revert_block ==
    LET block == srcHead.block
    IN /\ CopyEvent
       /\ pruner.pc \notin {"nonfinal", "switch"}
       /\ block > srcHead.highest - ReorgThreshold
       /\ src' = Reverted(src, block)
       /\ srcHead' = [srcHead EXCEPT !.block = block - 1]
       /\ srcSources' = SelectSeq(srcSources, LAMBDA b : b < block)
       /\ truth' = [b \in 1 .. block - 1 |-> truth[b]]
       /\ UNCHANGED <<pruneVars, copyVars>>
-----------------------------------------------------------------------------
NotPruning == [pc |-> "idle"]

\* DeploymentStore::prune up to the start of copy_final_entities: refuse what
\* can not be pruned, and move the earliest block before anything is removed.
prune(to) ==
    LET final_block == srcHead.block - ReorgThreshold
        vids == {r.vid : r \in {x \in src : x.upper > to /\ x.upper <= final_block}}
    IN /\ CopyEvent
       /\ pruner.pc = "idle"
       /\ final_block > to /\ to >= earliest
       /\ earliest' = to
       /\ shadow' = {}
       /\ pruner' = [pc |-> "final", final_block |-> final_block,
                     next_vid |-> IF vids = {} THEN 1 ELSE Min(vids),
                     max_vid |-> IF vids = {} THEN 0 ELSE Max(vids)]
       /\ UNCHANGED <<sourceVars, copyVars>>

\* One batch of the final versions
copy_final_entities(size) ==
    /\ pruner.pc = "final" /\ pruner.next_vid <= pruner.max_vid
    /\ shadow' = shadow \cup {r \in src :
                    /\ r.lower <= pruner.final_block
                    /\ r.upper > earliest /\ r.upper <= pruner.final_block
                    /\ r.vid \in pruner.next_vid .. pruner.next_vid + size - 1}
    /\ pruner' = [pruner EXCEPT !.next_vid = @ + size]
    /\ UNCHANGED <<earliest, sourceVars, copyVars, moves>>

\* with_lock
lock_writer ==
    /\ pruner.pc = "final" /\ pruner.next_vid > pruner.max_vid
    /\ pruner' = [pruner EXCEPT !.pc = "nonfinal"]
    /\ UNCHANGED <<earliest, shadow, sourceVars, copyVars, moves>>

Nonfinal_Current(r) == r.upper = Inf

\* The versions that are visible after the final block
Nonfinal(r) == r.upper > pruner.final_block

copy_nonfinal_entities ==
    /\ pruner.pc = "nonfinal"
    /\ shadow' = shadow \cup {r \in src : Nonfinal(r)}
    /\ pruner' = [pruner EXCEPT !.pc = "switch"]
    /\ UNCHANGED <<earliest, sourceVars, copyVars, moves>>

\* Replace the table by the shadow table, and release the lock.
switch ==
    /\ pruner.pc = "switch"
    /\ src' = shadow
    /\ shadow' = {}
    /\ pruner' = NotPruning
    /\ UNCHANGED <<srcHead, srcSources, truth, earliest, copyVars, moves>>

\* A prune that dies leaves the shadow table behind; the next one recreates it.
prune_crash ==
    /\ CopyEvent
    /\ pruner.pc # "idle"
    /\ pruner' = NotPruning
    /\ UNCHANGED <<earliest, shadow, sourceVars, copyVars>>
-----------------------------------------------------------------------------
Started == [pc |-> "idle", dead |-> FALSE]
HoldsLock(n) == copier[n].pc \in {"batch", "sources", "finish"}

CopyGoto(n, pc) == copier' = [copier EXCEPT ![n].pc = pc]

\* start_subgraph with a graft that is pending: what it knows of the source is
\* read here, before it waits for the copy lock.
start_subgraph(n) ==
    /\ copier[n].pc = "idle" /\ dstPtr = Unset /\ ~cancelled
    /\ copier' = [copier EXCEPT ![n] = [pc |-> "lock", dead |-> FALSE, earliest |-> earliest,
                                        table |-> Unset, todo |-> << >>]]
    /\ UNCHANGED <<sourceVars, pruneVars, dst, dstPtr, dstEarliest, dstSources, copyState, cancelled, moves>>

\* TableState::init
target_vid ==
    LET vids == {r.vid : r \in {x \in src : x.lower <= TargetBlock}}
    IN IF vids = {} THEN -1 ELSE Max(vids)

\* copy_data takes the advisory lock of the destination; CopyState::new then
\* loads the state of the copy, or creates it.
copy_data(n) ==
    LET table == IF copyState # Unset THEN copyState
                 ELSE [next_vid |-> 0, target_vid |-> target_vid, batch_size |-> InitialSize]
    IN /\ copier[n].pc = "lock" /\ ~copier[n].dead
       /\ \A m \in Nodes : ~HoldsLock(m)
       /\ copyState' = table
       /\ copier' = [copier EXCEPT ![n].pc = "batch", ![n].table = table]
       /\ UNCHANGED <<sourceVars, pruneVars, dst, dstPtr, dstEarliest, dstSources, cancelled, moves>>

CopyDone(table) == table.next_vid > table.target_vid

\* The next batch after one that took some time: at most twice as large.
adapt(size) == {s \in BatchSizes : s <= 2 * size}

copy_batch_Loses(n) ==
    LET table == copier[n].table
        last_vid == IF table.next_vid + table.batch_size - 1 < table.target_vid
                    THEN table.next_vid + table.batch_size - 1 ELSE table.target_vid
        rows == {r \in src : r.vid \in table.next_vid .. last_vid}
    IN /\ copier[n].pc = "batch" /\ ~CopyDone(table) /\ ~cancelled
       /\ dst' = dst \o SetToSortSeq(rows, LAMBDA r, s : r.vid < s.vid)
       /\ \E size \in adapt(table.batch_size) :
             copier' = [copier EXCEPT ![n].table = [table EXCEPT !.next_vid = last_vid + 1,
                                                                 !.batch_size = size]]
       /\ UNCHANGED <<sourceVars, pruneVars, copyState, dstPtr, dstEarliest, dstSources, cancelled, moves>>

\* One batch, with the progress it makes, in a transaction. The node that
\* died while Postgres was still running its batch can be late with it.
copy_batch(n) ==
    LET table == copier[n].table
        last_vid == IF table.next_vid + table.batch_size - 1 < table.target_vid
                    THEN table.next_vid + table.batch_size - 1 ELSE table.target_vid
        rows == {r \in src : r.vid \in table.next_vid .. last_vid}
    IN /\ copier[n].pc = "batch" /\ ~CopyDone(table) /\ ~cancelled
       /\ dst' = dst \o SetToSortSeq(rows, LAMBDA r, s : r.vid < s.vid)
       /\ \E size \in adapt(table.batch_size) :
            /\ copyState' = [table EXCEPT !.next_vid = last_vid + 1, !.batch_size = size]
            /\ copier' = IF copier[n].dead THEN [copier EXCEPT ![n] = Started]
                         ELSE [copier EXCEPT ![n].table = copyState']
       /\ UNCHANGED <<sourceVars, pruneVars, dstPtr, dstEarliest, dstSources, cancelled, moves>>

\* is_cancelled: the copy stays where it is.
copy_cancelled(n) ==
    /\ copier[n].pc = "batch" /\ ~copier[n].dead /\ ~CopyDone(copier[n].table) /\ cancelled
    /\ copier' = [copier EXCEPT ![n] = Started]
    /\ UNCHANGED <<sourceVars, pruneVars, dst, dstPtr, dstEarliest, dstSources, copyState, cancelled, moves>>

\* DataSourcesTable::copy_to takes data sources in the destination for a sign
\* that they were copied already.
copy_private_data_sources(n) ==
    /\ copier[n].pc = "batch" /\ ~copier[n].dead /\ CopyDone(copier[n].table)
    /\ copier' = [copier EXCEPT ![n].pc = "sources",
                                ![n].todo = IF dstSources # << >> THEN << >>
                                            ELSE SelectSeq(srcSources, LAMBDA b : b <= TargetBlock)]
    /\ UNCHANGED <<sourceVars, pruneVars, dst, dstPtr, dstEarliest, dstSources, copyState, cancelled, moves>>

\* Each data source is inserted by a statement of its own, outside of any
\* transaction.
copy_to(n) ==
    /\ copier[n].pc = "sources" /\ copier[n].todo # << >>
    /\ dstSources' = Append(dstSources, Head(copier[n].todo))
    /\ copier' = IF copier[n].dead THEN [copier EXCEPT ![n] = Started]
                 ELSE [copier EXCEPT ![n].todo = Tail(@)]
    /\ UNCHANGED <<sourceVars, pruneVars, dst, dstPtr, dstEarliest, copyState, cancelled, moves>>

\* CopyState::finished, and the release of the lock
copy_finished(n) ==
    /\ copier[n].pc = "sources" /\ ~copier[n].dead /\ copier[n].todo = << >>
    /\ CopyGoto(n, "init")
    /\ UNCHANGED <<sourceVars, pruneVars, dst, dstPtr, dstEarliest, dstSources, copyState, cancelled, moves>>

\* Only forward
forward_block_ptr(block) == dstPtr = Unset \/ (dstPtr # Unset => dstPtr < block)

\* The last transaction of start_subgraph: revert everything after the graft
\* block, take over the earliest block that was read at the start, and set the
\* block pointer. It fails when another node got there first.
initialize(n) ==
    /\ copier[n].pc = "init" /\ ~copier[n].dead
    /\ IF forward_block_ptr(TargetBlock)
       THEN /\ dst' = LET rows == SelectSeq(dst, LAMBDA r : r.lower <= TargetBlock)
                      IN [i \in DOMAIN rows |-> IF rows[i].upper > TargetBlock
                                                THEN [rows[i] EXCEPT !.upper = Inf] ELSE rows[i]]
            /\ dstEarliest' = copier[n].earliest
            /\ dstPtr' = TargetBlock
       ELSE UNCHANGED <<dst, dstPtr, dstEarliest>>
    /\ copier' = [copier EXCEPT ![n] = Started]
    /\ UNCHANGED <<sourceVars, pruneVars, dstSources, copyState, cancelled, moves>>

\* The destination indexes the next block, which writes an entity.
dst_transact_block(id) ==
    LET block == dstPtr + 1
    IN /\ dstPtr # Unset /\ block = TargetBlock + 1
       /\ dst' = Append([i \in DOMAIN dst |-> IF dst[i].id = id /\ dst[i].upper = Inf
                                              THEN [dst[i] EXCEPT !.upper = block] ELSE dst[i]],
                        [vid |-> 0, id |-> id, lower |-> block, upper |-> Inf])
       /\ dstPtr' = block
       /\ UNCHANGED <<sourceVars, pruneVars, dstEarliest, dstSources, copyState, copier, cancelled, moves>>

\* A node dies. A statement that Postgres is running for it goes on, and holds
\* the lock, until it is done or Postgres notices.
node_crash(n) ==
    /\ CopyEvent
    /\ copier[n].pc # "idle" /\ ~copier[n].dead
    /\ copier' = IF \/ copier[n].pc = "batch" /\ ~CopyDone(copier[n].table)
                    \/ copier[n].pc = "sources" /\ copier[n].todo # << >>
                 THEN [copier EXCEPT ![n].dead = TRUE] ELSE [copier EXCEPT ![n] = Started]
    /\ UNCHANGED <<sourceVars, pruneVars, dst, dstPtr, dstEarliest, dstSources, copyState, cancelled>>

session_closed(n) ==
    /\ copier[n].dead
    /\ copier' = [copier EXCEPT ![n] = Started]
    /\ UNCHANGED <<sourceVars, pruneVars, dst, dstPtr, dstEarliest, dstSources, copyState, cancelled, moves>>

\* Unassigning the destination cancels the copy, assigning it again queues it.
set_cancelled ==
    /\ CopyEvent
    /\ dstPtr = Unset
    /\ cancelled' = ~cancelled
    /\ UNCHANGED <<sourceVars, pruneVars, dst, dstPtr, dstEarliest, dstSources, copyState, copier>>
-----------------------------------------------------------------------------
\* What a source can look like after it has indexed FirstHead blocks
Histories == {h \in [1 .. FirstHead -> Changes] : h[1].op = "write"}

IndexedUpTo(h, n) == FoldLeft(LAMBDA rows, b : Written(rows, h[b], b), {}, [b \in 1 .. n |-> b])

GraftInit ==
    /\ \E h \in Histories :
         /\ src = IndexedUpTo(h, FirstHead)
         /\ truth = [b \in 1 .. FirstHead |-> Versions(VisibleAt(src, b))]
         /\ srcSources = SetToSortSeq(SourceBlocks \cap (1 .. FirstHead), <)
    /\ srcHead = [block |-> FirstHead, highest |-> FirstHead]
    /\ earliest = 0
    /\ pruner = NotPruning
    /\ shadow = {}
    /\ dst = << >> /\ dstPtr = Unset /\ dstEarliest = 0 /\ dstSources = << >> /\ copyState = Unset
    /\ copier = [n \in Nodes |-> Started]
    /\ cancelled = FALSE
    /\ moves = 0

GraftNext ==
    \/ \E c \in Changes : transact_block(c)
    \/ revert_block
    \/ \E b \in PruneTo : prune(b)
    \/ \E s \in BatchSizes : copy_final_entities(s)
    \/ lock_writer \/ copy_nonfinal_entities \/ switch \/ prune_crash
    \/ \E n \in Nodes :
         \/ start_subgraph(n) \/ copy_data(n) \/ copy_batch(n) \/ copy_cancelled(n)
         \/ copy_private_data_sources(n) \/ copy_to(n) \/ copy_finished(n) \/ initialize(n)
         \/ node_crash(n) \/ session_closed(n)
    \/ \E id \in EntityIds : dst_transact_block(id)
    \/ set_cancelled
-----------------------------------------------------------------------------
\* Pruning never changes the answer to a query at a block that is not before
\* the earliest block, whatever the writer does while versions are copied.
PruneKeepsAnswers ==
    \A b \in DOMAIN truth : b >= earliest => Versions(VisibleAt(src, b)) = truth[b]

\* "All data up to and including `target_block` will be copied": once its
\* block pointer is set, the destination has for every block from the earliest
\* one of the source to the graft block the versions that the source had, each
\* of them once, whatever was reverted or pruned in the source, and however
\* often the copy was interrupted.
EntitiesCopied ==
    dstPtr # Unset =>
       LET rows == Range(dst)
       IN /\ \A b \in 1 .. TargetBlock : b >= earliest => Versions(VisibleAt(rows, b)) = truth[b]
          /\ \A i, j \in DOMAIN dst :
                i # j /\ dst[i].id = dst[j].id => dst[i].upper <= dst[j].lower \/ dst[j].upper <= dst[i].lower

=============================================================================
