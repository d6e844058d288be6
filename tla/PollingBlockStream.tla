-------------------------- MODULE PollingBlockStream --------------------------
(***************************************************************************)
(* The polling block stream of one deployment (graph/src/blockchain/       *)
(* polling_block_stream.rs) between the chain store, the Ethereum node and *)
(* the subgraph runner that consumes it through a bounded buffer.  The     *)
(* node's chain grows and reorganises while the stream is between two      *)
(* requests; requests fail; the runner and the whole process restart.      *)
(***************************************************************************)
EXTENDS ChainStore, Sequences, SequencesExt

CONSTANTS
    ReorgThreshold,  \* blocks behind the head that may still be replaced
    Triggers,        \* number of triggers of the deployment in a block
    StartPtr,        \* the parent of the deployment's start block, or None
    StartBlocks,     \* start blocks of the data sources
    MaxRange,        \* max_block_range_size
    Target,          \* target_triggers_per_block_range
    BufferSize,      \* BUFFERED_BLOCK_STREAM_SIZE
    SkipDistance,    \* blocks behind the head that are not skipped (1000)
    OtherStarts,     \* start pointers of other deployments of the chain
    ProviderLag,     \* blocks the ingestor's provider may be behind the node
    MaxFaults        \* bound on failed requests and restarts

ASSUME StreamAssumption ==
    /\ ReorgThreshold \in Nat
    /\ Triggers \in [Blocks -> Nat]
    /\ StartPtr \in Blocks \cup {None}
    /\ StartBlocks \subseteq Nat
    /\ MaxRange \in Nat \ {0} /\ Target \in Nat
    /\ BufferSize \in Nat \ {0}
    /\ SkipDistance \in Nat
    /\ OtherStarts \subseteq Blocks
    /\ ProviderLag \in Nat /\ MaxFaults \in Nat

VARIABLES
    nodeHead,   \* the head of the Ethereum node's chain
    pc,         \* where the stream is between two awaits
    snapshot,   \* the chain head that get_next_step works with
    current,    \* ctx.current_block
    batch,      \* YieldingBlocks: blocks with their trigger counts
    tpb,        \* previous_triggers_per_block, as <<triggers, blocks>>
    prevRange,  \* previous_block_range_size
    maxRange,   \* max_block_range_size
    errors,     \* consecutive_err_count, counted up to 2
    buffer,     \* BufferedBlockStream: events not yet consumed
    ptr,        \* the deployment's block pointer
    indexed,    \* blocks whose triggers the deployment has processed
    synced,     \* runner: state.synced
    failed,     \* the deployment's failed flag
    faults      \* number of failed requests and restarts so far

streamVars == <<pc, snapshot, current, batch, tpb, prevRange, maxRange, errors>>
runnerVars == <<ptr, indexed, synced, failed>>
vars == <<chainVars, nodeHead, streamVars, buffer, runnerVars, faults>>

STARTING_PREVIOUS_TRIGGERS_PER_BLOCK == <<1000000, 1>>

num(b) == IF b = None THEN -1 ELSE Number[b]

min(a, b) == IF a < b THEN a ELSE b

max(a, b) == IF a > b THEN a ELSE b

-----------------------------------------------------------------------------
(* The Ethereum node.  A block with ReorgThreshold blocks on top of it is  *)
(* never replaced, and the node only leaves its head for a head that is    *)
(* not lower.                                                              *)

Final(b) == OnChain(b, nodeHead) /\ Number[b] + ReorgThreshold <= Number[nodeHead]

NodeAdvances(b) ==
    /\ b # nodeHead
    /\ Number[b] >= Number[nodeHead]
    /\ \A f \in Blocks : Final(f) => OnChain(f, b)
    /\ nodeHead' = b
    /\ UNCHANGED <<chainVars, streamVars, buffer, runnerVars, faults>>

Fault == faults < MaxFaults /\ faults' = faults + 1

-----------------------------------------------------------------------------
(* The ingestor.  Its provider may be a few blocks behind the node.        *)

others == <<nodeHead, streamVars, buffer, runnerVars>>

IngestorPolls(k) ==
    /\ k <= Number[nodeHead]
    /\ do_poll(Anc(nodeHead, k))
    /\ UNCHANGED <<others, faults>>

IngestorIngests == ingest_block /\ UNCHANGED <<others, faults>>

IngestorUpdates == update_head /\ UNCHANGED <<others, faults>>

(* A block that was uncled may be unavailable for good.                    *)
IngestorFails ==
    /\ poll_fails
    /\ Fault \/ (~OnChain(pending, nodeHead) /\ UNCHANGED faults)
    /\ UNCHANGED others

(* The cleanup only waits for deployments that have not failed.            *)
IngestorCleans ==
    end_poll(IF failed THEN None ELSE ptr) /\ UNCHANGED <<others, faults>>

(* The runner of another deployment starts, and loads that one's head.     *)
OtherDeploymentStarts ==
    /\ \E b \in OtherStarts : OnChain(b, nodeHead) /\ blocks[b] = "absent" /\ load_blocks({b})
    /\ UNCHANGED <<others, faults>>

-----------------------------------------------------------------------------
(* get_next_step, cut at its awaits.                                       *)

(* "Make sure not to include genesis in the reorg threshold."              *)
threshold(h) == min(ReorgThreshold, Number[h])

Far(h) == current = None \/ Number[h] - Number[current] > threshold(h)

ReadHead ==
    /\ pc = "begin"
    /\ IF head = None \/ num(current) >= num(head)
       THEN pc' = "idle" /\ errors' = 0 /\ UNCHANGED snapshot
       ELSE /\ snapshot' = head
            /\ pc' = IF current = None THEN "scan"
                     ELSE IF Far(head) THEN "main_chain" ELSE "ancestor"
            /\ UNCHANGED errors
    /\ UNCHANGED <<chainVars, nodeHead, current, batch, tpb, prevRange, maxRange,
                   buffer, runnerVars, faults>>

unread == <<chainVars, nodeHead, buffer, runnerVars>>

IsOnMainChain ==
    /\ pc = "main_chain"
    /\ pc' = IF OnChain(current, nodeHead) THEN "scan" ELSE "parent"
    /\ UNCHANGED <<unread, snapshot, current, batch, tpb, prevRange, maxRange, errors, faults>>

(* The blocks to scan: from the next block up to the next start block, the *)
(* reorg threshold or the range size, whichever comes first.               *)
from == num(current) + 1

to_limit ==
    LET next == {s - 1 : s \in {s \in StartBlocks : s > from}}
        limits == next \cup {Number[snapshot] - threshold(snapshot)}
    IN  CHOOSE n \in limits : \A m \in limits : n <= m

range_size ==
    LET upper == min(maxRange, prevRange * 10)
    IN  IF tpb[1] = 0 THEN upper
        ELSE min(max((Target * tpb[2]) \div tpb[1], 1), upper)

to == min(from + range_size - 1, to_limit)

(* The blocks reached by number on the node's chain.                       *)
blocks_with_triggers_Skip(lo, hi) ==
    {b \in Lineage(nodeHead) : Number[b] \in lo..hi /\ Triggers[b] > 0}

blocks_with_triggers(lo, hi) ==
    {b \in Lineage(nodeHead) :
        Number[b] \in lo..hi /\ (Triggers[b] > 0 \/ Number[b] = hi)}

Yield(found, size) ==
    LET sorted == SetToSortSeq(found, LAMBDA a, b : Number[a.block] < Number[b.block])
        total == FoldSeq(LAMBDA e, n : n + e.triggers, 0, sorted)
    IN  /\ batch' = sorted
        /\ snapshot' = None
        /\ pc' = "yield"
        /\ maxRange' = IF errors = 1 THEN max((maxRange * 9) \div 10, 10) ELSE maxRange
        /\ errors' = 0
        /\ tpb' = IF total = 0 THEN <<0, 1>> ELSE <<total, size>>
        /\ prevRange' = size

ScanTriggers ==
    /\ pc = "scan"
    /\ LET found == blocks_with_triggers(from, to)
       IN  /\ load_blocks(found)
           /\ Yield({[block |-> b, triggers |-> Triggers[b]] : b \in found}, range_size)
    /\ UNCHANGED <<nodeHead, current, buffer, runnerVars, faults>>

(* Within the reorg threshold the stream works on the chain store.         *)
offset == Number[snapshot] - Number[current] - 1

IsChild(x) == x # Genesis /\ Parent[x] = current

AncestorMissing ==
    /\ pc = "ancestor"
    /\ AncestorFound(snapshot, offset) = {}
    /\ ~AncestorFails(snapshot, offset)
    /\ pc' = "begin"
    /\ snapshot' = None
    /\ UNCHANGED <<unread, current, batch, tpb, prevRange, maxRange, errors, faults>>

ReadAncestor ==
    /\ pc = "ancestor"
    /\ \E x \in AncestorFound(snapshot, offset) :
           IF IsChild(x)
           THEN Yield({[block |-> x, triggers |->
                        IF x \in get_block(snapshot, offset) \/ blocks[x] = "full"
                        THEN Triggers[x] ELSE 0]}, 1)
           ELSE /\ pc' = "parent"
                /\ UNCHANGED <<snapshot, batch, tpb, prevRange, maxRange, errors>>
    /\ UNCHANGED <<unread, current, faults>>

Emits(e) == Len(buffer) < BufferSize /\ buffer' = Append(buffer, e)

(* parent_ptr loads the block itself, then the stream yields the revert.   *)
Reverts(p) == p

RevertToParent ==
    /\ pc = "parent"
    /\ current # Genesis
    /\ load_blocks({current})
    /\ current' = Reverts(Parent[current])
    /\ Emits([type |-> "Revert", block |-> Reverts(Parent[current]), triggers |-> 0])
    /\ pc' = "begin"
    /\ snapshot' = None
    /\ UNCHANGED <<nodeHead, batch, tpb, prevRange, maxRange, errors,
                   runnerVars, faults>>

YieldBlock ==
    /\ pc = "yield"
    /\ IF batch = << >> THEN pc' = "begin" /\ UNCHANGED <<current, batch, buffer>>
       ELSE /\ current' = Head(batch).block
            /\ batch' = Tail(batch)
            /\ Emits([type |-> "ProcessBlock", block |-> Head(batch).block,
                      triggers |-> Head(batch).triggers])
            /\ UNCHANGED pc
    /\ UNCHANGED <<chainVars, nodeHead, snapshot, tpb, prevRange, maxRange, errors,
                   runnerVars, faults>>

(* A request of a reconciliation step fails, or the query for an ancestor. *)
StepError ==
    /\ pc' = "delay"
    /\ snapshot' = None
    /\ tpb' = STARTING_PREVIOUS_TRIGGERS_PER_BLOCK
    /\ errors' = min(errors + 1, 2)
    /\ UNCHANGED <<unread, current, batch, prevRange, maxRange>>

StepFails ==
    /\ pc \in {"begin", "main_chain", "scan", "ancestor", "parent"}
    /\ Fault
    /\ StepError

AncestorGone ==
    /\ pc = "ancestor"
    /\ AncestorFails(snapshot, offset)
    /\ StepError
    /\ UNCHANGED faults

(* Idle ends with a chain head update or its timeout, the delay by itself. *)
WakeUp ==
    /\ pc \in {"idle", "delay"}
    /\ pc' = "begin"
    /\ UNCHANGED <<unread, snapshot, current, batch, tpb, prevRange, maxRange, errors, faults>>

-----------------------------------------------------------------------------
(* The runner.                                                             *)

close_to_chain_head(b, n) ==
    cached_head_ptr # None /\ Number[b] >= Number[cached_head_ptr] - n

event == Head(buffer)

quiet == <<chainVars, nodeHead, streamVars>>

MaySkip_Always(e) == ~synced /\ ~close_to_chain_head(e.block, SkipDistance)

MaySkip(e) ==
    e.triggers = 0 /\ ~synced /\ ~close_to_chain_head(e.block, SkipDistance)

(* Empty blocks far from the head do not move the block pointer, until a   *)
(* timer runs out.                                                         *)
SkipBlock ==
    /\ buffer # << >>
    /\ event.type = "ProcessBlock"
    /\ MaySkip(event)
    /\ buffer' = Tail(buffer)
    /\ UNCHANGED <<quiet, runnerVars, faults>>

ProcessBlock ==
    /\ buffer # << >>
    /\ event.type = "ProcessBlock"
    /\ ptr' = event.block
    /\ indexed' = IF event.triggers > 0 THEN indexed \cup {event.block} ELSE indexed
    /\ synced' = (synced \/ close_to_chain_head(event.block, 1))
    /\ failed' \in {failed, FALSE}
    /\ buffer' = Tail(buffer)
    /\ UNCHANGED <<quiet, faults>>

NothingToRevert(p) == num(ptr) <= Number[p]

handle_revert ==
    /\ buffer # << >>
    /\ event.type = "Revert"
    /\ IF NothingToRevert(event.block) THEN UNCHANGED <<ptr, indexed>>
       ELSE /\ ptr' = event.block
            /\ indexed' = {b \in indexed : Number[b] <= Number[event.block]}
    /\ buffer' = Tail(buffer)
    /\ UNCHANGED <<quiet, synced, failed, faults>>

(* The stream is created again from the deployment's block pointer.        *)
NewStream == ptr

FreshStream(at) ==
    /\ pc' = at
    /\ snapshot' = None
    /\ current' = NewStream
    /\ batch' = << >>
    /\ tpb' = STARTING_PREVIOUS_TRIGGERS_PER_BLOCK
    /\ prevRange' = 1
    /\ maxRange' = MaxRange
    /\ errors' = 0
    /\ buffer' = << >>

(* run_inner looks up the parent of the deployment head first, which loads *)
(* the head itself, in case it has to be reverted.                         *)
RunnerBegins ==
    /\ pc = "start"
    /\ IF ptr = None THEN UNCHANGED chainVars ELSE load_blocks({ptr})
    /\ pc' = "begin"
    /\ UNCHANGED <<nodeHead, snapshot, current, batch, tpb, prevRange, maxRange,
                   errors, buffer, runnerVars, faults>>

(* An event that cannot be processed (a possible reorg, an error, a failed *)
(* revert) restarts the stream; an error also fails the deployment for now.*)
RunnerRestarts ==
    /\ Fault
    /\ buffer # << >>
    /\ FreshStream("begin")
    /\ failed' \in {failed, TRUE}
    /\ UNCHANGED <<chainVars, nodeHead, ptr, indexed, synced>>

ProcessRestarts ==
    /\ Fault
    /\ restart
    /\ FreshStream("start")
    /\ synced' = FALSE
    /\ UNCHANGED <<nodeHead, ptr, indexed, failed>>

-----------------------------------------------------------------------------
Init ==
    /\ ChainInit
    /\ nodeHead = IF StartPtr = None THEN Genesis ELSE StartPtr
    /\ pc = "start"
    /\ snapshot = None
    /\ current = StartPtr
    /\ batch = << >>
    /\ tpb = STARTING_PREVIOUS_TRIGGERS_PER_BLOCK
    /\ prevRange = 1
    /\ maxRange = MaxRange
    /\ errors = 0
    /\ buffer = << >>
    /\ ptr = StartPtr
    /\ indexed = {}
    /\ synced = FALSE
    /\ failed = FALSE
    /\ faults = 0

Ingestor ==
    \/ \E k \in 0..ProviderLag : IngestorPolls(k)
    \/ IngestorIngests \/ IngestorUpdates \/ IngestorCleans

Stream ==
    \/ RunnerBegins \/ ReadHead \/ IsOnMainChain \/ ScanTriggers \/ AncestorMissing \/ AncestorGone
    \/ ReadAncestor \/ RevertToParent \/ YieldBlock \/ WakeUp

Runner == ProcessBlock \/ handle_revert

Next ==
    \/ \E b \in Blocks : NodeAdvances(b)
    \/ Ingestor \/ IngestorFails \/ OtherDeploymentStarts
    \/ Stream \/ StepFails
    \/ Runner \/ SkipBlock \/ RunnerRestarts \/ ProcessRestarts

Spec == Init /\ [][Next]_vars

(* Every task of the process keeps running, and a provider that is behind  *)
(* does not stay so for ever.                                              *)
FairSpec ==
    /\ Spec
    /\ WF_vars(Ingestor)
    /\ SF_vars(IngestorPolls(0))
    /\ WF_vars(Stream)
    /\ WF_vars(Runner \/ SkipBlock)

-----------------------------------------------------------------------------
TypeOK ==
    /\ ChainTypeOK
    /\ {nodeHead} \subseteq Blocks /\ {snapshot, current, ptr} \subseteq Blocks \cup {None}
    /\ pc \in {"start", "begin", "main_chain", "scan", "ancestor", "parent", "yield", "idle", "delay"}
    /\ indexed \subseteq Blocks
    /\ errors \in 0..2 /\ faults \in 0..MaxFaults
    /\ Len(buffer) <= BufferSize

(* The deployment has processed exactly the blocks with triggers on the    *)
(* chain from its start block to its block pointer: no block is left out   *)
(* by a scan, a skip or a restart, and none of an abandoned fork is left   *)
(* behind by a revert.                                                     *)
IndexedExactly ==
    indexed = {b \in Blocks : /\ ptr # None /\ Triggers[b] > 0
                              /\ Number[b] > num(StartPtr) /\ OnChain(b, ptr)}

(* When the chain has settled on a block higher than all others the        *)
(* deployment gets there, whatever forks and failures came before.         *)
ReachesHead ==
    (\A b \in Blocks \ {nodeHead} : Number[b] < Number[nodeHead]) ~> (ptr = nodeHead)

=============================================================================
