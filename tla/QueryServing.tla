---------------------------- MODULE QueryServing ----------------------------
(***************************************************************************)
(* How graph-node answers GraphQL queries about a deployment while the     *)
(* deployment is indexed, reverted and rewound: GraphQlRunner::execute     *)
(* with the deployment state it reads at the start, StoreResolver::        *)
(* locate_block, the two result caches and the in-flight ("herd") cache of *)
(* execute_root_selection_set, the reads that the execution makes one by   *)
(* one, and the final deployment_changed test.                             *)
(*                                                                         *)
(* A block is identified by its hash, and the hash fixes all ancestors; so *)
(* a hash is modelled as the sequence of branches taken from the first     *)
(* block, and the number of a block is the length of that sequence.        *)
(* What the entity tables hold is modelled as the set of blocks whose      *)
(* changes they hold; reading them at block number n shows the changes of  *)
(* those with number at most n.                                            *)
(***************************************************************************)
EXTENDS Integers, Sequences, FiniteSets, SequencesExt

CONSTANTS
    Clients,      \* clients that send queries
    Blocks,       \* the blocks of the chain, on all branches
    FirstBlock,   \* the block the deployment has indexed at the start
    Failing,      \* blocks for which a handler fails, without stopping the deployment
    RewindTo,     \* blocks that an operator rewinds to
    MaxStoreSteps,    \* bound: queries, reverts and rewinds in a behaviour
    Reads,        \* SQL queries that executing one selection set takes
    MaxCachedBlocks,    \* query_cache_blocks: blocks in the block cache
    MaxWeight,    \* query_cache_max_mem per block
    PartLists,    \* the lists of block constraints that a query can have
    Weights,      \* what a result can weigh
    NoResult

ASSUME ServingAssumption ==
    /\ MaxStoreSteps \in Nat
    /\ Reads \in Nat \ {0}
    /\ MaxCachedBlocks \in Nat
    /\ MaxWeight \in Nat
    /\ Weights \subseteq Nat
    /\ \A parts \in PartLists : parts # << >>

VARIABLES
    deployment, \* the row of subgraph_deployment
    indexed,    \* the blocks whose changes the entity tables hold
    blockCache, \* QUERY_BLOCK_CACHE, most recent block first
    lfuCache,   \* QUERY_LFU_CACHE
    herd,       \* QUERY_HERD_CACHE: key -> the job working on it
    jobs,       \* executions of run_query, shared between queries
    query,      \* what each client's query is doing
    asked       \* number of queries so far (bound)

servingVars == <<deployment, indexed, blockCache, lfuCache, herd, jobs, query, asked>>

(* BlockPtr *)
Ptr(hash) == [number |-> Len(hash), hash |-> hash]
ZeroHash == << >>
Ancestors(hash) == {SubSeq(hash, 1, n) : n \in 1 .. Len(hash)}

JobIds == 1 .. Cardinality(Clients)
Idle == [pc |-> "idle"]

(***************************************************************************)
(* The deployment                                                          *)
(***************************************************************************)

\* What a query at block number n sees.
ReadAt(n) == {b \in indexed : Len(b) <= n}

has_deterministic_errors(n) == \E b \in indexed \cap Failing : Len(b) <= n

\* deployment::state, as far as a query uses it
deployment_state == [latest |-> deployment.latest, reorg_count |-> deployment.reorg_count]

block_queryable(state, number) == number <= Len(state.latest)

\* The next block is indexed, with the errors of its handlers.
transact_block_operations(next) ==
    /\ Len(next) = Len(deployment.latest) + 1
    /\ Front(next) = deployment.latest
    /\ deployment' = [deployment EXCEPT !.latest = next, !.current_reorg_depth = 0]
    /\ indexed' = indexed \cup {next}
    /\ UNCHANGED <<blockCache, lfuCache, herd, jobs, query, asked>>

\* deployment::revert_block_ptr
revert_block_ptr(hash) ==
    deployment' = [latest |-> hash,
                   reorg_count |-> deployment.reorg_count + 1,
                   current_reorg_depth |-> deployment.current_reorg_depth + 1,
                   max_reorg_depth |->
                     IF deployment.current_reorg_depth + 1 > deployment.max_reorg_depth
                     THEN deployment.current_reorg_depth + 1
                     ELSE deployment.max_reorg_depth]

\* The changes after the block are taken back, with the errors they caused.
rewind_with_conn(hash) ==
    /\ deployment.reorg_count + asked < MaxStoreSteps
    /\ revert_block_ptr(hash)
    /\ indexed' = {b \in indexed : Len(b) <= Len(hash)}

revert_block_operations ==
    /\ Len(deployment.latest) > 1
    /\ rewind_with_conn(Front(deployment.latest))
    /\ UNCHANGED <<blockCache, lfuCache, herd, jobs, query, asked>>

\* graphman rewind, to any block that the chain store knows. The test that
\* the block is behind the head builds an error and drops it.
rewind(hash) ==
    /\ rewind_with_conn(hash)
    /\ query' = [c \in Clients |->
                   IF query[c].pc \in {"idle", "done"} THEN query[c]
                   ELSE [query[c] EXCEPT !.rewound = TRUE]]
    /\ UNCHANGED <<blockCache, lfuCache, herd, jobs, asked>>
-----------------------------------------------------------------------------
(***************************************************************************)
(* The caches of query results                                             *)
(***************************************************************************)

\* QueryBlockCache::get. The selection set and the deployment in the key are
\* the same for all queries here, so that the block pointer is the key.
get(ptr) ==
    IF \E i \in DOMAIN blockCache : blockCache[i].block = ptr
    THEN blockCache[SelectInSeq(blockCache, LAMBDA c : c.block = ptr)].result
    ELSE NoResult

\* CacheByBlock::insert: the result is kept when it fits.
insert_by_block(entry, result, weight) ==
    IF entry.weight + weight <= MaxWeight
    THEN [entry EXCEPT !.weight = @ + weight, !.result = result]
    ELSE entry

-----------------------------------------------------------------------------
(***************************************************************************)
(* GraphQlRunner::execute, one query per client at a time                  *)
(***************************************************************************)

\* QueryBlockCache::insert: the cache afterwards and whether it took the result.
insert(ptr, result, weight) ==
    LET at == SelectInSeq(blockCache, LAMBDA c : c.block = ptr)
        room == IF Len(blockCache) = MaxCachedBlocks THEN Front(blockCache) ELSE blockCache
        entry == [block |-> ptr, weight |-> 0, result |-> NoResult]
    IN IF MaxCachedBlocks = 0 THEN [cache |-> blockCache, inserted |-> FALSE]
       ELSE IF at # 0
       THEN [cache |-> [blockCache EXCEPT ![at] = insert_by_block(@, result, weight)],
             inserted |-> blockCache[at].weight + weight <= MaxWeight]
       ELSE IF blockCache # << >> /\ Head(blockCache).block.number > ptr.number
       THEN [cache |-> blockCache, inserted |-> FALSE]
       ELSE [cache |-> <<insert_by_block(entry, result, weight)>> \o room,
             inserted |-> weight <= MaxWeight]

ServingInit ==
    /\ deployment = [latest |-> FirstBlock, reorg_count |-> 0,
                     current_reorg_depth |-> 0, max_reorg_depth |-> 0]
    /\ indexed = Ancestors(FirstBlock)
    /\ blockCache = << >>
    /\ lfuCache = << >>
    /\ herd = << >>
    /\ jobs = [j \in JobIds |-> NoResult]
    /\ query = [c \in Clients |-> Idle]
    /\ asked = 0

\* The query is parsed into selection sets with one block constraint each;
\* the state of the deployment is read once, before any of them runs.
execute(c, parts) ==
    /\ query[c] = Idle
    /\ deployment.reorg_count + asked < MaxStoreSteps
    /\ asked' = asked + 1
    /\ query' = [query EXCEPT ![c] =
         [pc |-> "locate", parts |-> parts, state |-> deployment_state, max_block |-> 0,
          answers |-> << >>, rewound |-> FALSE, tables |-> indexed]]
    /\ UNCHANGED <<deployment, indexed, blockCache, lfuCache, herd, jobs>>

QueryOver(q, ok) ==
    [pc |-> "done", ok |-> ok, state |-> q.state, answers |-> q.answers, rewound |-> q.rewound, tables |-> q.tables]

\* StoreResolver::locate_block: the block that a constraint stands for, if any.
\* A block number is not resolved to a hash, and a hash is not checked to be
\* an ancestor of the latest block.
locate_block(bc, state) ==
    IF bc.kind = "Hash"
    THEN IF block_queryable(state, Len(bc.hash)) THEN Ptr(bc.hash) ELSE NoResult
    ELSE IF bc.kind = "Number"
    THEN IF block_queryable(state, bc.number)
         THEN [number |-> bc.number, hash |-> ZeroHash] ELSE NoResult
    ELSE IF bc.kind = "Min" /\ Len(state.latest) < bc.number THEN NoResult
    ELSE Ptr(state.latest)

\* StoreResolver::at_block
at_block(c) ==
    LET q == query[c]
        ptr == locate_block(Head(q.parts), q.state)
    IN /\ q.pc = "locate"
       /\ query' = [query EXCEPT ![c] =
            IF ptr = NoResult THEN QueryOver(q, FALSE)
            ELSE [pc |-> "lookup", parts |-> q.parts, state |-> q.state, ptr |-> ptr,
                  max_block |-> IF ptr.number > q.max_block THEN ptr.number ELSE q.max_block,
                  has_errors |-> has_deterministic_errors(ptr.number),
                  answers |-> q.answers, rewound |-> q.rewound, tables |-> q.tables]]
       /\ UNCHANGED <<deployment, indexed, blockCache, lfuCache, herd, jobs, asked>>

\* The result of the selection set at hand is there; on to the next one.
Answered(q, source, result) ==
    [pc |-> IF Len(q.parts) > 1 THEN "locate" ELSE "check",
     parts |-> Tail(q.parts), state |-> q.state, max_block |-> q.max_block,
     answers |-> Append(q.answers, [for |-> Head(q.parts), source |-> source, result |-> result]),
     rewound |-> q.rewound, tables |-> q.tables]

\* execute_root_selection_set, the look into the block cache and the LFU cache
lookup(c) ==
    LET q == query[c]
        cached == get(q.ptr)
    IN /\ q.pc = "lookup"
       /\ query' = [query EXCEPT ![c] =
            IF cached # NoResult THEN Answered(q, "cache", cached)
            ELSE IF q.ptr \in DOMAIN lfuCache THEN Answered(q, "cache", lfuCache[q.ptr])
            ELSE [q EXCEPT !.pc = "herd"]]
       /\ UNCHANGED <<deployment, indexed, blockCache, lfuCache, herd, jobs, asked>>

\* QueryCache::cached_query: join the job for the same key, or start one.
cached_query(c) ==
    LET q == query[c]
        free == CHOOSE j \in JobIds : jobs[j] = NoResult
        join == q.ptr \in DOMAIN herd
        job == IF join THEN herd[q.ptr] ELSE free
    IN /\ q.pc = "herd"
       /\ query' = [query EXCEPT ![c] =
            [pc |-> IF join THEN "share" ELSE "run", job |-> job, parts |-> q.parts,
             state |-> q.state, ptr |-> q.ptr, max_block |-> q.max_block,
             answers |-> q.answers, rewound |-> q.rewound, tables |-> q.tables]]
       /\ IF join THEN UNCHANGED <<herd, jobs>>
          ELSE /\ herd' = [k \in DOMAIN herd \cup {q.ptr} |-> IF k = q.ptr THEN free ELSE herd[k]]
               /\ jobs' = [jobs EXCEPT ![free] = [ptr |-> q.ptr, has_errors |-> q.has_errors,
                                                 reads |-> 0, seen |-> {}, result |-> NoResult]]
       /\ UNCHANGED <<deployment, indexed, blockCache, lfuCache, asked>>

\* execute_root_selection_set_uncached: each SQL query is its own transaction
\* and sees the tables as they are then. At the end, post_process marks the
\* result when there were indexing errors at its block, and drops the data
\* (error_policy Deny). Reading can fail.
run_query(j) ==
    LET job == jobs[j]
        seen == job.seen \cup {ReadAt(job.ptr.number)}
    IN /\ job # NoResult
       /\ job.result = NoResult
       /\ \/ jobs' = [jobs EXCEPT ![j] =
               [job EXCEPT !.reads = @ + 1, !.seen = seen,
                           !.result = IF job.reads + 1 = Reads
                                      THEN [data |-> IF job.has_errors THEN {} ELSE seen,
                                            errors |-> job.has_errors]
                                      ELSE NoResult]]
          \/ jobs' = [jobs EXCEPT ![j].result = [data |-> {}, errors |-> TRUE]]
       /\ UNCHANGED <<deployment, indexed, blockCache, lfuCache, herd, query, asked>>

\* The jobs without the one that client c was the last to wait for.
Released(c) ==
    [j \in JobIds |->
       IF \E d \in Clients \ {c} : query[d].pc \in {"run", "share"} /\ query[d].job = j
       THEN jobs[j]
       ELSE IF query[c].job = j THEN NoResult ELSE jobs[j]]

WithoutHerd(ptr) == [k \in DOMAIN herd \ {ptr} |-> herd[k]]

\* A query that found its result being computed gets it and does not cache it.
share_result(c) ==
    /\ query[c].pc = "share"
    /\ jobs[query[c].job].result # NoResult
    /\ query' = [query EXCEPT ![c] = Answered(@, "shared", jobs[query[c].job].result)]
    /\ jobs' = Released(c)
    /\ UNCHANGED <<deployment, indexed, blockCache, lfuCache, herd, asked>>

\* The query that started the job takes the entry off the in-flight list.
finish_work(c) ==
    LET q == query[c] IN
    /\ q.pc = "run"
    /\ jobs[q.job].result # NoResult
    /\ herd' = WithoutHerd(q.ptr)
    /\ jobs' = Released(c)
    /\ query' = [query EXCEPT ![c] =
         [pc |-> "insert", result |-> jobs[q.job].result, parts |-> q.parts, state |-> q.state,
          ptr |-> q.ptr, max_block |-> q.max_block, answers |-> q.answers, rewound |-> q.rewound, tables |-> q.tables]]
    /\ UNCHANGED <<deployment, indexed, blockCache, lfuCache, asked>>

no_cache(result) == result.errors

\* Results that the block cache does not take go to the LFU cache, which may
\* first evict anything.
insert_result(c, weight) ==
    LET q == query[c]
        into == insert(q.ptr, q.result, weight)
    IN /\ q.pc = "insert"
       /\ IF no_cache(q.result) THEN UNCHANGED <<blockCache, lfuCache>>
          ELSE /\ blockCache' = into.cache
               /\ IF into.inserted THEN UNCHANGED lfuCache
                  ELSE \E kept \in SUBSET DOMAIN lfuCache :
                         lfuCache' = [k \in kept \cup {q.ptr} |->
                                        IF k = q.ptr THEN q.result ELSE lfuCache[k]]
       /\ query' = [query EXCEPT ![c] = Answered(q, "own", q.result)]
       /\ UNCHANGED <<deployment, indexed, herd, jobs, asked>>

changed_OneReorg(state, new_state, latest_block) ==
    /\ new_state.reorg_count > state.reorg_count
    /\ latest_block + 1 > Len(state.latest)

\* GraphQlRunner::deployment_changed: whether reverts since the query started
\* can have touched a block as high as latest_block.
changed(state, new_state, latest_block) ==
    /\ new_state.reorg_count > state.reorg_count
    /\ latest_block + new_state.max_reorg_depth * (new_state.reorg_count - state.reorg_count)
         > Len(state.latest)

deployment_changed(c) ==
    LET q == query[c] IN
    /\ q.pc = "check"
    /\ query' = [query EXCEPT ![c] = QueryOver(q, ~changed(q.state, deployment, q.max_block))]
    /\ UNCHANGED <<deployment, indexed, blockCache, lfuCache, herd, jobs, asked>>

\* The client goes away and the query is dropped. If it started a job, the
\* guard of cached_query takes the entry off the list; queries that joined
\* the job still drive it to its end. (A query that does not hold a job when
\* it is dropped leaves nothing behind, as if it took no more steps.)
dropped(c) ==
    LET q == query[c] IN
    /\ q.pc \in {"run", "share"}
    /\ query' = [query EXCEPT ![c] = Idle]
    /\ jobs' = Released(c)
    /\ herd' = IF q.pc = "run" THEN WithoutHerd(q.ptr) ELSE herd
    /\ UNCHANGED <<deployment, indexed, blockCache, lfuCache, asked>>

answered(c) ==
    /\ query[c].pc = "done"
    /\ query' = [query EXCEPT ![c] = Idle]
    /\ UNCHANGED <<deployment, indexed, blockCache, lfuCache, herd, jobs, asked>>

ServingNext ==
    \/ \E b \in Blocks : transact_block_operations(b)
    \/ revert_block_operations
    \/ \E hash \in RewindTo : rewind(hash)
    \/ \E j \in JobIds : run_query(j)
    \/ \E c \in Clients :
         \/ \E parts \in PartLists : execute(c, parts)
         \/ at_block(c)
         \/ lookup(c)
         \/ cached_query(c)
         \/ share_result(c)
         \/ finish_work(c)
         \/ \E weight \in Weights : insert_result(c, weight)
         \/ deployment_changed(c)
         \/ dropped(c)
         \/ answered(c)
-----------------------------------------------------------------------------
(***************************************************************************)
(* Properties                                                              *)
(***************************************************************************)

\* The block number that an answered constraint stands for.
NumberOf(bc, state) ==
    IF bc.kind = "Hash" THEN Len(bc.hash)
    ELSE IF bc.kind = "Number" THEN bc.number
    ELSE Len(state.latest)

\* What the tables showed for the constraint when the query began.
Expected(q, a) == {b \in q.tables : Len(b) <= NumberOf(a.for, q.state)}

\* A query that is answered without an error, and that computed its answer
\* itself, shows for every selection set exactly the data that the deployment
\* had, for the block asked for, when the query read the deployment's state:
\* no matter how its reads interleave with blocks being indexed and reverted,
\* deployment_changed rejects every answer that a revert may have touched.
\* (Not so when an operator rewinds the deployment while the query runs.)
AnswersFromState ==
    \A c \in Clients :
        query[c].pc = "done" /\ query[c].ok /\ ~query[c].rewound =>
            \A i \in DOMAIN query[c].answers :
                LET a == query[c].answers[i] IN
                a.source = "own" /\ ~a.result.errors => a.result.data = {Expected(query[c], a)}

=============================================================================
