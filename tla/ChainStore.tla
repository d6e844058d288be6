------------------------------ MODULE ChainStore ------------------------------
(***************************************************************************)
(* The chain store that the block ingestor fills and the block streams     *)
(* read: the blocks table, the chain head, and the in-memory cache of the  *)
(* most recent blocks (store/postgres/src/chain_store.rs), together with   *)
(* the ingestor that polls the Ethereum node (chain/ethereum/src/          *)
(* ingestor.rs).                                                           *)
(*                                                                         *)
(* A block is stored "full" (with its transaction receipts) by the         *)
(* ingestor and "light" (without) by load_blocks on behalf of a stream.    *)
(***************************************************************************)
EXTENDS BlockTree, FiniteSets

CONSTANTS
    AncestorCount,   \* ingestor: ancestors of the head that must be stored
    CacheCapacity,   \* recent_blocks_cache: blocks kept in memory
    CleanupBlocks    \* GRAPH_ETHEREUM_CLEANUP_BLOCKS

ASSUME ChainStoreAssumption ==
    /\ AncestorCount \in Nat
    /\ CacheCapacity \in Nat
    /\ CleanupBlocks \in BOOLEAN

VARIABLES
    blocks,    \* the blocks table: "absent", "light" or "full"
    head,      \* ethereum_networks.head_block_hash, or None
    recent,    \* the blocks of recent_blocks_cache
    poll,      \* ingestor: "idle", "ingest", "update" or "cleanup"
    pending    \* ingestor: the block it is ingesting, or None

storeVars == <<blocks, head, recent>>
ingestorVars == <<poll, pending>>
chainVars == <<storeVars, ingestorVars>>

stored == {b \in Blocks : blocks[b] # "absent"}

-----------------------------------------------------------------------------
(* recent_blocks_cache.                                                    *)

chain_head(cache) == CHOOSE b \in cache : \A c \in cache : Number[c] <= Number[b]

earliest_block(cache) == CHOOSE b \in cache : \A c \in cache : Number[b] <= Number[c]

evict_if_necessary(cache) ==
    {b \in cache : Cardinality({c \in cache : Number[c] > Number[b]}) < CacheCapacity}

insert_block_KeepFork(cache, b) ==
    evict_if_necessary(cache \cup {b})

insert_block(cache, b) ==
    IF cache = {} THEN {b}
    ELSE evict_if_necessary(
        IF Parent[b] = chain_head(cache) THEN cache \cup {b}
        ELSE IF Number[b] > Number[chain_head(cache)] THEN {b}
        ELSE IF b = Parent[earliest_block(cache)] THEN cache \cup {b}
        ELSE cache)

get_block(child, offset) ==
    {b \in recent : child \in recent /\ Number[b] = Number[child] - offset}

-----------------------------------------------------------------------------
(* Reads of the chain store.                                               *)

cached_head_ptr == IF recent # {} THEN chain_head(recent) ELSE head

(* The blocks that ancestor_block finds: from the cache, else by walking   *)
(* the parents in the table.  A walk that meets a missing block finds      *)
(* nothing; if only the ancestor itself is missing the query fails.        *)
AncestorFound(child, offset) ==
    IF get_block(child, offset) # {} THEN get_block(child, offset)
    ELSE {b \in stored : /\ b = Anc(child, offset)
                         /\ \A k \in 0..offset : Anc(child, k) \in stored}

AncestorFails(child, offset) ==
    /\ get_block(child, offset) = {}
    /\ \A k \in 0..offset : (Anc(child, k) \in stored) <=> k # offset

chain_head_candidate ==
    {b \in stored :
        /\ head # None => Number[b] > Number[head]
        /\ \A c \in stored : Number[c] <= Number[b]}

(* The depths at which an ancestor of the candidate c is missing, down to  *)
(* the first block that is needed; the parent is always looked up.         *)
missing_parent_ButLast(c) ==
    {k \in 1..(IF Number[c] < AncestorCount THEN Number[c] ELSE AncestorCount) - 1 :
        Anc(c, k) \notin stored}

missing_parent(c) ==
    LET needed == IF AncestorCount = 0 THEN 1 ELSE AncestorCount
    IN  {k \in 1..(IF Number[c] < needed THEN Number[c] ELSE needed) :
            Anc(c, k) \notin stored}

-----------------------------------------------------------------------------
(* Writes of the chain store.                                              *)

upsert_block(b) ==
    /\ recent' = IF b = Genesis THEN recent ELSE insert_block(recent, b)
    /\ blocks' = [blocks EXCEPT ![b] = "full"]
    /\ UNCHANGED head

upsert_light_blocks(bs) ==
    blocks' = [b \in Blocks |->
        IF b \in bs /\ blocks[b] = "absent" THEN "light" ELSE blocks[b]]

(* The candidate becomes the head if none of its ancestors is missing.     *)
attempt_chain_head_update(c) ==
    /\ c \in chain_head_candidate
    /\ missing_parent(c) = {}
    /\ head' = c

(* Blocks below the slowest deployment and below the ancestors of the head *)
(* are removed, the genesis block excepted.  slowest is None when no       *)
(* active deployment has a block pointer.                                  *)
cleanup_bound(slowest) ==
    LET limits == {Number[head] - AncestorCount : x \in {head} \ {None}}
                      \cup {Number[b] : b \in {slowest} \ {None}}
    IN  IF limits = {} THEN -1
        ELSE CHOOSE n \in limits : \A m \in limits : n <= m

cleanup_cached_blocks(slowest) ==
    /\ recent' = {}
    /\ blocks' = [b \in Blocks |->
           IF Number[b] > 0 /\ Number[b] < cleanup_bound(slowest)
           THEN "absent" ELSE blocks[b]]
    /\ UNCHANGED head

-----------------------------------------------------------------------------
(* The ingestor.  do_poll asks the node for its latest block, ingests it   *)
(* and then every missing ancestor the store reports.                      *)

GoesBack(latest) == Number[latest] < Number[head]

do_poll(latest) ==
    /\ poll = "idle"
    /\ IF head # None /\ (latest = head \/ GoesBack(latest))
       THEN poll' = "cleanup" /\ UNCHANGED pending
       ELSE poll' = "ingest" /\ pending' = latest
    /\ UNCHANGED storeVars

ingest_block ==
    /\ poll = "ingest"
    /\ upsert_block(pending)
    /\ poll' = "update"
    /\ UNCHANGED pending

update_head ==
    /\ poll = "update"
    /\ \/ /\ chain_head_candidate = {}
          /\ poll' = "cleanup"
          /\ UNCHANGED <<head, pending>>
       \/ \E c \in chain_head_candidate :
              /\ attempt_chain_head_update(c)
              /\ poll' = "cleanup"
              /\ UNCHANGED pending
       \/ \E c \in chain_head_candidate :
              /\ missing_parent(c) # {}
              /\ pending' = Anc(c, CHOOSE k \in missing_parent(c) :
                                       \A j \in missing_parent(c) : k <= j)
              /\ poll' = "ingest"
              /\ UNCHANGED head
    /\ UNCHANGED <<blocks, recent>>

(* A request to the node or to the database fails: the poll ends.          *)
poll_fails ==
    /\ poll \in {"ingest", "update"}
    /\ poll' = "cleanup"
    /\ UNCHANGED <<storeVars, pending>>

end_poll(slowest) ==
    /\ poll = "cleanup"
    /\ poll' = "idle"
    /\ pending' = None
    /\ IF CleanupBlocks THEN cleanup_cached_blocks(slowest) ELSE UNCHANGED storeVars

(* A stream loads blocks through the adapter's load_blocks.                *)
load_blocks(bs) ==
    /\ upsert_light_blocks(bs)
    /\ UNCHANGED <<head, recent, ingestorVars>>

(* The process restarts: only the database survives.                       *)
restart ==
    /\ poll' = "idle"
    /\ pending' = None
    /\ recent' = {}
    /\ UNCHANGED <<blocks, head>>

ChainInit ==
    /\ blocks = [b \in Blocks |-> "absent"]
    /\ head = None
    /\ recent = {}
    /\ poll = "idle"
    /\ pending = None

ChainNext ==
    \/ \E b \in Blocks : do_poll(b)
    \/ ingest_block
    \/ update_head
    \/ poll_fails
    \/ \E b \in Blocks \cup {None} : end_poll(b)
    \/ \E bs \in SUBSET Blocks : load_blocks(bs)
    \/ restart

ChainSpec == ChainInit /\ [][ChainNext]_chainVars

-----------------------------------------------------------------------------
ChainTypeOK ==
    /\ blocks \in [Blocks -> {"absent", "light", "full"}]
    /\ head \in Blocks \cup {None}
    /\ recent \subseteq Blocks \ {Genesis}
    /\ poll \in {"idle", "ingest", "update", "cleanup"}
    /\ pending \in Blocks \cup {None}
    /\ poll \in {"ingest", "update"} => pending \in Blocks

(* The head and its AncestorCount most recent ancestors stay in the blocks *)
(* table: head updates wait for them and the cleanup spares them.  The     *)
(* block stream relies on it ("the head block and at least its             *)
(* reorg_threshold most recent ancestors will be present in the block      *)
(* store").                                                                *)
HeadHasAncestors ==
    head # None =>
        \A k \in 0..Number[head] :
            k <= AncestorCount => blocks[Anc(head, k)] # "absent"

(* The blocks of recent_blocks_cache are ancestors of each other ("we only *)
(* ever store blocks in this cache that have a continuous line of ancestry *)
(* between each other"), so get_block returns the true ancestor although   *)
(* it looks blocks up by number.                                           *)
CacheIsLineage ==
    \A b, c \in recent : Number[b] <= Number[c] => OnChain(b, c)

(* The chain head only ever moves to a block with a larger number, also    *)
(* when the node goes back, switches to another fork or when the process   *)
(* restarts.                                                               *)
HeadNeverRecedes ==
    [][head' # head => head' # None /\ (head # None => Number[head'] > Number[head])]_chainVars

=============================================================================
