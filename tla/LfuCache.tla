------------------------------ MODULE LfuCache ------------------------------
(***************************************************************************)
(* LfuCache, the cache of entities between blocks and of historical query  *)
(* results. An entry has a weight and a frequency; `evict` throws out the  *)
(* stale entries first and then the least frequently used ones, until the  *)
(* rest fits. The priority queue of the implementation is a function from  *)
(* keys to entries; what it pops is any entry of highest priority.         *)
(***************************************************************************)
EXTENDS Integers, Sequences, FiniteSets, SequencesExt

CONSTANTS
    CacheKeys,
    EntryWeights, \* what entries can weigh
    CacheLimit,   \* the weight that evict is asked to get down to
    StalePeriod,  \* evictions after which entries are checked for staleness
    Usize,        \* arithmetic on weights wraps around at this size
    MaxFrequency  \* bound: how often an entry is used

ASSUME LfuAssumption ==
    /\ EntryWeights \subseteq Nat
    /\ CacheLimit \in Nat
    /\ {StalePeriod, MaxFrequency, Usize} \subseteq Nat \ {0}

VARIABLES
    queue,          \* key -> [weight, stale, frequency, will_stale]
    total_weight,
    stale_counter,
    extended,      \* entries were added with `extend`, which does not weigh them
    panicked       \* evict found the queue empty

lfuVars == <<queue, total_weight, stale_counter, extended, panicked>>

With(q, key, entry) == [k \in DOMAIN q \cup {key} |-> IF k = key THEN entry ELSE q[k]]
Without(q, keys) == [k \in DOMAIN q \ keys |-> q[k]]

LfuInit ==
    /\ queue = << >>
    /\ total_weight = 0
    /\ stale_counter = 0
    /\ extended = FALSE
    /\ panicked = FALSE

\* get_mut: every access counts, and keeps the entry from becoming stale.
Touched(entry) == [entry EXCEPT !.frequency = @ + 1, !.will_stale = FALSE]

lfu_get(key) ==
    /\ key \in DOMAIN queue
    /\ queue[key].frequency < MaxFrequency
    /\ queue' = [queue EXCEPT ![key] = Touched(@)]
    /\ UNCHANGED <<total_weight, stale_counter, extended, panicked>>

lfu_insert_AddsOnly(key, weight) ==
    /\ key \in DOMAIN queue => queue[key].frequency < MaxFrequency
    /\ IF key \in DOMAIN queue
       THEN queue' = [queue EXCEPT ![key] = [Touched(@) EXCEPT !.weight = weight]]
       ELSE queue' = With(queue, key, [weight |-> weight, stale |-> FALSE, frequency |-> 1,
                                       will_stale |-> FALSE])
    /\ total_weight' = (total_weight + weight) % Usize
    /\ UNCHANGED <<stale_counter, extended, panicked>>

lfu_insert(key, weight) ==
    /\ key \in DOMAIN queue => queue[key].frequency < MaxFrequency
    /\ IF key \in DOMAIN queue
       THEN /\ queue' = [queue EXCEPT ![key] = [Touched(@) EXCEPT !.weight = weight]]
            /\ total_weight' = (total_weight - queue[key].weight + weight) % Usize
       ELSE /\ queue' = With(queue, key, [weight |-> weight, stale |-> FALSE, frequency |-> 1,
                                          will_stale |-> FALSE])
            /\ total_weight' = (total_weight + weight) % Usize
    /\ UNCHANGED <<stale_counter, extended, panicked>>

\* The entry is given the highest priority and popped.
lfu_remove(key) ==
    /\ key \in DOMAIN queue
    /\ queue' = Without(queue, {key})
    /\ total_weight' = (total_weight - queue[key].weight) % Usize
    /\ UNCHANGED <<stale_counter, extended, panicked>>

\* Extend: the entries of another cache, with the priorities they had there.
lfu_extend(key, weight) ==
    /\ queue' = With(queue, key, [weight |-> weight, stale |-> FALSE, frequency |-> 1,
                                  will_stale |-> FALSE])
    /\ extended' = TRUE
    /\ UNCHANGED <<total_weight, stale_counter, panicked>>

\* The entry that is popped first: stale before not stale, then by frequency.
Before(a, b) == (a.stale /\ ~b.stale) \/ (a.stale = b.stale /\ a.frequency < b.frequency)

\* The orders in which the entries can be popped; ties are broken either way.
PopOrders(q) ==
    {s \in SetToSeqs(DOMAIN q) : \A i, j \in DOMAIN s : i < j => ~Before(q[s[j]], q[s[i]])}

\* After a period, what was not used since the last one is stale, and what is
\* not used until the next one will be.
Aged(q) == [k \in DOMAIN q |-> [q[k] EXCEPT !.stale = q[k].will_stale, !.will_stale = TRUE]]

\* total_weight after popping the first n entries
Rest(q, order, n) ==
    FoldLeft(LAMBDA w, k : (w - q[k].weight) % Usize, total_weight, SubSeq(order, 1, n))

\* evict_with_period
lfu_evict ==
    LET period == stale_counter + 1 = StalePeriod
        q == IF period THEN Aged(queue) ELSE queue
    IN /\ total_weight > CacheLimit
       /\ stale_counter' = IF period THEN 0 ELSE stale_counter + 1
       /\ \E order \in PopOrders(q) :
            LET enough == {n \in 0 .. Len(order) : Rest(q, order, n) <= CacheLimit}
                n == IF enough = {} THEN Len(order) ELSE Min(enough)
            IN /\ queue' = Without(q, Range(SubSeq(order, 1, n)))
               /\ total_weight' = Rest(q, order, n)
               /\ panicked' = (enough = {})
       /\ UNCHANGED extended

LfuNext ==
    /\ ~panicked
    /\ \/ \E k \in CacheKeys : lfu_get(k) \/ lfu_remove(k)
       \/ \E k \in CacheKeys, w \in EntryWeights : lfu_insert(k, w) \/ lfu_extend(k, w)
       \/ lfu_evict
-----------------------------------------------------------------------------
\* The weight that eviction goes by is the weight of what is in the cache,
\* through insertions, overwriting with another weight, removals and
\* evictions, so that evict never meets an "empty cache but total_weight >
\* max_weight", as long as no entries were added with `extend`.
WeightIsSum ==
    ~extended =>
       /\ total_weight = FoldSet(LAMBDA k, w : queue[k].weight + w, 0, DOMAIN queue)
       /\ ~panicked

=============================================================================
