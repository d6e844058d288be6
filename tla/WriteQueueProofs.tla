--------------------------- MODULE WriteQueueProofs ---------------------------
(***************************************************************************)
(* Proofs about the pipelined WritableStore, for any number of entities,   *)
(* blocks and requests and any capacity of the queue.                      *)
(***************************************************************************)
EXTENDS WriteQueue, SumLemmas

-----------------------------------------------------------------------------
(* The inductive invariant.                                                *)

(* Entities keep the version of the head block in all later blocks.        *)
Settled(d) ==
    \A k \in Keys, b \in Blocks : b >= d.ptr => d.table[k][b] = d.table[k][d.ptr]

(* The queue leads, request by request, from the database to what the      *)
(* runner wrote.  While a request is committed but still in the queue, the *)
(* database is one step ahead.                                             *)
Chain ==
    /\ Len(accepted) = Len(queue) + 1
    /\ \A i \in 1..Len(queue) : /\ Accepts(accepted[i], queue[i])
                               /\ accepted[i + 1] = Apply(accepted[i], queue[i])
    /\ \A i \in 1..Len(accepted) : Settled(accepted[i])
    /\ writer \in {"executing", "executed"} => queue # << >>
    /\ db = accepted[IF writer = "executed" THEN 2 ELSE 1]

(* The request that is being pushed follows what has been pushed before.   *)
Follows ==
    IF front = "pushing"
    THEN /\ Accepts(Written, request)
         /\ request.op # "Stop"
         /\ block_ptr = IF request.op = "RevertTo" THEN request.block ELSE Written.ptr
    ELSE block_ptr = Written.ptr

(* Between its two looks, a read holds a block that nothing in the queue   *)
(* can change, and at which the database has the answer.                   *)
Scanned ==
    read.status = "scanned" =>
        /\ front = "idle"
        /\ \A i \in 1..Len(queue) : read.at <= Unaffected(queue[i])
        /\ \A k \in read.keys :
              Written.table[k][MaxBlock] = IF k \in read.missing
                                          THEN db.table[k][read.at]
                                          ELSE read.got[k]

QueueInv ==
    /\ TypeOK
    /\ Settled(db)
    /\ ~CheckErrOK => writer \in Dead
    /\ writer \in Dead => db = accepted[1]
    /\ writer \notin Dead => Chain /\ Follows /\ Scanned /\ ReadsSeeOwnWrites

-----------------------------------------------------------------------------
(* What a request does to a deployment.                                    *)

(* The modifications of a request map entity keys to versions.             *)
LEMMA ModsType ==
    ASSUME NEW req \in Requests, NEW k \in DOMAIN req.mods
    PROVE  k \in Keys /\ req.mods[k] \in Versions
<1>1. req.mods \in Batches \cup {NoMods}
    BY Zenon DEF Requests
<1>2. CASE req.mods \in Batches
    BY <1>2, TablesAssumption, Zenon
<1>3. CASE req.mods = NoMods
    BY <1>3, Zenon DEF NoMods
<1> QED BY <1>1, <1>2, <1>3, Zenon

(* Executing a request on a deployment gives a deployment.                 *)
LEMMA ApplyType ==
    ASSUME NEW d \in Deployments, NEW req \in Requests
    PROVE  Apply(d, req) \in Deployments
<1>1. d.table \in [Keys -> [Blocks -> Versions]] /\ d.ptr \in Blocks
    BY Zenon DEF Deployments, Tables
<1>2. req.block \in Blocks /\ req.op \in {"Write", "RevertTo", "Stop"}
    BY Zenon DEF Requests
<1>3. \A k \in Keys : k \in DOMAIN req.mods => req.mods[k] \in Versions
    BY ModsType, Zenon
<1>4. CASE req.op = "Write"
  <2>1. [k \in Keys |-> [b \in Blocks |->
             IF k \in DOMAIN req.mods /\ b >= req.block THEN req.mods[k]
             ELSE d.table[k][b]]] \in Tables
      BY <1>1, <1>3, Zenon DEF Tables
  <2> QED BY <2>1, <1>2, <1>4, Zenon DEF Apply, WriteAt, Deployments
<1>5. CASE req.op = "RevertTo"
  <2>1. [k \in Keys |-> [b \in Blocks |->
             IF b > req.block THEN d.table[k][req.block] ELSE d.table[k][b]]] \in Tables
      BY <1>1, <1>2, Zenon DEF Tables
  <2> QED BY <2>1, <1>2, <1>5, Zenon DEF Apply, RevertAt, Deployments
<1>6. CASE req.op = "Stop"
    BY <1>6, Zenon DEF Apply
<1> QED BY <1>2, <1>4, <1>5, <1>6, Zenon

(* The head and the versions after a request.                              *)
LEMMA ApplyFields ==
    ASSUME NEW d \in Deployments, NEW req \in Requests
    PROVE  /\ Apply(d, req).ptr = IF req.op = "Stop" THEN d.ptr ELSE req.block
           /\ \A k \in Keys, b \in Blocks : Apply(d, req).table[k][b] =
                CASE req.op = "Write" ->
                       IF k \in DOMAIN req.mods /\ b >= req.block THEN req.mods[k]
                       ELSE d.table[k][b]
                  [] req.op = "RevertTo" ->
                       IF b > req.block THEN d.table[k][req.block] ELSE d.table[k][b]
                  [] OTHER -> d.table[k][b]
<1>1. CASE req.op = "Write"
    BY <1>1, Zenon DEF Apply, WriteAt
<1>2. CASE req.op = "RevertTo"
    BY <1>2, Zenon DEF Apply, RevertAt
<1>3. CASE req.op = "Stop"
    BY <1>3, Zenon DEF Apply
<1> QED BY <1>1, <1>2, <1>3, Zenon DEF Requests

(* A request that fits keeps the deployment settled.                       *)
LEMMA ApplySettled ==
    ASSUME NEW d \in Deployments, NEW req \in Requests,
           Settled(d), Accepts(d, req)
    PROVE  Settled(Apply(d, req))
<1>1. d.ptr \in Nat /\ req.block \in Nat /\ d.ptr \in Blocks /\ req.block \in Blocks
    BY TablesAssumption DEF Deployments, Requests, Blocks
<1>2. SUFFICES ASSUME NEW k \in Keys, NEW b \in Blocks, b >= Apply(d, req).ptr
               PROVE  Apply(d, req).table[k][b] = Apply(d, req).table[k][Apply(d, req).ptr]
    BY Zenon DEF Settled
<1>3. b \in Nat
    BY TablesAssumption DEF Blocks
<1>4. CASE req.op = "Write"
  <2>1. Apply(d, req).ptr = req.block /\ d.ptr < req.block
      BY <1>4, ApplyFields, Zenon DEF Accepts
  <2>2. d.table[k][b] = d.table[k][d.ptr] /\ d.table[k][req.block] = d.table[k][d.ptr]
      BY <2>1, <1>1, <1>2, <1>3 DEF Settled
  <2> QED BY <2>1, <2>2, <1>1, <1>2, <1>3, <1>4, ApplyFields
<1>5. CASE req.op = "RevertTo"
    BY <1>5, <1>1, <1>2, <1>3, ApplyFields
<1>6. CASE req.op = "Stop"
    BY <1>6, <1>1, <1>2, <1>3, ApplyFields DEF Settled
<1> QED BY <1>4, <1>5, <1>6, Zenon DEF Requests

(* A request changes nothing up to its Unaffected block.                   *)
LEMMA ApplyBelow ==
    ASSUME NEW d \in Deployments, NEW req \in Requests,
           NEW b \in Blocks, b <= Unaffected(req), NEW k \in Keys
    PROVE  Apply(d, req).table[k][b] = d.table[k][b]
<1>1. b \in Nat /\ req.block \in Nat
    BY TablesAssumption DEF Requests, Blocks
<1> QED BY <1>1, ApplyFields DEF Unaffected, Requests

-----------------------------------------------------------------------------
(* What the scan of the queue finds.                                       *)

(* Block r is the least that a request after request i reverts to.         *)
RevertedTo(i, r) ==
    /\ \A j \in (i + 1)..Len(queue) :
          queue[j].op = "RevertTo" => r <= queue[j].block
    /\ \/ r = MaxBlock
       \/ \E j \in (i + 1)..Len(queue) :
             queue[j].op = "RevertTo" /\ r = queue[j].block

(* The current version of k is the one after request i at the block that   *)
(* the later requests revert to.                                           *)
Reaches(k, i) ==
    \E r \in Blocks :
        /\ RevertedTo(i, r)
        /\ Written.table[k][MaxBlock] = accepted[i + 1].table[k][r]

(* A queued request is a request.                                          *)
LEMMA QueuedBlock ==
    ASSUME TypeOK, NEW j \in 1..Len(queue)
    PROVE  queue[j] \in Requests /\ queue[j].block \in Blocks /\ queue[j].block \in Nat
<1>1. queue[j] \in Requests
    BY DEF TypeOK, StoreTypeOK, QueueTypeOK
<1> QED BY <1>1, TablesAssumption DEF Requests, Blocks

(* Walking the queue from the newest request down, past requests in which  *)
(* k is not found.                                                         *)
LEMMA ReachesStep ==
    ASSUME TypeOK, Chain, NEW k \in Keys, NEW i \in 1..Len(queue),
           i \notin Hits(k), Reaches(k, i)
    PROVE  Reaches(k, i - 1)
<1>1. PICK r \in Blocks : RevertedTo(i, r)
                         /\ Written.table[k][MaxBlock] = accepted[i + 1].table[k][r]
    BY Zenon DEF Reaches
<1> DEFINE q == queue[i]
           d == accepted[i]
<1>2. q \in Requests /\ d \in Deployments /\ Len(queue) \in Nat
    BY DEF TypeOK, StoreTypeOK, QueueTypeOK, Chain
<1>3. accepted[i + 1] = Apply(d, q)
    BY Zenon DEF Chain
<1>4. q.block \in Blocks /\ q.block \in Nat /\ r \in Nat /\ MaxBlock \in Nat
    BY <1>2, TablesAssumption DEF Requests, Blocks
<1>5. (i - 1) + 1 = i /\ i..Len(queue) = {i} \cup (i + 1)..Len(queue)
    BY <1>2
<1>6. CASE q.op = "RevertTo"
  <2> DEFINE s == IF r <= q.block THEN r ELSE q.block
  <2>1. s \in Blocks
      BY <1>4, Zenon
  <2>2. Apply(d, q).table[k][r] = d.table[k][s]
      BY <1>2, <1>4, <1>6, ApplyFields
  <2>3. \A j \in i..Len(queue) : queue[j].op = "RevertTo" => s <= queue[j].block
    <3>1. SUFFICES ASSUME NEW j \in i..Len(queue), queue[j].op = "RevertTo"
                   PROVE  s <= queue[j].block
        BY Zenon
    <3>2. CASE j = i
        BY <3>2, <1>4
    <3>3. CASE j \in (i + 1)..Len(queue)
      <4>1. r <= queue[j].block
          BY <1>1, <3>1, <3>3, Zenon DEF RevertedTo
      <4>2. queue[j].block \in Nat
          BY <1>2, <3>3, QueuedBlock
      <4> QED BY <4>1, <4>2, <1>4
    <3> QED BY <1>5, <3>2, <3>3, Zenon
  <2>4. s = MaxBlock \/ \E j \in i..Len(queue) : queue[j].op = "RevertTo" /\ s = queue[j].block
      BY <1>1, <1>5, <1>6, Zenon DEF RevertedTo
  <2> QED BY <1>1, <1>3, <1>5, <2>1, <2>2, <2>3, <2>4, Zenon DEF Reaches, RevertedTo
<1>7. CASE q.op # "RevertTo"
  <2>1. RevertedTo(i - 1, r)
      BY <1>1, <1>5, <1>7, Zenon DEF RevertedTo
  <2>2. Apply(d, q).table[k][r] = d.table[k][r]
    <3>1. CASE q.op = "Write" /\ k \in DOMAIN q.mods /\ r >= q.block
      <4>1. visible(i)
        <5>1. SUFFICES ASSUME NEW j \in (i + 1)..Len(queue), queue[j].op = "RevertTo"
                       PROVE  q.block <= queue[j].block
            BY Zenon DEF visible
        <5>2. r <= queue[j].block
            BY <1>1, <5>1, Zenon DEF RevertedTo
        <5>3. queue[j].block \in Nat
            BY <1>2, QueuedBlock
        <5> QED BY <5>2, <5>3, <3>1, <1>4
      <4> QED BY <4>1, <3>1, Zenon DEF Hits
    <3>2. CASE ~(q.op = "Write" /\ k \in DOMAIN q.mods /\ r >= q.block)
        BY <3>2, <1>2, <1>7, ApplyFields DEF Requests
    <3> QED BY <3>1, <3>2, Zenon
  <2> QED BY <1>1, <1>3, <1>5, <2>1, <2>2, Zenon DEF Reaches
<1> QED BY <1>6, <1>7, Zenon

(* The walk gets from the newest request down to any request above which   *)
(* key k is not found.                                                     *)
LEMMA ReachesAll ==
    ASSUME TypeOK, Chain, NEW k \in Keys, NEW i \in 0..Len(queue),
           \A j \in (i + 1)..Len(queue) : j \notin Hits(k)
    PROVE  Reaches(k, i)
<1> DEFINE n == Len(queue)
           Bad == {m \in Nat : m <= n - i /\ ~Reaches(k, n - m)}
<1>1. n \in Nat /\ i \in Nat
    BY DEF TypeOK, StoreTypeOK, QueueTypeOK
<1>2. Reaches(k, n)
  <2>1. MaxBlock \in Blocks
      BY TablesAssumption DEF Blocks
  <2>2. Written = accepted[n + 1]
      BY Zenon DEF Chain, Written
  <2>3. (n + 1)..n = {}
      BY <1>1
  <2> QED BY <2>1, <2>2, <2>3, Zenon DEF Reaches, RevertedTo
<1>3. SUFFICES ASSUME Bad # {} PROVE FALSE
  <2>1. n - i \in Nat /\ n - i <= n - i /\ n - (n - i) = i
      BY <1>1
  <2>2. Reaches(k, n - (n - i)) => Reaches(k, i)
      BY <2>1, Zenon
  <2> HIDE DEF n
  <2> QED BY <2>1, <2>2, Zenon
<1>4. PICK m \in Bad : \A x \in Bad : m <= x
    BY <1>3, LeastNatural, Zenon
<1>5. m # 0
    BY <1>1, <1>2, <1>4
<1>6. m - 1 \in Nat /\ m - 1 \notin Bad /\ n - (m - 1) = n - m + 1 /\ n - m \in 0..n
    BY <1>1, <1>4, <1>5
<1>7. Reaches(k, n - m + 1)
    BY <1>6, <1>4, <1>1
<1>8. n - m + 1 \in 1..n /\ n - m + 1 \in (i + 1)..n /\ (n - m + 1) - 1 = n - m
    BY <1>1, <1>4, <1>5
<1>9. Reaches(k, n - m)
  <2> HIDE DEF n
  <2>1. Reaches(k, (n - m + 1) - 1)
      BY <1>7, <1>8, ReachesStep, Zenon DEF n
  <2> QED BY <2>1, <1>8, Zenon
<1> QED BY <1>4, <1>9, Zenon

(* find_map stops at the newest request in which it finds key k.           *)
LEMMA NewestHit ==
    ASSUME TypeOK, NEW k \in Keys, Hits(k) # {}
    PROVE  /\ Newest(Hits(k)) \in Hits(k)
           /\ \A j \in Hits(k) : j <= Newest(Hits(k))
           /\ queue[Newest(Hits(k))].mods[k] \in Versions
<1>1. Len(queue) \in Nat /\ Hits(k) \in SUBSET (1..Len(queue))
    BY DEF TypeOK, QueueTypeOK, Hits
<1>2. \E m \in Hits(k) : \A j \in Hits(k) : j <= m
    BY <1>1, GreatestBounded, Zenon
<1>3. Newest(Hits(k)) \in Hits(k) /\ \A j \in Hits(k) : j <= Newest(Hits(k))
    BY <1>2, Zenon DEF Newest
<1>4. ASSUME NEW i \in Hits(k) PROVE queue[i].mods[k] \in Versions
    BY QueuedBlock, ModsType, Zenon DEF Hits
<1> QED BY <1>3, <1>4, Zenon

(* A key found in the queue has the version that the newest write gives.   *)
LEMMA FoundInQueue ==
    ASSUME TypeOK, Chain, NEW k \in Keys, Hits(k) # {}
    PROVE  /\ Newest(Hits(k)) \in Hits(k)
           /\ Written.table[k][MaxBlock] = queue[Newest(Hits(k))].mods[k]
<1> DEFINE h == Newest(Hits(k))
<1>1. Len(queue) \in Nat /\ Hits(k) \in SUBSET (1..Len(queue))
    BY DEF TypeOK, StoreTypeOK, QueueTypeOK, Hits
<1>2. h \in Hits(k) /\ \A j \in Hits(k) : j <= h
    BY NewestHit, Zenon
<1> HIDE DEF h
<1>3. h \in 1..Len(queue) /\ h \in 0..Len(queue)
    BY <1>1, <1>2
<1>4. \A j \in (h + 1)..Len(queue) : j \notin Hits(k)
    BY <1>1, <1>2, <1>3
<1>5. PICK r \in Blocks : RevertedTo(h, r)
                         /\ Written.table[k][MaxBlock] = accepted[h + 1].table[k][r]
    BY <1>3, <1>4, ReachesAll, Zenon DEF Reaches
<1>6. queue[h] \in Requests /\ accepted[h] \in Deployments
      /\ accepted[h + 1] = Apply(accepted[h], queue[h])
    BY <1>3 DEF TypeOK, StoreTypeOK, QueueTypeOK, Chain
<1>7. queue[h].op = "Write" /\ k \in DOMAIN queue[h].mods /\ visible(h)
    BY <1>2, Zenon DEF Hits
<1>8. r >= queue[h].block
    BY <1>5, <1>6, <1>7, TablesAssumption DEF RevertedTo, visible, Requests, Blocks
<1>9. Apply(accepted[h], queue[h]).table[k][r] = queue[h].mods[k]
    BY <1>6, <1>7, <1>8, ApplyFields, Zenon
<1> QED BY <1>2, <1>5, <1>6, <1>9, Zenon DEF h

(* Every accepted state is a deployment.                                   *)
LEMMA AcceptedDeployment ==
    ASSUME TypeOK, Chain, NEW j \in 1..(Len(queue) + 1)
    PROVE  /\ accepted[j] \in Deployments /\ Settled(accepted[j])
           /\ accepted[j].ptr \in Blocks /\ accepted[j].ptr \in Nat
<1>1. accepted[j] \in Deployments /\ Settled(accepted[j])
    BY DEF TypeOK, StoreTypeOK, QueueTypeOK, Chain
<1> QED BY <1>1, TablesAssumption DEF Deployments, Blocks

(* Every queued write is of block 1 or later.                              *)
LEMMA UnaffectedBlock ==
    ASSUME TypeOK, NEW j \in 1..Len(queue)
    PROVE  Unaffected(queue[j]) \in Blocks
BY QueuedBlock, TablesAssumption DEF Unaffected, Blocks, Requests

(* query_block is a block that no queued request changes.                  *)
LEMMA QueryBlock ==
    ASSUME TypeOK
    PROVE  /\ query_block \in QueryBounds
           /\ query_block \in Blocks
           /\ \A c \in QueryBounds : query_block <= c
<1>1. QueryBounds \in SUBSET Blocks
    BY UnaffectedBlock, TablesAssumption DEF QueryBounds, Blocks
<1>2. QueryBounds \in SUBSET Nat /\ QueryBounds # {}
    BY <1>1, TablesAssumption DEF Blocks, QueryBounds
<1>3. \E b \in QueryBounds : \A c \in QueryBounds : b <= c
    BY <1>2, LeastNatural, Zenon
<1>4. query_block \in QueryBounds /\ \A c \in QueryBounds : query_block <= c
    BY <1>3, Zenon DEF query_block
<1> QED BY <1>1, <1>4, Zenon

(* When only writes hold query_block down, the queue starts after it.      *)
LEMMA WritesOnly ==
    ASSUME TypeOK, Chain,
           NEW i \in 1..Len(queue), queue[i].op = "Write",
           query_block = Unaffected(queue[i]),
           \A j \in 1..Len(queue) : queue[j].op = "RevertTo" => query_block < queue[j].block
    PROVE  accepted[1].ptr <= query_block
<1> DEFINE q == query_block
           S == {j \in 1..i : accepted[j].ptr <= q}
<1>1. q \in Nat /\ q = queue[i].block - 1
    BY QueryBlock, TablesAssumption DEF Blocks, Unaffected
<1> HIDE DEF q
<1>2. Len(queue) \in Nat /\ \A j \in 1..(Len(queue) + 1) : accepted[j].ptr \in Nat
    BY AcceptedDeployment DEF TypeOK, StoreTypeOK, QueueTypeOK
<1>3. i \in S
  <2>1. accepted[i].ptr < queue[i].block
      BY Zenon DEF Chain, Accepts
  <2> QED BY <2>1, <1>1, <1>2, QueuedBlock
<1>4. S \in SUBSET Nat
    BY <1>2
<1>5. PICK m \in S : \A j \in S : m <= j
    BY <1>3, <1>4, LeastNatural, Zenon
<1>6. ASSUME m # 1 PROVE FALSE
  <2> DEFINE p == m - 1
  <2>1. p \in 1..Len(queue) /\ p \in 1..i /\ p + 1 = m /\ p < m
      BY <1>2, <1>5, <1>6
  <2> HIDE DEF p
  <2>2. accepted[m].ptr <= q
      BY <1>5, Zenon
  <2>3. /\ queue[p] \in Requests /\ accepted[p] \in Deployments
        /\ accepted[m] = Apply(accepted[p], queue[p])
      BY <2>1 DEF TypeOK, StoreTypeOK, QueueTypeOK, Chain
  <2>4. accepted[m].ptr = IF queue[p].op = "Stop" THEN accepted[p].ptr ELSE queue[p].block
      BY <2>3, ApplyFields
  <2>5. q <= Unaffected(queue[p]) /\ queue[p].block \in Nat
      BY <2>1, QueryBlock, QueuedBlock, Zenon DEF QueryBounds, q
  <2>6. queue[p].op # "Write"
      BY <2>2, <2>4, <2>5, <1>1 DEF Unaffected
  <2>7. queue[p].op # "RevertTo"
    <3>1. SUFFICES ASSUME queue[p].op = "RevertTo" PROVE FALSE
        BY Zenon
    <3>2. q < queue[p].block
        BY <2>1, <3>1, Zenon DEF q
    <3> QED BY <3>1, <3>2, <2>2, <2>4, <2>5, <1>1
  <2>8. accepted[p].ptr <= q
      BY <2>2, <2>3, <2>4, <2>6, <2>7, Zenon DEF Requests
  <2> QED BY <1>2, <1>5, <2>1, <2>8
<1> QED BY <1>5, <1>6, Zenon DEF q

(* A key not found in the queue has the version that the database has, or  *)
(* had before the request that is being committed, at query_block.         *)
LEMMA NotFoundInQueue ==
    ASSUME TypeOK, Chain, NEW k \in Keys, Hits(k) = {}
    PROVE  Written.table[k][MaxBlock] = accepted[1].table[k][query_block]
<1> DEFINE q == query_block
<1>1. Len(queue) \in Nat /\ 0 \in 0..Len(queue) /\ 0 + 1 = 1
    BY DEF TypeOK, StoreTypeOK, QueueTypeOK
<1>2. Reaches(k, 0)
    BY <1>1, ReachesAll, Zenon
<1>3. PICK r \in Blocks : RevertedTo(0, r)
                         /\ Written.table[k][MaxBlock] = accepted[1].table[k][r]
    BY <1>1, <1>2, Zenon DEF Reaches
<1>4. /\ q \in Blocks /\ q \in Nat /\ r \in Nat /\ MaxBlock \in Nat
      /\ r <= MaxBlock /\ q \in QueryBounds
    BY QueryBlock, TablesAssumption DEF Blocks
<1>5. q <= r
  <2>1. \A c \in QueryBounds : q <= c
      BY QueryBlock, Zenon
  <2>2. r \in QueryBounds
      BY <1>1, <1>3, Zenon DEF RevertedTo, QueryBounds, Unaffected
  <2> QED BY <2>1, <2>2, Zenon
<1>6. CASE q = r
    BY <1>3, <1>6, Zenon
<1>7. CASE q < r
  <2> HIDE DEF q
  <2>1. \A j \in 1..Len(queue) : queue[j].op = "RevertTo" => q < queue[j].block
      BY <1>1, <1>3, <1>4, <1>7, QueuedBlock DEF RevertedTo
  <2>2. PICK i \in 1..Len(queue) : q = Unaffected(queue[i])
      BY <1>4, <1>7 DEF QueryBounds
  <2>3. queue[i].op = "Write"
      BY <2>1, <2>2, <1>4, <1>7, QueuedBlock DEF Unaffected, Requests
  <2>4. accepted[1].ptr <= q
      BY <2>1, <2>2, <2>3, WritesOnly, Zenon DEF q
  <2>5. Settled(accepted[1]) /\ accepted[1].ptr \in Nat
      BY <1>1, AcceptedDeployment
  <2>6. accepted[1].table[k][q] = accepted[1].table[k][r]
      BY <2>4, <2>5, <1>4, <1>7 DEF Settled
  <2> QED BY <2>6, <1>3, Zenon DEF q
<1> QED BY <1>4, <1>5, <1>6, <1>7

-----------------------------------------------------------------------------
(* Every action preserves the invariant.                                   *)

(* NoRead has the type of a read.                                          *)
LEMMA NoReadFields ==
    /\ NoRead.status = "none" /\ NoRead.keys = {} /\ NoRead.missing = {}
    /\ NoRead.at \in Blocks /\ NoRead.got \in [{} -> Versions]
<1>1. NoRead.got \in [{} -> Versions]
    BY Zenon DEF NoRead, NoMods
<1>2. 0 \in Blocks
    BY TablesAssumption DEF Blocks
<1> QED BY <1>1, <1>2, Zenon DEF NoRead

(* A new WritableStore satisfies the invariant.                            *)
LEMMA InitInv == Init => QueueInv
<1>1. SUFFICES ASSUME Init PROVE QueueInv
    BY Zenon
<1>2. NewDeployment \in Deployments /\ Settled(NewDeployment) /\ NewDeployment.ptr = 0
    BY TablesAssumption DEF NewDeployment, Deployments, Tables, Versions, Blocks, Settled
<1>3. StopRequest \in Requests
    BY TablesAssumption DEF StopRequest, Requests, Blocks
<1>4. StoreTypeOK
    BY <1>1, <1>2 DEF Init, StoreTypeOK, Deployments
<1>5. TypeOK
  <2>1. QueueTypeOK
    <3>1. queue \in Seq(Requests) /\ Len(queue) <= Capacity
        BY <1>1, QueueAssumption DEF Init
    <3> QED BY <1>1, <1>3, <3>1, Zenon DEF Init, QueueTypeOK
  <2>2. ReadTypeOK
      BY <1>1, NoReadFields, Zenon DEF Init, ReadTypeOK
  <2> QED BY <1>4, <2>1, <2>2, Zenon DEF TypeOK
<1>6. Chain
    BY <1>1, <1>2 DEF Init, Chain
<1>7. Follows
    BY <1>1, <1>2, Zenon DEF Init, Follows, Written
<1>8. Scanned /\ ReadsSeeOwnWrites
    BY <1>1, Zenon DEF Init, Scanned, ReadsSeeOwnWrites, NoRead
<1> QED BY <1>1, <1>2, <1>5, <1>6, <1>7, <1>8, Zenon DEF QueueInv, Init, Dead, CheckErrOK

(* So does one that was created after a crash.                             *)
LEMMA RestartInv == ASSUME QueueInv, Restart PROVE QueueInv'
<1>1. db \in Deployments /\ Settled(db) /\ db.ptr \in Blocks
    BY Zenon DEF QueueInv, TypeOK, StoreTypeOK, Deployments
<1>2. StopRequest \in Requests
    BY TablesAssumption DEF StopRequest, Requests, Blocks
<1>3. StoreTypeOK'
    BY <1>1 DEF Restart, StoreTypeOK
<1>4. QueueTypeOK'
  <2>1. queue' \in Seq(Requests) /\ Len(queue') <= Capacity
      BY QueueAssumption DEF Restart
  <2> QED BY <1>2, <2>1, Zenon DEF Restart, QueueTypeOK
<1>5. ReadTypeOK'
    BY NoReadFields, Zenon DEF Restart, ReadTypeOK
<1>6. Chain'
    BY <1>1 DEF Restart, Chain, Settled
<1>7. Follows'
    BY <1>1, Zenon DEF Restart, Follows, Written
<1>8. Scanned' /\ ReadsSeeOwnWrites'
    BY Zenon DEF Restart, Scanned, ReadsSeeOwnWrites, NoRead
<1>9. Settled(db)'
    BY <1>1, Zenon DEF Restart, Settled
<1> QED BY <1>3, <1>4, <1>5, <1>6, <1>7, <1>8, <1>9, Zenon DEF QueueInv, TypeOK, Restart, Dead, CheckErrOK

(* Pushing a request that follows what the runner wrote.                   *)
LEMMA EnqueueChain ==
    ASSUME QueueInv, writer \notin Dead, NEW req \in Requests,
           Accepts(Written, req), Enqueue(req), UNCHANGED <<db, writer>>
    PROVE  /\ Chain'
           /\ Written' = Apply(Written, req)
           /\ accepted' \in Seq(Deployments) /\ accepted' # << >>
           /\ queue' \in Seq(Requests) /\ Len(queue') <= Capacity
           /\ \A i \in 1..Len(queue') : \/ i \in 1..Len(queue) /\ queue'[i] = queue[i]
                                        \/ queue'[i] = req
<1> DEFINE n == Len(queue)
           d == Apply(Written, req)
<1>1. /\ TypeOK /\ Chain /\ n \in Nat /\ Len(accepted) = n + 1
      /\ queue \in Seq(Requests) /\ accepted \in Seq(Deployments)
    BY DEF QueueInv, TypeOK, StoreTypeOK, QueueTypeOK, Chain
<1>2. Written = accepted[n + 1] /\ Written \in Deployments /\ Settled(Written)
    BY <1>1, AcceptedDeployment DEF Written
<1>3. d \in Deployments /\ Settled(d)
    BY <1>2, ApplyType, ApplySettled, Zenon
<1>4. queue' = Append(queue, req) /\ accepted' = Append(accepted, d) /\ n < Capacity
    BY <1>1, Zenon DEF Enqueue, Written
<1> HIDE DEF d
<1>5. /\ queue' \in Seq(Requests) /\ Len(queue') = n + 1
      /\ accepted' \in Seq(Deployments) /\ Len(accepted') = n + 2
      /\ \A i \in 1..n : queue'[i] = queue[i]
      /\ queue'[n + 1] = req
      /\ \A i \in 1..(n + 1) : accepted'[i] = accepted[i]
      /\ accepted'[n + 2] = d
    BY <1>1, <1>3, <1>4
<1>6. Written' = d
    BY <1>5, Zenon DEF Written
<1>7. \A i \in 1..Len(queue') : /\ Accepts(accepted'[i], queue'[i])
                              /\ accepted'[i + 1] = Apply(accepted'[i], queue'[i])
  <2>1. SUFFICES ASSUME NEW i \in 1..(n + 1)
                 PROVE  /\ Accepts(accepted'[i], queue'[i])
                        /\ accepted'[i + 1] = Apply(accepted'[i], queue'[i])
      BY <1>5, Zenon
  <2>2. CASE i \in 1..n
    <3>1. i + 1 \in 1..(n + 1)
        BY <2>2, <1>1
    <3>2. queue'[i] = queue[i] /\ accepted'[i] = accepted[i] /\ accepted'[i + 1] = accepted[i + 1]
        BY <1>5, <2>1, <2>2, <3>1, Zenon
    <3> QED BY <1>1, <2>2, <3>2, Zenon DEF Chain
  <2>3. CASE i = n + 1
    <3>1. accepted'[i + 1] = d /\ accepted'[i] = Written /\ queue'[i] = req
        BY <1>1, <1>2, <1>5, <2>3
    <3> QED BY <3>1, Zenon DEF d
  <2> QED BY <1>1, <2>2, <2>3
<1>8. \A i \in 1..Len(accepted') : Settled(accepted'[i])
  <2>1. SUFFICES ASSUME NEW i \in 1..(n + 2) PROVE Settled(accepted'[i])
      BY <1>5, Zenon
  <2>2. CASE i \in 1..(n + 1)
      BY <2>2, <1>1, <1>5, Zenon DEF Chain
  <2>3. CASE i = n + 2
      BY <2>3, <1>3, <1>5, Zenon
  <2> QED BY <1>1, <2>2, <2>3
<1>9. db' = accepted'[IF writer' = "executed" THEN 2 ELSE 1]
  <2>1. db = accepted[IF writer = "executed" THEN 2 ELSE 1]
      BY <1>1, Zenon DEF Chain
  <2>2. writer = "executed" => n >= 1
      BY <1>1 DEF Chain
  <2> QED BY <2>1, <2>2, <1>1, <1>5
<1>10. Chain'
  <2>1. queue' # << >>
      BY <1>1, <1>5
  <2>2. Len(accepted') = Len(queue') + 1
      BY <1>1, <1>5
  <2> QED BY <1>7, <1>8, <1>9, <2>1, <2>2, Zenon DEF Chain
<1>11. Len(queue') <= Capacity
    BY <1>1, <1>4, <1>5, QueueAssumption
<1>12. \A i \in 1..Len(queue') : \/ i \in 1..Len(queue) /\ queue'[i] = queue[i]
                                 \/ queue'[i] = req
    BY <1>1, <1>5
<1>13. accepted' # << >>
    BY <1>1, <1>5
<1> QED BY <1>5, <1>6, <1>10, <1>11, <1>12, <1>13, Zenon DEF d

(* A push that is refused or has to wait.                                  *)
LEMMA StartPushInv ==
    ASSUME QueueInv, Idle, NEW req \in Requests, req.op # "Stop", StartPush(req),
           block_ptr' \in Blocks,
           writer \notin Dead =>
               /\ Accepts(Written, req)
               /\ block_ptr' = IF req.op = "RevertTo" THEN req.block ELSE Written.ptr
    PROVE  QueueInv'
<1>1. TypeOK'
  <2>1. StoreTypeOK'
      BY Zenon DEF QueueInv, TypeOK, StoreTypeOK, StartPush
  <2>2. QueueTypeOK'
      BY Zenon DEF QueueInv, TypeOK, QueueTypeOK, StartPush, check_err
  <2>3. ReadTypeOK'
      BY NoReadFields, Zenon DEF QueueInv, TypeOK, ReadTypeOK, StartPush
  <2> QED BY <2>1, <2>2, <2>3, Zenon DEF TypeOK
<1>2. UNCHANGED <<db, queue, writer, accepted>> /\ Written' = Written
    BY Zenon DEF StartPush, Written
<1>3. Settled(db)' /\ (writer \in Dead => db = accepted[1])'
    BY <1>2, Zenon DEF QueueInv, Settled, Dead
<1>4. (~CheckErrOK => writer \in Dead)'
    BY <1>2, Zenon DEF QueueInv, CheckErrOK, Dead, StartPush, check_err
<1>5. ASSUME writer \notin Dead PROVE Chain' /\ Follows' /\ Scanned' /\ ReadsSeeOwnWrites'
  <2>1. CheckErrOK /\ front' = "pushing" /\ request' = req /\ read' = read
      BY <1>5, Zenon DEF QueueInv, StartPush
  <2>2. Chain'
      BY <1>2, <1>5, Zenon DEF QueueInv, Chain
  <2>3. Follows'
      BY <1>2, <1>5, <2>1, Zenon DEF Follows
  <2>4. Scanned'
      BY <2>1, Zenon DEF Scanned, Idle
  <2>5. ReadsSeeOwnWrites'
      BY <1>2, <1>5, <2>1, Zenon DEF QueueInv, ReadsSeeOwnWrites, Dead
  <2> QED BY <2>2, <2>3, <2>4, <2>5, Zenon
<1> QED BY <1>1, <1>2, <1>3, <1>4, <1>5, Zenon DEF QueueInv, Dead

(* transact_block_operations keeps the invariant.                          *)
LEMMA TransactInv ==
    ASSUME QueueInv, NEW n \in Blocks, NEW m \in Batches, transact_block_operations(n, m)
    PROVE  QueueInv'
<1>1. WriteRequest(n, m) \in Requests
  <2>1. n > 0
      BY TablesAssumption DEF transact_block_operations, QueueInv, TypeOK, StoreTypeOK, Blocks
  <2> QED BY <2>1, Zenon DEF WriteRequest, Requests
<1>2. block_ptr' = block_ptr /\ block_ptr \in Blocks
    BY Zenon DEF transact_block_operations, QueueInv, TypeOK, StoreTypeOK
<1>3. ASSUME writer \notin Dead
      PROVE  Accepts(Written, WriteRequest(n, m)) /\ block_ptr' = Written.ptr
    BY <1>2, <1>3, Zenon DEF transact_block_operations, QueueInv, Follows, Idle, Accepts, WriteRequest
<1> QED BY <1>1, <1>2, <1>3, StartPushInv, Zenon DEF transact_block_operations, WriteRequest

(* revert_block_operations keeps the invariant.                            *)
LEMMA RevertInv ==
    ASSUME QueueInv, NEW n \in Blocks, revert_block_operations(n)
    PROVE  QueueInv'
<1>1. RevertRequest(n) \in Requests
    BY Zenon DEF RevertRequest, Requests
<1>2. block_ptr' = n
    BY Zenon DEF revert_block_operations
<1>3. ASSUME writer \notin Dead PROVE Accepts(Written, RevertRequest(n))
    BY <1>3, Zenon DEF revert_block_operations, QueueInv, Follows, Idle, Accepts, RevertRequest
<1> QED BY <1>1, <1>2, <1>3, StartPushInv, Zenon DEF revert_block_operations, RevertRequest

(* What pushing does to the queue when the writer has failed.              *)
LEMMA EnqueueDead ==
    ASSUME QueueInv, writer \in Dead, NEW req \in Requests, Enqueue(req)
    PROVE  /\ accepted' = accepted
           /\ queue' \in Seq(Requests) /\ Len(queue') <= Capacity
<1>1. queue \in Seq(Requests) /\ queue' = Append(queue, req) /\ Len(queue) < Capacity
    BY Zenon DEF QueueInv, TypeOK, QueueTypeOK, Enqueue
<1>2. queue' \in Seq(Requests) /\ Len(queue') = Len(queue) + 1 /\ Len(queue) \in Nat
    BY <1>1
<1>3. Len(queue') <= Capacity
    BY <1>1, <1>2, QueueAssumption
<1> QED BY <1>2, <1>3, Zenon DEF Enqueue

(* The push that gets its place in the queue keeps the invariant.          *)
LEMMA FinishPushInv == ASSUME QueueInv, FinishPush PROVE QueueInv'
<1>1. request \in Requests /\ StopRequest \in Requests
    BY TablesAssumption DEF QueueInv, TypeOK, QueueTypeOK, StopRequest, Requests, Blocks
<1>2. UNCHANGED <<db, writer>> /\ Enqueue(request)
    BY Zenon DEF FinishPush
<1>3. ASSUME writer \notin Dead PROVE Accepts(Written, request)
    BY <1>3, Zenon DEF QueueInv, Follows, FinishPush
<1>4. TypeOK'
  <2>1. /\ accepted' \in Seq(Deployments) /\ accepted' # << >>
        /\ queue' \in Seq(Requests) /\ Len(queue') <= Capacity
    <3>1. CASE writer \in Dead
        BY <3>1, <1>1, <1>2, EnqueueDead, Zenon DEF QueueInv, TypeOK, StoreTypeOK
    <3>2. CASE writer \notin Dead
        BY <3>2, <1>1, <1>2, <1>3, EnqueueChain, Zenon
    <3> QED BY <3>1, <3>2, Zenon
  <2>2. StoreTypeOK'
      BY <1>1, <2>1, Zenon DEF FinishPush, QueueInv, TypeOK, StoreTypeOK, Requests
  <2>3. QueueTypeOK'
      BY <1>1, <2>1, Zenon DEF FinishPush, QueueInv, TypeOK, QueueTypeOK, errVars, Dead
  <2>4. ReadTypeOK'
      BY NoReadFields, Zenon DEF FinishPush, ReadTypeOK
  <2> QED BY <2>2, <2>3, <2>4, Zenon DEF TypeOK
<1>5. Settled(db)' /\ (~CheckErrOK => writer \in Dead)'
    BY <1>2, Zenon DEF QueueInv, Settled, FinishPush, CheckErrOK, errVars, Dead
<1>6. CASE writer \in Dead
    BY <1>1, <1>2, <1>4, <1>5, <1>6, EnqueueDead, Zenon DEF QueueInv, Dead
<1>7. CASE writer \notin Dead
  <2>1. Chain' /\ Written' = Apply(Written, request)
      BY <1>1, <1>2, <1>3, <1>7, EnqueueChain, Zenon
  <2>2. Follows'
    <3>1. request.op # "Stop" /\ Written \in Deployments
      <4>1. TypeOK /\ Chain
          BY <1>7, Zenon DEF QueueInv
      <4>2. Len(queue) + 1 \in 1..(Len(queue) + 1) /\ Len(accepted) = Len(queue) + 1
          BY <4>1 DEF TypeOK, QueueTypeOK, Chain
      <4>3. Written \in Deployments
          BY <4>1, <4>2, AcceptedDeployment, Zenon DEF Written
      <4> QED BY <4>3, <1>7, Zenon DEF QueueInv, Follows, FinishPush
    <3>2. Written'.ptr = request.block
        BY <2>1, <3>1, <1>1, ApplyFields, Zenon
    <3>3. block_ptr' = request.block
        BY <3>1, <1>1, <1>7, Zenon DEF FinishPush, QueueInv, Follows, Requests
    <3> QED BY <3>2, <3>3, Zenon DEF Follows, FinishPush
  <2>3. Scanned' /\ ReadsSeeOwnWrites'
      BY NoReadFields, Zenon DEF FinishPush, Scanned, ReadsSeeOwnWrites
  <2> QED BY <1>2, <1>4, <1>5, <1>7, <2>1, <2>2, <2>3, Zenon DEF QueueInv, Dead
<1> QED BY <1>6, <1>7, Zenon

(* The push of the Stop request keeps the invariant.                       *)
LEMMA FinishStopInv == ASSUME QueueInv, FinishStop PROVE QueueInv'
<1> DEFINE req == StopRequest
<1>1. /\ req \in Requests /\ req.op = "Stop" /\ Unaffected(req) = MaxBlock
      /\ \A d : Accepts(d, req) /\ Apply(d, req) = d
    BY TablesAssumption DEF StopRequest, Requests, Blocks, Unaffected, Accepts, Apply
<1>2. UNCHANGED <<db, writer, block_ptr, front, request, read>> /\ Enqueue(req)
    BY Zenon DEF FinishStop
<1> HIDE DEF req
<1>4. TypeOK'
  <2>1. /\ accepted' \in Seq(Deployments) /\ accepted' # << >>
        /\ queue' \in Seq(Requests) /\ Len(queue') <= Capacity
    <3>1. CASE writer \in Dead
        BY <3>1, <1>1, <1>2, EnqueueDead, Zenon DEF QueueInv, TypeOK, StoreTypeOK
    <3>2. CASE writer \notin Dead
        BY <3>2, <1>1, <1>2, EnqueueChain, Zenon
    <3> QED BY <3>1, <3>2
  <2>2. StoreTypeOK'
      BY <1>2, <2>1, Zenon DEF QueueInv, TypeOK, StoreTypeOK
  <2>3. QueueTypeOK'
      BY <1>2, <2>1, Zenon DEF FinishStop, QueueInv, TypeOK, QueueTypeOK, errVars, Dead
  <2>4. ReadTypeOK'
      BY <1>2, Zenon DEF QueueInv, TypeOK, ReadTypeOK
  <2> QED BY <2>2, <2>3, <2>4 DEF TypeOK
<1>5. Settled(db)' /\ (~CheckErrOK => writer \in Dead)'
    BY <1>2, Zenon DEF QueueInv, Settled, FinishStop, CheckErrOK, errVars, Dead
<1>6. CASE writer \in Dead
    BY <1>1, <1>2, <1>4, <1>5, <1>6, EnqueueDead, Zenon DEF QueueInv, Dead
<1>7. CASE writer \notin Dead
  <2>1. /\ Chain' /\ Written' = Written
        /\ \A i \in 1..Len(queue') : \/ i \in 1..Len(queue) /\ queue'[i] = queue[i]
                                     \/ queue'[i] = req
      BY <1>1, <1>2, <1>7, EnqueueChain, Zenon
  <2>2. Follows'
      BY <1>2, <1>7, <2>1, Zenon DEF QueueInv, Follows
  <2>3. Scanned'
    <3>1. SUFFICES ASSUME read.status = "scanned"
                   PROVE  /\ front = "idle"
                          /\ \A i \in 1..Len(queue') : read.at <= Unaffected(queue'[i])
                          /\ \A k \in read.keys :
                                Written.table[k][MaxBlock] = IF k \in read.missing
                                                            THEN db.table[k][read.at]
                                                            ELSE read.got[k]
        BY <1>2, <2>1, Zenon DEF Scanned
    <3>2. read.at <= MaxBlock
        BY TablesAssumption DEF QueueInv, TypeOK, ReadTypeOK, Blocks
    <3>3. Scanned
        BY <1>7, Zenon DEF QueueInv
    <3> QED BY <1>1, <2>1, <3>1, <3>2, <3>3, Zenon DEF Scanned
  <2>4. ReadsSeeOwnWrites'
      BY <1>2, <1>7, <2>1, Zenon DEF QueueInv, ReadsSeeOwnWrites, Dead
  <2> QED BY <1>2, <1>4, <1>5, <1>7, <2>1, <2>2, <2>3, <2>4, Zenon DEF QueueInv, Dead
<1> QED BY <1>6, <1>7

(* The database has the answer for a key that is not in the queue, also    *)
(* when the first request is committed but still queued.                   *)
LEMMA DatabaseAnswers ==
    ASSUME TypeOK, Chain, NEW k \in Keys, Hits(k) = {}
    PROVE  Written.table[k][MaxBlock] = db.table[k][query_block]
<1>1. Written.table[k][MaxBlock] = accepted[1].table[k][query_block]
    BY NotFoundInQueue, Zenon
<1>2. CASE writer = "executed"
  <2>1. Len(queue) \in Nat /\ Len(queue) # 0 /\ 1 + 1 = 2
      BY <1>2 DEF TypeOK, QueueTypeOK, Chain
  <2>2. 1 \in 1..Len(queue) /\ 1 \in 1..(Len(queue) + 1)
      BY <2>1
  <2>3. db = Apply(accepted[1], queue[1])
      BY <1>2, <2>1, <2>2, Zenon DEF Chain
  <2>4. query_block \in Blocks /\ query_block <= Unaffected(queue[1])
      BY <2>2, QueryBlock, Zenon DEF QueryBounds
  <2> QED BY <1>1, <2>2, <2>3, <2>4, ApplyBelow, QueuedBlock, AcceptedDeployment, Zenon
<1>3. CASE writer # "executed"
    BY <1>1, <1>3, Zenon DEF Chain
<1> QED BY <1>2, <1>3, Zenon

(* The scan of the queue finds what was written last, or a block at which  *)
(* the database has it.                                                    *)
LEMMA ScanInv ==
    ASSUME QueueInv, NEW K \in SUBSET Keys, Scan(K)
    PROVE  QueueInv'
<1> DEFINE got == [k \in K |-> IF Hits(k) = {} THEN None
                              ELSE queue[Newest(Hits(k))].mods[k]]
           missing == {k \in K : Hits(k) = {}}
<1>1. /\ read'.status = "scanned" /\ read'.keys = K /\ read'.at = query_block
      /\ read'.got = got /\ read'.missing = missing
    BY Zenon DEF Scan
<1>2. /\ UNCHANGED <<db, queue, writer, write_err, poisoned, block_ptr, front, request,
                     stopper, accepted>>
      /\ Written' = Written
    BY Zenon DEF Scan, errVars, Written
<1>3. \A k \in K : got[k] = IF Hits(k) = {} THEN None ELSE queue[Newest(Hits(k))].mods[k]
    BY Zenon
<1>3a. got \in [K -> {got[k] : k \in K}]
    BY Zenon
<1> HIDE DEF got
<1>4. ASSUME writer \notin Dead PROVE Chain' /\ Follows' /\ Scanned' /\ ReadsSeeOwnWrites'
  <2>1. TypeOK /\ Chain
      BY <1>4, Zenon DEF QueueInv
  <2>2. Chain'
      BY <1>2, <2>1, Zenon DEF Chain
  <2>3. Follows'
      BY <1>2, <1>4, Zenon DEF QueueInv, Follows
  <2>4. Scanned'
    <3>1. \A i \in 1..Len(queue) : query_block <= Unaffected(queue[i])
        BY <2>1, QueryBlock, Zenon DEF QueryBounds
    <3>2. ASSUME NEW k \in K, k \in missing
          PROVE  Written.table[k][MaxBlock] = db.table[k][query_block]
        BY <2>1, <3>2, DatabaseAnswers, Zenon
    <3>3. ASSUME NEW k \in K, k \notin missing
          PROVE  Written.table[k][MaxBlock] = got[k]
        BY <2>1, <3>3, <1>3, FoundInQueue, Zenon
    <3>4. front = "idle"
        BY Zenon DEF Scan, Idle
    <3> HIDE DEF missing
    <3>5. \A k \in K : Written.table[k][MaxBlock] =
                            IF k \in missing THEN db.table[k][query_block] ELSE got[k]
        BY <3>2, <3>3, Zenon
    <3> QED BY <1>1, <1>2, <3>1, <3>4, <3>5, Zenon DEF Scanned
  <2> QED BY <1>1, <2>2, <2>3, <2>4, Zenon DEF ReadsSeeOwnWrites
<1>5. ReadTypeOK'
  <2>1. read'.got \in [K -> Versions]
    <3>1. ASSUME NEW k \in K PROVE got[k] \in Versions
      <4>1. CASE Hits(k) = {}
          BY <1>3, <4>1, Zenon DEF Versions
      <4>2. CASE Hits(k) # {}
          BY <1>3, <4>2, NewestHit, Zenon DEF QueueInv
      <4> QED BY <4>1, <4>2, Zenon
    <3> QED BY <1>1, <1>3a, <3>1, Zenon
  <2>2. query_block \in Blocks
      BY QueryBlock, Zenon DEF QueueInv
  <2> QED BY <1>1, <2>1, <2>2, Zenon DEF ReadTypeOK
<1>6. TypeOK'
    BY <1>2, <1>5, Zenon DEF QueueInv, TypeOK, StoreTypeOK, QueueTypeOK, Dead
<1> QED BY <1>2, <1>4, <1>6, Zenon DEF QueueInv, Settled, CheckErrOK, Dead

(* The database lookup after the scan keeps the invariant.                 *)
LEMMA ReadStoreInv == ASSUME QueueInv, ReadStore PROVE QueueInv'
<1> DEFINE got == [k \in read.keys |-> IF k \in read.missing THEN db.table[k][read.at]
                                      ELSE read.got[k]]
<1>1. /\ read'.status = "done" /\ read'.keys = read.keys /\ read'.at = 0
      /\ read'.got = got /\ read'.missing = {}
    BY Zenon DEF ReadStore
<1>2. /\ UNCHANGED <<db, queue, writer, write_err, poisoned, block_ptr, front, request,
                     stopper, accepted>>
      /\ Written' = Written
    BY Zenon DEF ReadStore, errVars, Written
<1>3. ASSUME writer \notin Dead PROVE Chain' /\ Follows' /\ Scanned' /\ ReadsSeeOwnWrites'
  <2>1. Chain'
      BY <1>2, <1>3, Zenon DEF QueueInv, Chain
  <2>2. Follows'
      BY <1>2, <1>3, Zenon DEF QueueInv, Follows
  <2>3. Scanned'
      BY <1>1, Zenon DEF Scanned
  <2>4. ReadsSeeOwnWrites'
      BY <1>1, <1>2, <1>3, Zenon DEF QueueInv, ReadStore, Scanned, ReadsSeeOwnWrites
  <2> QED BY <2>1, <2>2, <2>3, <2>4, Zenon
<1>4. ReadTypeOK'
  <2>1. db.table \in [Keys -> [Blocks -> Versions]]
      BY Zenon DEF QueueInv, TypeOK, StoreTypeOK, Deployments, Tables
  <2>2. got \in [read.keys -> Versions]
      BY <2>1, Zenon DEF QueueInv, TypeOK, ReadTypeOK
  <2>3. 0 \in Blocks
      BY TablesAssumption DEF Blocks
  <2> HIDE DEF got
  <2> QED BY <1>1, <2>2, <2>3, Zenon DEF QueueInv, TypeOK, ReadTypeOK
<1>5. TypeOK'
    BY <1>2, <1>4, Zenon DEF QueueInv, TypeOK, StoreTypeOK, QueueTypeOK, Dead
<1> QED BY <1>2, <1>3, <1>5, Zenon DEF QueueInv, Settled, CheckErrOK, Dead

(* Steps that only move the runner, the instance manager or the error.     *)
LEMMA ControlInv ==
    ASSUME QueueInv, flush \/ FinishFlush \/ stop \/ Peek
    PROVE  QueueInv'
<1>1. UNCHANGED <<db, queue, block_ptr, request, read, accepted>> /\ Written' = Written
    BY Zenon DEF flush, FinishFlush, stop, Peek, Written
<1>2. TypeOK'
  <2>1. StoreTypeOK' /\ ReadTypeOK'
      BY <1>1, Zenon DEF QueueInv, TypeOK, StoreTypeOK, ReadTypeOK
  <2>2. write_err' \in BOOLEAN /\ poisoned' \in BOOLEAN
      BY Zenon DEF flush, FinishFlush, stop, Peek, errVars, check_err, QueueInv, TypeOK, QueueTypeOK
  <2>3. QueueTypeOK'
      BY <1>1, <2>2, Zenon DEF flush, FinishFlush, stop, Peek, QueueInv, TypeOK, QueueTypeOK, Dead
  <2> QED BY <2>1, <2>3, Zenon DEF TypeOK
<1>3. writer' \in Dead <=> writer \in Dead
    BY Zenon DEF flush, FinishFlush, stop, Peek, Dead
<1>4. (~CheckErrOK => writer \in Dead)'
    BY <1>3, Zenon DEF QueueInv, CheckErrOK, flush, FinishFlush, stop, Peek, errVars, check_err
<1>5. ASSUME writer \notin Dead PROVE Chain' /\ Follows' /\ Scanned' /\ ReadsSeeOwnWrites'
  <2>1. Chain'
    <3>1. writer' = writer \/ (writer = "idle" /\ writer' = "executing" /\ queue # << >>)
        BY Zenon DEF flush, FinishFlush, stop, Peek
    <3> QED BY <1>1, <1>5, <3>1, Zenon DEF QueueInv, Chain
  <2>2. front = "pushing" <=> front' = "pushing"
      BY Zenon DEF flush, FinishFlush, stop, Peek, Idle
  <2>3. Follows'
      BY <1>1, <1>5, <2>2, Zenon DEF QueueInv, Follows
  <2>4. Scanned'
    <3>1. read.status = "scanned" => front = "idle"
        BY <1>5, Zenon DEF QueueInv, Scanned
    <3>2. read.status = "scanned" => front' = "idle"
        BY <3>1, Zenon DEF flush, FinishFlush, stop, Peek, Idle
    <3> QED BY <1>1, <1>5, <3>2, Zenon DEF QueueInv, Scanned
  <2>5. ReadsSeeOwnWrites'
      BY <1>1, <1>5, Zenon DEF QueueInv, ReadsSeeOwnWrites
  <2> QED BY <2>1, <2>3, <2>4, <2>5, Zenon
<1> QED BY <1>1, <1>2, <1>3, <1>4, <1>5, Zenon DEF QueueInv, Settled

(* Once the writer has failed, only the types and the database matter.     *)
LEMMA DeadInv ==
    ASSUME QueueInv, RecordErr \/ Poison \/ Clear
    PROVE  QueueInv'
<1>1. UNCHANGED <<db, block_ptr, front, request, read, stopper, accepted>>
    BY Zenon DEF RecordErr, Poison, Clear
<1>2. writer \in Dead /\ writer' \in Dead
    BY Zenon DEF RecordErr, Poison, Clear, Dead
<1>3. queue' \in Seq(Requests) /\ Len(queue') <= Capacity
  <2>1. queue \in Seq(Requests) /\ Len(queue) <= Capacity /\ Len(queue) \in Nat
      BY DEF QueueInv, TypeOK, QueueTypeOK
  <2>2. CASE queue' = queue
      BY <2>1, <2>2, Zenon
  <2>3. CASE queue # << >> /\ queue' = Tail(queue)
      BY <2>1, <2>3, QueueAssumption
  <2> QED BY <2>2, <2>3, Zenon DEF RecordErr, Poison, Clear
<1>4. write_err' \in BOOLEAN /\ poisoned' \in BOOLEAN
    BY Zenon DEF RecordErr, Poison, Clear, errVars, QueueInv, TypeOK, QueueTypeOK
<1>5. TypeOK'
    BY <1>1, <1>2, <1>3, <1>4, Zenon DEF QueueInv, TypeOK, StoreTypeOK, QueueTypeOK, ReadTypeOK
<1> QED BY <1>1, <1>2, <1>5, Zenon DEF QueueInv, Settled

(* While the writer is executing, the head of the queue fits the database. *)
LEMMA Executing ==
    ASSUME QueueInv, writer = "executing"
    PROVE  /\ TypeOK /\ Chain
           /\ Len(queue) \in Nat \ {0} /\ Head(queue) = queue[1]
           /\ queue[1] \in Requests /\ accepted[1] \in Deployments
           /\ db = accepted[1] /\ Accepts(db, Head(queue))
           /\ accepted[2] = Apply(db, Head(queue)) /\ Settled(accepted[2])
           /\ accepted[2] \in Deployments
<1>1. TypeOK /\ Chain
    BY Zenon DEF QueueInv, Dead
<1>2. queue # << >> /\ queue \in Seq(Requests)
    BY <1>1, Zenon DEF Chain, TypeOK, QueueTypeOK
<1>3. Len(queue) \in Nat \ {0} /\ Head(queue) = queue[1]
    BY <1>2
<1>4. 1 \in 1..Len(queue) /\ 1 \in 1..(Len(queue) + 1) /\ 2 \in 1..(Len(queue) + 1) /\ 1 + 1 = 2
    BY <1>3
<1>5. db = accepted[1]
    BY <1>1, Zenon DEF Chain
<1>6. Accepts(accepted[1], queue[1]) /\ accepted[2] = Apply(accepted[1], queue[1])
    BY <1>1, <1>4, Zenon DEF Chain
<1> QED BY <1>1, <1>3, <1>4, <1>5, <1>6, QueuedBlock, AcceptedDeployment, Zenon

(* The commit of the request at the front keeps the invariant.             *)
LEMMA ExecuteInv == ASSUME QueueInv, Execute PROVE QueueInv'
<1>1. /\ writer = "executing" /\ writer' = "executed" /\ db' = accepted[2]
      /\ UNCHANGED <<queue, block_ptr, front, request, read, accepted>> /\ Written' = Written
    BY Executing, Zenon DEF Execute, Commit, Written
<1>2. /\ TypeOK /\ Chain /\ Len(queue) \in Nat \ {0} /\ accepted[2] \in Deployments
      /\ Settled(accepted[2])
    BY <1>1, Executing, Zenon
<1>3. TypeOK'
  <2>1. StoreTypeOK' /\ ReadTypeOK'
      BY <1>1, <1>2, Zenon DEF TypeOK, StoreTypeOK, ReadTypeOK
  <2>2. QueueTypeOK'
      BY <1>2, Zenon DEF Execute, TypeOK, QueueTypeOK, errVars
  <2> QED BY <2>1, <2>2, Zenon DEF TypeOK
<1>4. Chain'
    BY <1>1, <1>2, Zenon DEF Chain
<1>5. Follows'
    BY <1>1, Zenon DEF QueueInv, Follows, Dead
<1>6. Scanned'
  <2>1. SUFFICES ASSUME read.status = "scanned", NEW k \in read.keys, k \in read.missing
                 PROVE  db'.table[k][read.at] = db.table[k][read.at]
      BY <1>1, Zenon DEF QueueInv, Scanned, Dead
  <2>2. k \in Keys /\ read.at \in Blocks
      BY <1>2, Zenon DEF TypeOK, ReadTypeOK
  <2>3. 1 \in 1..Len(queue)
      BY <1>2
  <2>4. read.at <= Unaffected(queue[1])
      BY <1>1, <2>1, <2>3, Zenon DEF QueueInv, Scanned, Dead
  <2>5. /\ db \in Deployments /\ queue[1] \in Requests
        /\ db' = Apply(db, queue[1])
      BY <1>1, Executing, Zenon
  <2> QED BY <2>2, <2>4, <2>5, ApplyBelow, Zenon
<1>7. ReadsSeeOwnWrites'
    BY <1>1, Zenon DEF QueueInv, ReadsSeeOwnWrites, Dead
<1>8. (~CheckErrOK => writer \in Dead)'
    BY <1>1, Zenon DEF QueueInv, CheckErrOK, Execute, errVars, Dead
<1> QED BY <1>1, <1>2, <1>3, <1>4, <1>5, <1>6, <1>7, <1>8, Zenon DEF QueueInv, Settled, Dead

(* The failure of the writer keeps the invariant.                          *)
LEMMA ExecuteFailsInv == ASSUME QueueInv, ExecuteFails PROVE QueueInv'
<1>1. /\ writer = "executing" /\ writer' = "failed" /\ writer' \in Dead
      /\ UNCHANGED <<queue, block_ptr, front, request, read, stopper, write_err, poisoned>>
    BY Zenon DEF ExecuteFails, errVars, Dead
<1>2. /\ TypeOK /\ Chain /\ accepted \in Seq(Deployments) /\ Len(accepted) \in Nat
      /\ Len(accepted) >= 2
    BY <1>1, Executing DEF Chain, TypeOK, StoreTypeOK
<1>3. /\ accepted' \in Seq(Deployments) /\ accepted' # << >> /\ db' = accepted'[1]
      /\ db' \in Deployments /\ Settled(db')
  <2>1. CASE UNCHANGED <<db, accepted>>
      BY <2>1, <1>1, <1>2, Executing, Zenon DEF QueueInv, TypeOK, StoreTypeOK
  <2>2. CASE Commit(Head(queue)) /\ accepted' = Tail(accepted)
    <3>1. db' = accepted[2] /\ accepted[2] \in Deployments /\ Settled(accepted[2])
        BY <2>2, <1>1, Executing, Zenon DEF Commit
    <3>2. accepted' \in Seq(Deployments) /\ Len(accepted') >= 1 /\ accepted'[1] = accepted[2]
        BY <2>2, <1>2
    <3> QED BY <3>1, <3>2
  <2> QED BY <2>1, <2>2, Zenon DEF ExecuteFails
<1>4. TypeOK'
    BY <1>1, <1>2, <1>3, Zenon DEF TypeOK, StoreTypeOK, QueueTypeOK, ReadTypeOK
<1> QED BY <1>1, <1>3, <1>4, Zenon DEF QueueInv, Settled

(* The removal of the committed request keeps the invariant.               *)
LEMMA PopInv == ASSUME QueueInv, Pop PROVE QueueInv'
<1> DEFINE n == Len(queue)
<1>1. /\ writer = "executed" /\ writer' \in {"idle", "stopped"}
      /\ writer \notin Dead /\ writer' \notin Dead
      /\ UNCHANGED <<db, block_ptr, front, request, read, write_err, poisoned>>
      /\ queue' = Tail(queue) /\ accepted' = Tail(accepted)
    BY Zenon DEF Pop, errVars, Dead
<1>2. /\ TypeOK /\ Chain /\ queue \in Seq(Requests) /\ accepted \in Seq(Deployments)
      /\ n \in Nat \ {0} /\ Len(accepted) = n + 1 /\ n <= Capacity /\ db = accepted[2]
    BY <1>1 DEF QueueInv, TypeOK, StoreTypeOK, QueueTypeOK, Chain
<1>3. /\ queue' \in Seq(Requests) /\ Len(queue') = n - 1
      /\ \A i \in 1..(n - 1) : queue'[i] = queue[i + 1]
    BY <1>1, <1>2
<1>4. /\ accepted' \in Seq(Deployments) /\ Len(accepted') = n /\ accepted' # << >>
      /\ \A i \in 1..n : accepted'[i] = accepted[i + 1]
    BY <1>1, <1>2
<1>5. Written' = Written
    BY <1>2, <1>4 DEF Written
<1>6. \A i \in 1..(n - 1) : /\ i \in 1..n /\ i + 1 \in 1..n
                            /\ i + 1 \in 1..(n + 1) /\ i + 2 = (i + 1) + 1
    BY <1>2
<1> HIDE DEF n
<1>7. TypeOK'
  <2>1. Len(queue') <= Capacity
      BY <1>2, <1>3, QueueAssumption
  <2>2. StoreTypeOK' /\ ReadTypeOK'
      BY <1>1, <1>2, <1>4, Zenon DEF TypeOK, StoreTypeOK, ReadTypeOK
  <2>3. QueueTypeOK'
      BY <1>1, <1>2, <1>3, <2>1, Zenon DEF Pop, TypeOK, QueueTypeOK
  <2> QED BY <2>2, <2>3 DEF TypeOK
<1>8. Chain'
  <2>1. \A i \in 1..(n - 1) : /\ Accepts(accepted'[i], queue'[i])
                              /\ accepted'[i + 1] = Apply(accepted'[i], queue'[i])
    <3>1. SUFFICES ASSUME NEW i \in 1..(n - 1)
                   PROVE  /\ Accepts(accepted'[i], queue'[i])
                          /\ accepted'[i + 1] = Apply(accepted'[i], queue'[i])
        BY Zenon
    <3>2. /\ Accepts(accepted[i + 1], queue[i + 1])
          /\ accepted[(i + 1) + 1] = Apply(accepted[i + 1], queue[i + 1])
        BY <1>2, <1>6, Zenon DEF Chain, n
    <3>3. /\ accepted'[i] = accepted[i + 1] /\ queue'[i] = queue[i + 1]
          /\ accepted'[i + 1] = accepted[(i + 1) + 1]
        BY <1>3, <1>4, <1>6, Zenon
    <3> QED BY <3>2, <3>3, Zenon
  <2>2. \A i \in 1..n : Settled(accepted'[i])
    <3>1. SUFFICES ASSUME NEW i \in 1..n PROVE Settled(accepted'[i])
        BY Zenon
    <3>2. i + 1 \in 1..(n + 1)
        BY <1>2
    <3>3. Settled(accepted[i + 1])
        BY <1>2, <3>2, Zenon DEF Chain
    <3> QED BY <1>4, <3>3, Zenon
  <2>3. db' = accepted'[1]
      BY <1>1, <1>2, <1>4
  <2>4. Len(accepted') = Len(queue') + 1
      BY <1>2, <1>3, <1>4
  <2>5. writer' \notin {"executing", "executed"}
      BY <1>1, Zenon
  <2> QED BY <1>3, <1>4, <2>1, <2>2, <2>3, <2>4, <2>5, Zenon DEF Chain
<1>9. Follows' /\ ReadsSeeOwnWrites'
    BY <1>1, <1>5, Zenon DEF QueueInv, Follows, ReadsSeeOwnWrites
<1>10. Scanned'
  <2>1. SUFFICES ASSUME read.status = "scanned", NEW i \in 1..(n - 1)
                 PROVE  read.at <= Unaffected(queue'[i])
      BY <1>1, <1>3, <1>5, Zenon DEF QueueInv, Scanned
  <2>2. i + 1 \in 1..Len(queue) /\ queue'[i] = queue[i + 1]
      BY <1>3, <1>6, Zenon DEF n
  <2> QED BY <1>1, <2>1, <2>2, Zenon DEF QueueInv, Scanned
<1> QED BY <1>1, <1>7, <1>8, <1>9, <1>10, Zenon DEF QueueInv, Settled, CheckErrOK

-----------------------------------------------------------------------------
(* Every step keeps the invariant.                                         *)
LEMMA NextInv == ASSUME QueueInv, [Next]_queueVars PROVE QueueInv'
<1>1. ASSUME NEW n \in Blocks, NEW m \in Batches, transact_block_operations(n, m)
      PROVE  QueueInv'
    BY <1>1, TransactInv, Zenon
<1>2. ASSUME NEW n \in Blocks, revert_block_operations(n) PROVE QueueInv'
    BY <1>2, RevertInv, Zenon
<1>3. ASSUME NEW K \in (SUBSET Keys) \ {{}}, Scan(K) PROVE QueueInv'
    BY <1>3, ScanInv, Zenon
<1>4. CASE UNCHANGED queueVars
  <2>1. UNCHANGED <<db, queue, writer, write_err, poisoned, block_ptr, front, request, read,
                    stopper, accepted>>
      BY <1>4, Zenon DEF queueVars
  <2>2. TypeOK' = TypeOK /\ Settled(db)' = Settled(db) /\ CheckErrOK' = CheckErrOK
      BY <2>1, Zenon DEF TypeOK, StoreTypeOK, QueueTypeOK, ReadTypeOK, Settled, CheckErrOK
  <2>3. /\ Chain' = Chain /\ Follows' = Follows /\ Scanned' = Scanned
        /\ ReadsSeeOwnWrites' = ReadsSeeOwnWrites
      BY <2>1 DEF Chain, Follows, Scanned, ReadsSeeOwnWrites, Written, Settled
  <2> QED BY <2>1, <2>2, <2>3, Zenon DEF QueueInv
<1> QED BY <1>1, <1>2, <1>3, <1>4, FinishPushInv, ReadStoreInv, ControlInv, FinishStopInv,
           ExecuteInv, ExecuteFailsInv, PopInv, DeadInv, RestartInv
        DEF Next, Runner, Writer

(* The background writer never makes a read wrong: as long as it has not   *)
(* failed, what get and get_many return is what the runner last wrote.     *)
THEOREM ReadsAreConsistent == Spec => [](TypeOK /\ ReadsSeeOwnWrites)
<1>1. QueueInv => TypeOK /\ ReadsSeeOwnWrites
    BY Zenon DEF QueueInv, ReadsSeeOwnWrites
<1> QED BY <1>1, InitInv, NextInv, PTL DEF Spec

(* The database never refuses what the runner queued, and once the queue   *)
(* is empty it has the head that the runner was told.                      *)
THEOREM DatabaseFollowsRunner == Spec => [](NeverRefused /\ HeadCatchesUp)
<1>1. QueueInv => NeverRefused
    BY Executing, Zenon DEF NeverRefused
<1>2. QueueInv => HeadCatchesUp
  <2>1. SUFFICES ASSUME QueueInv, queue = << >>, front = "idle", writer \notin Dead
                 PROVE  block_ptr = db.ptr
      BY Zenon DEF HeadCatchesUp
  <2>2. Chain /\ block_ptr = Written.ptr
      BY <2>1, Zenon DEF QueueInv, Follows
  <2>3. Len(accepted) = 1 /\ db = accepted[1]
      BY <2>1, <2>2 DEF Chain
  <2> QED BY <2>2, <2>3, Zenon DEF Written
<1> QED BY <1>1, <1>2, InitInv, NextInv, PTL DEF Spec

-----------------------------------------------------------------------------
(* The pipelined store implements the abstract one.                        *)

(* A new store is an abstract store with one version.                      *)
LEMMA RefineInit == Init => Store!StoreInit
BY DEF Init, Store!StoreInit, Store!NewDeployment, Store!Blocks, NewDeployment, Blocks,
       Promised, Answer, Failed, NoRead, Dead

(* The last state promised is what the runner wrote.                       *)
LEMMA PromisedLast ==
    ASSUME QueueInv
    PROVE  /\ Promised \in Seq(Deployments) /\ Len(Promised) >= 1
           /\ Promised[1] = db
           /\ Promised[Len(Promised)] = Written
           /\ writer = "executing" => Len(Promised) > 1
           /\ \A d : Promised # accepted =>
                  Tail(Append(accepted, d)) = Append(Promised, d)
<1>1. accepted \in Seq(Deployments) /\ Len(accepted) \in Nat /\ Len(accepted) >= 1
    BY DEF QueueInv, TypeOK, StoreTypeOK
<1>2. CASE writer = "executed"
  <2>1. Chain /\ queue # << >> /\ queue \in Seq(Requests)
      BY <1>2, Zenon DEF QueueInv, Dead, Chain, TypeOK, QueueTypeOK
  <2>2. Len(accepted) >= 2 /\ db = accepted[2]
      BY <1>1, <1>2, <2>1 DEF Chain
  <2>3. Promised = Tail(accepted)
      BY <1>2, Zenon DEF Promised
  <2>4. /\ Promised \in Seq(Deployments) /\ Len(Promised) = Len(accepted) - 1
        /\ \A i \in 1..(Len(accepted) - 1) : Promised[i] = accepted[i + 1]
      BY <1>1, <2>2, <2>3
  <2>5. \A d : Tail(Append(accepted, d)) = Append(Promised, d)
      BY <1>1, <2>2, <2>3
  <2> QED BY <1>1, <1>2, <2>2, <2>4, <2>5 DEF Written
<1>3. CASE writer # "executed"
  <2>1. Promised = accepted
      BY <1>3, Zenon DEF Promised
  <2>2. db = accepted[1]
      BY <1>3, Zenon DEF QueueInv, Chain
  <2>3. writer = "executing" => Len(accepted) > 1
      BY <1>1, Executing DEF Chain
  <2> QED BY <1>1, <2>1, <2>2, <2>3, Zenon DEF Written
<1> QED BY <1>2, <1>3, Zenon

(* A push adds one state to those promised.                                *)
LEMMA PromisedPush ==
    ASSUME QueueInv, writer \notin Dead, NEW req, Enqueue(req), UNCHANGED writer
    PROVE  Promised' = Append(Promised, Apply(Written, req))
<1>1. accepted' = Append(accepted, Apply(Written, req))
    BY Zenon DEF Enqueue, Written
<1>2. CASE writer = "executed"
  <2>1. Promised' = Tail(Append(accepted, Apply(Written, req)))
      BY <1>1, <1>2, Zenon DEF Promised
  <2>2. Promised # accepted
    <3>1. accepted \in Seq(Deployments) /\ accepted # << >>
        BY Zenon DEF QueueInv, TypeOK, StoreTypeOK
    <3>2. Promised = Tail(accepted) /\ Len(Tail(accepted)) = Len(accepted) - 1 /\ Len(accepted) \in Nat
        BY <1>2, <3>1 DEF Promised
    <3> QED BY <3>2
  <2> QED BY <2>1, <2>2, PromisedLast, Zenon
<1>3. CASE writer # "executed"
    BY <1>1, <1>3, Zenon DEF Promised
<1> QED BY <1>2, <1>3, Zenon

(* Steps that leave the promised states alone, and the answer or not.      *)
LEMMA RefineQuiet ==
    ASSUME UNCHANGED Promised, Failed' <=> Failed, UNCHANGED Answer \/ Answer' = << >>
    PROVE  [Store!StoreNext]_Store!storeVars
<1>1. Failed' = Failed
  <2>1. Failed \in BOOLEAN /\ Failed' \in BOOLEAN
      BY DEF Failed
  <2> QED BY <2>1, Zenon
<1>2. CASE UNCHANGED Answer
    BY <1>1, <1>2, Zenon DEF Store!storeVars
<1>3. CASE Answer' = << >>
    BY <1>1, <1>3, Zenon DEF Store!StoreNext, Store!Forget
<1> QED BY <1>2, <1>3, Zenon

(* A push that gets its place is a Write or a RevertTo.                    *)
LEMMA RefinePush ==
    ASSUME QueueInv, FinishPush
    PROVE  [Store!StoreNext]_Store!storeVars
<1>1. Answer' = << >> /\ (Failed' <=> Failed) /\ UNCHANGED writer /\ Enqueue(request)
    BY NoReadFields, Zenon DEF FinishPush, Answer, Failed
<1>2. CASE writer \in Dead
  <2>1. UNCHANGED Promised
      BY <1>1, <1>2, Zenon DEF Promised, Enqueue
  <2> QED BY <1>1, <2>1, RefineQuiet, Zenon
<1>3. CASE writer \notin Dead
  <2>1. Promised' = Append(Promised, Apply(Written, request))
      BY <1>1, <1>3, PromisedPush, Zenon
  <2>2. /\ request \in Requests /\ request.op \in {"Write", "RevertTo"}
        /\ request.block \in Blocks /\ Accepts(Written, request)
        /\ request.op = "Write" => request.mods \in Batches
        /\ Written = Promised[Len(Promised)]
        /\ Written.ptr \in Nat /\ request.block \in Nat
    <3>1. /\ request \in Requests /\ request.op # "Stop" /\ Accepts(Written, request)
        BY <1>3, Zenon DEF QueueInv, TypeOK, QueueTypeOK, Follows, FinishPush
    <3>2. Written \in Deployments
        BY PromisedLast
    <3> QED BY <3>1, <3>2, PromisedLast, TablesAssumption DEF Requests, Deployments, Blocks
  <2>3. Failed' = Failed
      BY <1>1, Zenon DEF Failed
  <2>4. CASE request.op = "Write"
    <3>1. Promised' = Append(Promised, WriteAt(Written, request.block, request.mods))
        BY <2>1, <2>4, Zenon DEF Apply
    <3>2. request.block > Written.ptr
        BY <2>2, <2>4, Zenon DEF Accepts
    <3>3. Store!WriteAt(Written, request.block, request.mods)
             = WriteAt(Written, request.block, request.mods)
        BY Zenon DEF Store!WriteAt, WriteAt, Store!Blocks, Blocks
    <3>4. Store!Write(request.block, request.mods)
        BY <1>1, <2>2, <2>3, <3>1, <3>2, <3>3, Zenon DEF Store!Write, Store!Visible
    <3> QED BY <2>2, <2>4, <3>4, Zenon DEF Store!StoreNext, Store!Blocks, Blocks
  <2>5. CASE request.op = "RevertTo"
    <3>1. Promised' = Append(Promised, RevertAt(Written, request.block))
        BY <2>1, <2>5, Zenon DEF Apply
    <3>2. request.block < Written.ptr
        BY <2>2, <2>5, Zenon DEF Accepts
    <3>3. Store!RevertAt(Written, request.block) = RevertAt(Written, request.block)
        BY Zenon DEF Store!RevertAt, RevertAt, Store!Blocks, Blocks
    <3>4. Store!RevertTo(request.block)
        BY <1>1, <2>2, <2>3, <3>1, <3>2, <3>3, Zenon DEF Store!RevertTo, Store!Visible
    <3> QED BY <2>2, <3>4, Zenon DEF Store!StoreNext, Store!Blocks, Blocks
  <2> QED BY <2>2, <2>4, <2>5, Zenon
<1> QED BY <1>2, <1>3, Zenon

(* The Stop request is a Mark.                                             *)
LEMMA RefineStop ==
    ASSUME QueueInv, FinishStop
    PROVE  [Store!StoreNext]_Store!storeVars
<1>1. UNCHANGED Answer /\ (Failed' <=> Failed) /\ UNCHANGED writer /\ Enqueue(StopRequest)
    BY Zenon DEF FinishStop, Answer, Failed
<1>2. CASE writer \in Dead
  <2>1. UNCHANGED Promised
      BY <1>1, <1>2, Zenon DEF Promised, Enqueue
  <2> QED BY <1>1, <2>1, RefineQuiet, Zenon
<1>3. CASE writer \notin Dead
  <2>1. Apply(Written, StopRequest) = Written
      BY Zenon DEF Apply, StopRequest
  <2>2. Promised' = Append(Promised, Promised[Len(Promised)])
      BY <1>1, <1>3, <2>1, PromisedPush, PromisedLast, Zenon
  <2>3. Failed' = Failed
      BY <1>1, Zenon DEF Failed
  <2> QED BY <1>1, <2>2, <2>3, Zenon DEF Store!StoreNext, Store!Mark, Store!Visible
<1> QED BY <1>2, <1>3

(* The end of a read is a Read.                                            *)
LEMMA RefineRead ==
    ASSUME QueueInv, QueueInv', ReadStore
    PROVE  [Store!StoreNext]_Store!storeVars
<1>1. /\ UNCHANGED <<Promised, writer, accepted>> /\ Answer' = read'.got
      /\ read'.keys = read.keys /\ read'.status = "done"
    BY Zenon DEF ReadStore, Promised, Answer
<1>2. Failed' = Failed
    BY <1>1, Zenon DEF Failed
<1>3. read'.got \in [read.keys -> Versions] /\ read.keys \in SUBSET Keys
    BY <1>1, Zenon DEF QueueInv, TypeOK, ReadTypeOK
<1>4. ASSUME ~Failed
      PROVE  read'.got = [k \in read.keys |-> Promised[Len(Promised)].table[k][MaxBlock]]
  <2>1. \A k \in read.keys : read'.got[k] = Written'.table[k][MaxBlock]
      BY <1>1, <1>4, Zenon DEF QueueInv, ReadsSeeOwnWrites, Failed
  <2>2. Written' = Written
      BY <1>1, Zenon DEF Written
  <2> QED BY <1>3, <2>1, <2>2, PromisedLast, Zenon
<1>5. Store!Read(read.keys)
    BY <1>1, <1>2, <1>3, <1>4, Zenon DEF Store!Read, Store!Visible, Store!Versions, Versions
<1> QED BY <1>3, <1>5, Zenon DEF Store!StoreNext

(* A commit is a Persist, a failure a Fail, a restart a Recover.           *)
LEMMA RefineWriter ==
    ASSUME QueueInv, Execute \/ ExecuteFails \/ Pop \/ Restart
    PROVE  [Store!StoreNext]_Store!storeVars
<1>1. CASE Execute
  <2>1. Promised' = Tail(Promised) /\ UNCHANGED Answer
      BY <1>1, Zenon DEF Execute, Promised, Answer
  <2>2. Failed' = Failed
      BY <1>1 DEF Execute, Failed, Dead
  <2>3. Len(Promised) > 1
      BY <1>1, PromisedLast, Zenon DEF Execute
  <2> QED BY <2>1, <2>2, <2>3, Zenon DEF Store!StoreNext, Store!Persist
<1>2. CASE ExecuteFails
  <2>1. Promised = accepted /\ Promised' = accepted' /\ UNCHANGED Answer
      BY <1>2, Zenon DEF ExecuteFails, Promised, Answer
  <2>2. accepted' = accepted \/ accepted' = Tail(accepted)
      BY <1>2, Zenon DEF ExecuteFails
  <2>3. ~Failed /\ Failed' = TRUE
      BY <1>2, Zenon DEF ExecuteFails, Failed, Dead
  <2>4. Len(Promised) > 1
      BY <1>2, PromisedLast, Zenon DEF ExecuteFails
  <2> QED BY <2>1, <2>2, <2>3, <2>4, Zenon DEF Store!StoreNext, Store!Fail
<1>3. CASE Pop
  <2>1. UNCHANGED Promised /\ UNCHANGED Answer
      BY <1>3, Zenon DEF Pop, Promised, Answer
  <2>2. Failed' <=> Failed
      BY <1>3, Zenon DEF Pop, Failed, Dead
  <2> QED BY <2>1, <2>2, RefineQuiet, Zenon
<1>4. CASE Restart
  <2>1. Promised' = <<db>> /\ Answer' = << >>
      BY <1>4, NoReadFields, Zenon DEF Restart, Promised, Answer
  <2>2. Failed' = FALSE
      BY <1>4 DEF Restart, Failed, Dead
  <2> QED BY <2>1, <2>2, PromisedLast, Zenon DEF Store!StoreNext, Store!Recover
<1> QED BY <1>1, <1>2, <1>3, <1>4, Zenon

(* Every step is a step of the abstract store, or a stutter.               *)
LEMMA RefineStep ==
    ASSUME QueueInv, QueueInv', [Next]_queueVars
    PROVE  [Store!StoreNext]_Store!storeVars
<1>1. ASSUME NEW req, Idle, StartPush(req) PROVE [Store!StoreNext]_Store!storeVars
  <2>1. UNCHANGED Promised /\ (Failed' <=> Failed)
      BY <1>1, Zenon DEF StartPush, Promised, Failed
  <2>2. UNCHANGED Answer \/ Answer' = << >>
      BY <1>1, NoReadFields, Zenon DEF StartPush, Answer
  <2> QED BY <2>1, <2>2, RefineQuiet, Zenon
<1>2. ASSUME NEW K, Scan(K) PROVE [Store!StoreNext]_Store!storeVars
  <2>1. UNCHANGED Promised /\ (Failed' <=> Failed)
      BY <1>2, Zenon DEF Scan, Promised, Failed
  <2>2. Answer' = << >>
      BY <1>2, Zenon DEF Scan, Answer
  <2> QED BY <2>1, <2>2, RefineQuiet, Zenon
<1>3. CASE flush \/ FinishFlush \/ stop \/ Peek \/ RecordErr \/ Poison \/ Clear
  <2>1. UNCHANGED Promised /\ UNCHANGED Answer
      BY <1>3, Zenon DEF flush, FinishFlush, stop, Peek, RecordErr, Poison, Clear, Promised, Answer
  <2>2. Failed' <=> Failed
      BY <1>3, Zenon DEF flush, FinishFlush, stop, Peek, RecordErr, Poison, Clear, Failed, Dead
  <2> QED BY <2>1, <2>2, RefineQuiet, Zenon
<1>4. CASE UNCHANGED queueVars
  <2>1. UNCHANGED Promised /\ UNCHANGED Answer /\ (Failed' <=> Failed)
      BY <1>4, Zenon DEF queueVars, Promised, Answer, Failed
  <2> QED BY <2>1, RefineQuiet, Zenon
<1> QED BY <1>1, <1>2, <1>3, <1>4, RefinePush, RefineStop, RefineRead, RefineWriter, Zenon
        DEF Next, Runner, Writer, transact_block_operations, revert_block_operations

(* The pipelined WritableStore is a correct implementation of a store that *)
(* applies each write before the call returns and may lose the most recent *)
(* ones in a crash: the step simulation behind Writer::Async standing in   *)
(* for Writer::Sync.                                                       *)
THEOREM PipelineImplementsStore == Spec => ImplementsWriteBehind
<1>1. Spec => []QueueInv
    BY InitInv, NextInv, PTL DEF Spec
<1> QED BY <1>1, RefineInit, RefineStep, PTL DEF Spec, ImplementsWriteBehind, Store!StoreSpec

=============================================================================
