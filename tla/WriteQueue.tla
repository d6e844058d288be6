------------------------------ MODULE WriteQueue ------------------------------
(***************************************************************************)
(* The pipelined WritableStore of graph-node, store/postgres/writable.rs:  *)
(* the subgraph runner hands over the changes of a block, or a revert, and *)
(* a background writer applies them to the database.  Reads combine the    *)
(* queue with the database.                                                *)
(*                                                                         *)
(* Processes: the runner (front), which is sequential; the background      *)
(* writer; and the instance manager, which may stop the store.  Any of     *)
(* them may be preempted between taking a lock and taking the next one.    *)
(* A retry while the database is unavailable changes nothing; the writer   *)
(* just stays in "executing".                                              *)
(***************************************************************************)
EXTENDS EntityTables

CONSTANTS
    Capacity,     \* GRAPH_STORE_WRITE_QUEUE
    MaxRequests,  \* bound on calls that write or revert
    MaxFailures,  \* bound on database errors that are not retried
    MaxRestarts,  \* bound on restarts of the store
    StopAllowed   \* does the instance manager stop the store?

ASSUME QueueAssumption ==
    /\ Capacity \in Nat \ {0}
    /\ MaxRequests \in Nat /\ MaxFailures \in Nat /\ MaxRestarts \in Nat
    /\ StopAllowed \in BOOLEAN

VARIABLES
    db,         \* the deployment in the database
    queue,      \* pending requests, oldest first
    writer,     \* where the background writer is
    write_err,  \* write_err holds an error
    poisoned,
    block_ptr,  \* WritableStore.block_ptr, the head as the runner knows it
    front,      \* what the runner is doing: "idle", "pushing" or "flushing"
    request,    \* the request the runner is pushing
    read,       \* the read the runner is doing
    stopper,    \* where the instance manager's call of stop is
    accepted,   \* ghost: the deployment before the first queued request,
                \* and after each queued request
    requests, failures, restarts

errVars == <<write_err, poisoned>>
bounds == <<requests, failures, restarts>>
queueVars == <<db, queue, writer, write_err, poisoned, block_ptr, front,
               request, read, stopper, accepted, bounds>>

-----------------------------------------------------------------------------
(* Requests.                                                               *)

NoMods == [k \in {} |-> None]

WriteRequest(n, m) == [op |-> "Write", block |-> n, mods |-> m]
RevertRequest(n) == [op |-> "RevertTo", block |-> n, mods |-> NoMods]
StopRequest == [op |-> "Stop", block |-> 0, mods |-> NoMods]

(* What executing a request does to a deployment.                          *)
Apply(d, req) ==
    CASE req.op = "Write" -> WriteAt(d, req.block, req.mods)
      [] req.op = "RevertTo" -> RevertAt(d, req.block)
      [] OTHER -> d

(* transact_block goes forward only, revert_block_operations backward.     *)
Accepts(d, req) ==
    /\ req.op = "Write" => d.ptr < req.block
    /\ req.op = "RevertTo" => req.block < d.ptr

(* The states in which the writer has met an error.                        *)
Dead == {"failed", "erring", "clearing", "returned"}

-----------------------------------------------------------------------------
(* BlockTracker, which walks from the newest request to the oldest.        *)

visible_OlderReverts(i) ==
    \A j \in 1..(i - 1) :
        queue[j].op = "RevertTo" => queue[i].block <= queue[j].block

(* No newer request undoes the write of request i.                         *)
visible(i) ==
    \A j \in (i + 1)..Len(queue) :
        queue[j].op = "RevertTo" => queue[i].block <= queue[j].block

(* The last block that request req leaves alone.                           *)
Unaffected(req) ==
    CASE req.op = "Write" -> req.block - 1
      [] req.op = "RevertTo" -> req.block
      [] OTHER -> MaxBlock

QueryBounds == {MaxBlock} \cup {Unaffected(queue[i]) : i \in 1..Len(queue)}

query_block == CHOOSE b \in QueryBounds : \A c \in QueryBounds : b <= c

(* The requests in which find_map would find key k; it takes the newest.   *)
Hits(k) ==
    {i \in 1..Len(queue) :
        queue[i].op = "Write" /\ k \in DOMAIN queue[i].mods /\ visible(i)}

Newest(S) == CHOOSE i \in S : \A j \in S : j <= i

NoRead == [status |-> "none", keys |-> {}, missing |-> {}, at |-> 0, got |-> NoMods]

-----------------------------------------------------------------------------
Init ==
    /\ db = NewDeployment
    /\ block_ptr = db.ptr
    /\ accepted = <<db>>
    /\ queue = << >> /\ writer = "idle"
    /\ write_err = FALSE /\ poisoned = FALSE
    /\ front = "idle" /\ request = StopRequest /\ read = NoRead
    /\ stopper = "none"
    /\ requests = 0 /\ failures = 0 /\ restarts = 0

(* WritableStore::new in a new process, or in place of a poisoned store:   *)
(* everything but the database is lost.                                    *)
Restart ==
    /\ restarts < MaxRestarts
    /\ restarts' = restarts + 1
    /\ block_ptr' = db.ptr
    /\ accepted' = <<db>>
    /\ queue' = << >> /\ writer' = "idle"
    /\ write_err' = FALSE /\ poisoned' = FALSE
    /\ front' = "idle" /\ request' = StopRequest /\ read' = NoRead
    /\ stopper' = "none"
    /\ UNCHANGED <<db, requests, failures>>

-----------------------------------------------------------------------------
(* The runner.  check_err takes the recorded error out of write_err.       *)

CheckErrOK == ~write_err /\ ~poisoned

check_err == write_err' = FALSE /\ UNCHANGED poisoned

Idle == front = "idle" /\ read.status # "scanned"

(* Queue::push up to the wait for a free place.  When it is refused, the   *)
(* runner drops what it has computed for the block.                        *)
StartPush(req) ==
    /\ requests < MaxRequests
    /\ requests' = requests + 1
    /\ check_err
    /\ \/ /\ CheckErrOK
          /\ front' = "pushing"
          /\ request' = req
          /\ UNCHANGED read
       \/ /\ ~CheckErrOK
          /\ read' = NoRead
          /\ UNCHANGED <<front, request>>
    /\ UNCHANGED <<db, queue, writer, stopper, accepted, failures, restarts>>

transact_block_operations(n, m) ==
    /\ Idle
    /\ n > block_ptr
    /\ StartPush(WriteRequest(n, m))
    /\ UNCHANGED block_ptr

revert_block_operations_ToHead(n) ==
    /\ Idle
    /\ n <= block_ptr
    /\ StartPush(RevertRequest(n))
    /\ block_ptr' = n

revert_block_operations(n) ==
    /\ Idle
    /\ n < block_ptr
    /\ StartPush(RevertRequest(n))
    /\ block_ptr' = n

Enqueue(req) ==
    /\ Len(queue) < Capacity
    /\ queue' = Append(queue, req)
    /\ accepted' = IF writer \in Dead THEN accepted
                   ELSE Append(accepted, Apply(accepted[Len(accepted)], req))

FinishPush ==
    /\ front = "pushing"
    /\ Enqueue(request)
    /\ block_ptr' = IF request.op = "Write" THEN request.block ELSE block_ptr
    /\ front' = "idle"
    /\ request' = StopRequest
    /\ read' = NoRead
    /\ UNCHANGED <<db, writer, errVars, stopper, bounds>>

(* get and get_many: the queue is scanned under its lock, then what was    *)
(* not found is looked up in the database as of query_block.               *)
Scan(K) ==
    /\ Idle
    /\ read' = [status |-> "scanned", keys |-> K,
                missing |-> {k \in K : Hits(k) = {}},
                at |-> query_block,
                got |-> [k \in K |-> IF Hits(k) = {} THEN None
                                     ELSE queue[Newest(Hits(k))].mods[k]]]
    /\ UNCHANGED <<db, queue, writer, errVars, block_ptr, front, request,
                   stopper, accepted, bounds>>

ReadStore ==
    /\ read.status = "scanned"
    /\ read' = [status |-> "done", keys |-> read.keys, missing |-> {}, at |-> 0,
                got |-> [k \in read.keys |->
                            IF k \in read.missing THEN db.table[k][read.at]
                            ELSE read.got[k]]]
    /\ UNCHANGED <<db, queue, writer, errVars, block_ptr, front, request, stopper,
                   accepted, bounds>>

flush ==
    /\ Idle
    /\ front' = "flushing"
    /\ UNCHANGED <<db, queue, writer, errVars, block_ptr, request, read,
                   stopper, accepted, bounds>>

FinishFlush ==
    /\ front = "flushing"
    /\ queue = << >>
    /\ check_err
    /\ front' = "idle"
    /\ UNCHANGED <<db, queue, writer, block_ptr, request, read, stopper,
                   accepted, bounds>>

-----------------------------------------------------------------------------
(* The instance manager.                                                   *)

stop ==
    /\ StopAllowed
    /\ stopper = "none"
    /\ check_err
    /\ stopper' = IF CheckErrOK THEN "pushing" ELSE "done"
    /\ UNCHANGED <<db, queue, writer, block_ptr, front, request, read,
                   accepted, bounds>>

FinishStop ==
    /\ stopper = "pushing"
    /\ Enqueue(StopRequest)
    /\ stopper' = "done"
    /\ UNCHANGED <<db, writer, errVars, block_ptr, front, request, read,
                   bounds>>

-----------------------------------------------------------------------------
(* The background writer, start_writer.  It only peeks at the request it   *)
(* executes and pops it when the transaction has been committed.           *)

Peek ==
    /\ writer = "idle"
    /\ queue # << >>
    /\ writer' = "executing"
    /\ UNCHANGED <<db, queue, errVars, block_ptr, front, request, read,
                   stopper, accepted, bounds>>

Commit_PointerOnly(req) ==
    /\ Accepts(db, req)
    /\ db' = [db EXCEPT !.ptr = IF req.op = "Stop" THEN db.ptr ELSE req.block]

Commit(req) ==
    /\ Accepts(db, req)
    /\ db' = Apply(db, req)

Execute ==
    /\ writer = "executing"
    /\ Commit(Head(queue))
    /\ writer' = "executed"
    /\ UNCHANGED <<queue, errVars, block_ptr, front, request, read, stopper,
                   accepted, bounds>>

(* An error ends the writer: the database refuses the request, or fails    *)
(* before or right after the commit.  Stop does not touch the database.    *)
ExecuteFails ==
    /\ writer = "executing"
    /\ Head(queue).op # "Stop"
    /\ \/ /\ failures < MaxFailures
          /\ failures' = failures + 1
          /\ \/ UNCHANGED <<db, accepted>>
             \/ Commit(Head(queue)) /\ accepted' = Tail(accepted)
       \/ /\ ~Accepts(db, Head(queue))
          /\ UNCHANGED <<failures, db, accepted>>
    /\ writer' = "failed"
    /\ UNCHANGED <<queue, errVars, block_ptr, front, request, read, stopper,
                   requests, restarts>>

Pop ==
    /\ writer = "executed"
    /\ queue' = Tail(queue)
    /\ accepted' = Tail(accepted)
    /\ writer' = IF Head(queue).op = "Stop" THEN "stopped" ELSE "idle"
    /\ UNCHANGED <<db, errVars, block_ptr, front, request, read, stopper, bounds>>

(* record_err: write_err, then poisoned, then the queue entry by entry.    *)
RecordErr ==
    /\ writer = "failed"
    /\ write_err' = TRUE
    /\ writer' = "erring"
    /\ UNCHANGED <<db, queue, poisoned, block_ptr, front, request, read,
                   stopper, accepted, bounds>>

Poison ==
    /\ writer = "erring"
    /\ poisoned' = TRUE
    /\ writer' = "clearing"
    /\ UNCHANGED <<db, queue, write_err, block_ptr, front, request, read,
                   stopper, accepted, bounds>>

Clear_NotCleared ==
    /\ writer = "clearing"
    /\ writer' = "returned"
    /\ UNCHANGED <<db, queue, errVars, block_ptr, front, request, read, stopper,
                   accepted, bounds>>

Clear ==
    /\ writer = "clearing"
    /\ \/ /\ queue # << >>
          /\ queue' = Tail(queue)
          /\ UNCHANGED writer
       \/ /\ queue = << >>
          /\ writer' = "returned"
          /\ UNCHANGED queue
    /\ UNCHANGED <<db, errVars, block_ptr, front, request, read, stopper,
                   accepted, bounds>>

-----------------------------------------------------------------------------
Runner ==
    \/ \E n \in Blocks, m \in Batches : transact_block_operations(n, m)
    \/ \E n \in Blocks : revert_block_operations(n)
    \/ FinishPush
    \/ \E K \in (SUBSET Keys) \ {{}} : Scan(K)
    \/ ReadStore
    \/ flush
    \/ FinishFlush

Writer == Peek \/ Execute \/ ExecuteFails \/ Pop \/ RecordErr \/ Poison \/ Clear

Next == Runner \/ stop \/ FinishStop \/ Writer \/ Restart

Spec == Init /\ [][Next]_queueVars

(* The writer and a runner whose call can proceed are tokio tasks that are *)
(* ready to run, so they are eventually scheduled.  A database transaction *)
(* ends, one way or the other.                                             *)
FairSpec ==
    /\ Spec
    /\ WF_queueVars(Writer)
    /\ WF_queueVars(FinishPush)
    /\ WF_queueVars(FinishFlush)

-----------------------------------------------------------------------------
Requests ==
    {req \in [op : {"Write", "RevertTo", "Stop"}, block : Blocks,
              mods : Batches \cup {NoMods}] :
        req.op = "Write" => req.block > 0 /\ req.mods \in Batches}

StoreTypeOK ==
    /\ db \in Deployments /\ block_ptr \in Blocks
    /\ accepted \in Seq(Deployments) /\ accepted # << >>

QueueTypeOK ==
    /\ queue \in Seq(Requests) /\ Len(queue) <= Capacity
    /\ writer \in {"idle", "executing", "executed", "stopped"} \cup Dead
    /\ write_err \in BOOLEAN /\ poisoned \in BOOLEAN
    /\ front \in {"idle", "pushing", "flushing"}
    /\ request \in Requests
    /\ stopper \in {"none", "pushing", "done"}

ReadTypeOK ==
    /\ read.status \in {"none", "scanned", "done"}
    /\ read.missing \subseteq read.keys /\ read.keys \subseteq Keys
    /\ read.at \in Blocks
    /\ read.got \in [read.keys -> Versions]

TypeOK == StoreTypeOK /\ QueueTypeOK /\ ReadTypeOK

(* The deployment as the runner has written it.                            *)
Written == accepted[Len(accepted)]

(* A read that looks at the queue and then, without a lock, at the         *)
(* database returns what the runner last wrote, whatever the background    *)
(* writer does in between; only an error of the writer can spoil it.       *)
ReadsSeeOwnWrites ==
    read.status = "done" /\ writer \notin Dead =>
        \A k \in read.keys : read.got[k] = Written.table[k][MaxBlock]

(* The database never refuses a request because of its block: writes and   *)
(* reverts reach it in an order in which each follows from the one before. *)
NeverRefused == writer = "executing" => Accepts(db, Head(queue))

(* The head pointer that the runner gets from the store is that of the     *)
(* database once everything queued has been written.                       *)
HeadCatchesUp ==
    queue = << >> /\ front = "idle" /\ writer \notin Dead => block_ptr = db.ptr

(* The states of the deployment that the store promises to go through.     *)
Promised == IF writer = "executed" THEN Tail(accepted) ELSE accepted

Answer == IF read.status = "done" THEN read.got ELSE << >>

Failed == writer \in Dead

Store == INSTANCE WriteBehindStore WITH
    versions <- Promised, result <- Answer, failed <- Failed

(* The pipelined store behaves like a store that writes at once and may    *)
(* lose recent writes in a crash.                                          *)
ImplementsWriteBehind == Store!StoreSpec

(* A push that waits for a free place in the queue gets it, unless the     *)
(* store has been stopped: even a failed writer empties the queue.         *)
PushReturns == front = "pushing" ~> front = "idle" \/ writer = "stopped"

=============================================================================
