--------------------------- MODULE NodeAssignments ---------------------------
(***************************************************************************)
(* Which node runs which deployment.  The assignment table is in the       *)
(* primary database; every change of it is announced to all nodes by a     *)
(* store event.  A node's registrar (registrar.rs) reads the table when it *)
(* starts, then follows the events; its assignment provider (provider.rs)  *)
(* remembers what it started; the instance manager (instance_manager.rs)   *)
(* starts a runner in a background task and keeps the guard that cancels   *)
(* it; the runner writes blocks through the deployment's WritableStore,    *)
(* which the store caches per node (subgraph_store.rs).                    *)
(***************************************************************************)
EXTENDS Naturals, Sequences, FiniteSets

CONSTANTS
    Deps,            \* deployments
    Nodes,
    NoNode,          \* not assigned, no runner, no writer
    SlowStarts,      \* may a deployment be stopped while its start is still
                     \* running in the background?
    PromotionRaces,  \* may a deployment be assigned again before the event
                     \* of the promotion that unassigned it is sent?
    MaxRunners,      \* bounds: runners and writers at a time, blocks of the
    MaxWriters,      \* chain, changes of the table or crashes of a node
    MaxBlock,
    MaxChanges

VARIABLES
    assignment,  \* subgraph_deployment_assignment: deployment -> node
    unsent,      \* events that deployment_synced still has to send
    status,      \* a node is "down", "booting", "reading" or "up"
    inbox,       \* store events a node has not looked at
    next_event,  \* the AssignmentEvent a node is about to handle
    to_start,    \* what a booting node read from the table and has to start
    registry,    \* DeploymentRegistry: what the provider has started
    runners,     \* runner -> [node, dep, stage, writer, cancelled]
    alive,       \* SubgraphKeepAlive: the runner whose guard a node holds
    writables,   \* the WritableStore that a node has cached
    writers,     \* writer -> [node, head, queue, state]
    db_ptr,      \* block pointer of a deployment in the database
    applied,     \* ghost: the blocks whose changes were applied, in order
    changes      \* changes of the table and crashes of a node so far

nodeVars == <<assignment, unsent, status, inbox, next_event, to_start, registry,
              runners, alive, writables, writers, db_ptr, applied, changes>>
procVars == <<status, inbox, next_event, to_start, registry, runners, alive,
              writables, writers>>
dbVars == <<db_ptr, applied>>
tableVars == <<assignment, unsent, changes>>

Runners == 1..MaxRunners
StopRequest == 0   \* among the blocks 1..MaxBlock of a writer's queue
Writers == 1..MaxWriters
NodeRunners(n) == {r \in Runners : runners[r] # NoNode /\ runners[r].node = n}

-----------------------------------------------------------------------------
(* The assignment table.  A change and its event are one transaction, but  *)
(* for promote_deployment, whose event is sent at the end of               *)
(* deployment_synced.                                                      *)

Announce(d, kind) ==
    inbox' = [n \in Nodes |-> IF status[n] = "down" THEN << >>
                              ELSE Append(inbox[n], [dep |-> d, kind |-> kind])]

Change == changes < MaxChanges /\ changes' = changes + 1

assign_or_reassign(d, n) ==
    /\ Change
    /\ assignment[d] # n
    /\ d \in unsent => PromotionRaces
    /\ assignment' = [assignment EXCEPT ![d] = n]
    /\ Announce(d, "Set")
    /\ UNCHANGED <<unsent, status, next_event, to_start, registry, runners, alive,
                   writables, writers, dbVars>>

unassign_now(d) ==
    /\ Change
    /\ assignment[d] # NoNode
    /\ assignment' = [assignment EXCEPT ![d] = NoNode]
    /\ Announce(d, "Removed")
    /\ UNCHANGED <<unsent, status, next_event, to_start, registry, runners, alive,
                   writables, writers, dbVars>>

promote_removes(d) ==
    /\ Change
    /\ assignment[d] # NoNode
    /\ assignment' = [assignment EXCEPT ![d] = NoNode]
    /\ unsent' = unsent \cup {d}
    /\ UNCHANGED <<procVars, dbVars>>

send_store_event(d) ==
    /\ d \in unsent
    /\ unsent' = unsent \ {d}
    /\ Announce(d, "Removed")
    /\ UNCHANGED <<assignment, changes, status, next_event, to_start,
                   registry, runners, alive, writables, writers, dbVars>>

-----------------------------------------------------------------------------
(* SubgraphAssignmentProvider.                                             *)

FreeRunner == CHOOSE r \in Runners : runners[r] = NoNode
NewRunner(n, d) ==
    [node |-> n, dep |-> d, stage |-> "task", writer |-> NoNode, cancelled |-> FALSE]

provider_start(n, d) ==
    IF d \in registry[n] THEN UNCHANGED <<registry, runners>>
    ELSE /\ \E r \in Runners : runners[r] = NoNode
         /\ registry' = [registry EXCEPT ![n] = @ \cup {d}]
         /\ runners' = [runners EXCEPT ![FreeRunner] = NewRunner(n, d)]

(* The guard that instances held is dropped: the runner's stream is        *)
(* cancelled.                                                              *)
drop_guard(rs, r) ==
    IF r = NoNode \/ rs[r] = NoNode THEN rs ELSE [rs EXCEPT ![r].cancelled = TRUE]

(* stop_subgraph of the instance manager and of the store: a Stop request  *)
(* goes behind the queued writes; the writer is not awaited.               *)
stop_subgraph(n, d) ==
    LET w == writables[n][d] IN
    /\ writables' = [writables EXCEPT ![n][d] = NoNode]
    /\ writers' = IF w = NoNode \/ writers[w].state # "open" THEN writers
                  ELSE [writers EXCEPT ![w].queue = Append(@, StopRequest)]
    /\ runners' = drop_guard(runners, alive[n][d])
    /\ alive' = [alive EXCEPT ![n][d] = NoNode]

provider_stop(n, d) ==
    IF d \in registry[n]
    THEN /\ registry' = [registry EXCEPT ![n] = @ \ {d}]
         /\ stop_subgraph(n, d)
    ELSE UNCHANGED <<registry, writables, writers, runners, alive>>

-----------------------------------------------------------------------------
(* SubgraphRegistrar.                                                      *)

(* The event stream is started before the table is read.                   *)
NodeBoots(n) ==
    /\ status[n] = "down"
    /\ status' = [status EXCEPT ![n] = "booting"]
    /\ UNCHANGED <<tableVars, inbox, next_event, to_start, registry, runners, alive,
                   writables, writers, dbVars>>

start_assigned_subgraphs(n) ==
    /\ status[n] = "booting"
    /\ status' = [status EXCEPT ![n] = "reading"]
    /\ to_start' = [to_start EXCEPT ![n] = {d \in Deps : assignment[d] = n}]
    /\ UNCHANGED <<tableVars, inbox, next_event, registry, runners, alive, writables,
                   writers, dbVars>>

StartAssigned(n, d) ==
    /\ status[n] = "reading" /\ d \in to_start[n]
    /\ to_start' = [to_start EXCEPT ![n] = @ \ {d}]
    /\ provider_start(n, d)
    /\ UNCHANGED <<tableVars, status, inbox, next_event, alive, writables, writers, dbVars>>

NodeUp(n) ==
    /\ status[n] = "reading" /\ to_start[n] = {}
    /\ status' = [status EXCEPT ![n] = "up"]
    /\ UNCHANGED <<tableVars, inbox, next_event, to_start, registry, runners, alive,
                   writables, writers, dbVars>>

(* A Set event says only that something changed: the table is read again.  *)
AssignmentEvent(n, e) ==
    IF e.kind = "Set" /\ assignment[e.dep] = n THEN [kind |-> "Add", dep |-> e.dep]
    ELSE IF e.kind = "Set" /\ assignment[e.dep] = NoNode THEN NoNode
    ELSE [kind |-> "Remove", dep |-> e.dep]

assignment_events(n) ==
    /\ status[n] = "up" /\ next_event[n] = NoNode /\ inbox[n] # << >>
    /\ next_event' = [next_event EXCEPT ![n] = AssignmentEvent(n, Head(inbox[n]))]
    /\ inbox' = [inbox EXCEPT ![n] = Tail(@)]
    /\ UNCHANGED <<tableVars, status, to_start, registry, runners, alive, writables,
                   writers, dbVars>>

(* Without slow starts, a deployment is stopped only when its start is     *)
(* over.                                                                   *)
StartsOver(n, d) ==
    \A r \in NodeRunners(n) : runners[r].dep = d => runners[r].stage = "running"

handle_assignment_event(n) ==
    LET e == next_event[n] IN
    /\ e # NoNode
    /\ next_event' = [next_event EXCEPT ![n] = NoNode]
    /\ IF e.kind = "Add"
       THEN provider_start(n, e.dep) /\ UNCHANGED <<alive, writables, writers>>
       ELSE (SlowStarts \/ StartsOver(n, e.dep)) /\ provider_stop(n, e.dep)
    /\ UNCHANGED <<tableVars, status, inbox, to_start, dbVars>>

-----------------------------------------------------------------------------
(* The background task of a start, and the runner.                         *)

(* A poisoned WritableStore is discarded.                                  *)
CanReuse(w) == w # NoNode /\ writers[w].state # "poisoned"

(* The cached WritableStore, if it can still write.                        *)
writable(r) ==
    LET n == runners[r].node
        w == writables[n][runners[r].dep]
    IN  /\ runners[r] # NoNode /\ runners[r].stage = "task"
        /\ runners' = IF CanReuse(w)
                      THEN [runners EXCEPT ![r].stage = "built", ![r].writer = w]
                      ELSE [runners EXCEPT ![r].stage = "opening"]
        /\ UNCHANGED <<tableVars, status, inbox, next_event, to_start, registry, alive,
                       writables, writers, dbVars>>

(* Nothing refers to the writer any more: its number can be used again.    *)
Unused(w) ==
    writers[w] # NoNode =>
        /\ writers[w].state # "open"
        /\ \A r \in Runners : runners[r] # NoNode => runners[r].writer # w
        /\ \A n \in Nodes, d \in Deps : writables[n][d] # w

(* WritableStore::new reads the block pointer; the new store replaces what *)
(* the cache holds by now.                                                 *)
WritableOpened(r) ==
    LET n == runners[r].node
        d == runners[r].dep
        w == CHOOSE x \in Writers : Unused(x)
    IN  /\ runners[r] # NoNode /\ runners[r].stage = "opening"
        /\ \E x \in Writers : Unused(x)
        /\ writers' = [writers EXCEPT ![w] =
               [node |-> n, dep |-> d, head |-> db_ptr[d], queue |-> << >>, state |-> "open"]]
        /\ writables' = [writables EXCEPT ![n][d] = w]
        /\ runners' = [runners EXCEPT ![r].stage = "built", ![r].writer = w]
        /\ UNCHANGED <<tableVars, status, inbox, next_event, to_start, registry, alive, dbVars>>

Built_Behind(r) ==
    /\ runners[r] # NoNode /\ runners[r].stage = "built"
    /\ db_ptr[runners[r].dep] < MaxBlock

Built(r) == runners[r] # NoNode /\ runners[r].stage = "built"

(* The runner registers its guard, which drops that of an older runner.    *)
RunnerStarts(r) ==
    LET n == runners[r].node
        d == runners[r].dep
    IN  /\ Built(r)
        /\ alive' = [alive EXCEPT ![n][d] = r]
        /\ runners' = [drop_guard(runners, alive[n][d]) EXCEPT ![r].stage = "running"]
        /\ UNCHANGED <<tableVars, status, inbox, next_event, to_start, registry,
                       writables, writers, dbVars>>

(* The runner hands the next block to its writer; the check that the       *)
(* stream was not cancelled comes before that, in a step of its own.  What *)
(* is pushed on a queue whose writer has stopped is never written.         *)
RunnerWrites(r) ==
    LET w == runners[r].writer IN
    /\ runners[r] # NoNode /\ runners[r].stage = "running"
    /\ writers[w].state = "open"
    /\ writers[w].head < MaxBlock
    /\ writers' = [writers EXCEPT ![w].head = @ + 1, ![w].queue = Append(@, writers[w].head + 1)]
    /\ UNCHANGED <<tableVars, status, inbox, next_event, to_start, registry, runners,
                   alive, writables, dbVars>>

RunnerStops(r) ==
    /\ runners[r] # NoNode /\ runners[r].stage = "running" /\ runners[r].cancelled
    /\ runners' = [runners EXCEPT ![r] = NoNode]
    /\ UNCHANGED <<tableVars, status, inbox, next_event, to_start, registry, alive,
                   writables, writers, dbVars>>

forward_block_ptr_Unchecked(d, b) == TRUE

(* The update only finds a row whose block pointer is before the block.    *)
forward_block_ptr(d, b) == db_ptr[d] < b

(* One request of the writer's queue.  A refused write poisons the queue.  *)
WriterStep(w) ==
    LET q == writers[w].queue
        d == writers[w].dep
    IN  /\ writers[w] # NoNode /\ writers[w].state = "open" /\ q # << >>
        /\ IF Head(q) = StopRequest
           THEN /\ writers' = [writers EXCEPT ![w].state = "stopped", ![w].queue = << >>,
                                                  ![w].head = 0]
                /\ UNCHANGED dbVars
           ELSE IF forward_block_ptr(d, Head(q))
           THEN /\ db_ptr' = [db_ptr EXCEPT ![d] = Head(q)]
                /\ applied' = [applied EXCEPT ![d] = Append(@, Head(q))]
                /\ writers' = [writers EXCEPT ![w].queue = Tail(q)]
           ELSE /\ writers' = [writers EXCEPT ![w].state = "poisoned", ![w].queue = << >>,
                                                  ![w].head = 0]
                /\ UNCHANGED dbVars
        /\ UNCHANGED <<tableVars, status, inbox, next_event, to_start, registry, runners,
                       alive, writables>>

NodeCrashes(n) ==
    /\ status[n] # "down"
    /\ Change
    /\ status' = [status EXCEPT ![n] = "down"]
    /\ inbox' = [inbox EXCEPT ![n] = << >>]
    /\ next_event' = [next_event EXCEPT ![n] = NoNode]
    /\ to_start' = [to_start EXCEPT ![n] = {}]
    /\ registry' = [registry EXCEPT ![n] = {}]
    /\ runners' = [r \in Runners |-> IF r \in NodeRunners(n)
                                     THEN NoNode ELSE runners[r]]
    /\ alive' = [alive EXCEPT ![n] = [d \in Deps |-> NoNode]]
    /\ writables' = [writables EXCEPT ![n] = [d \in Deps |-> NoNode]]
    /\ writers' = [w \in Writers |-> IF writers[w] # NoNode /\ writers[w].node = n
                                     THEN NoNode ELSE writers[w]]
    /\ UNCHANGED <<assignment, unsent, dbVars>>

-----------------------------------------------------------------------------
NodeInit ==
    /\ assignment \in [Deps -> Nodes \cup {NoNode}]
    /\ unsent = {}
    /\ status = [n \in Nodes |-> "down"]
    /\ inbox = [n \in Nodes |-> << >>]
    /\ next_event = [n \in Nodes |-> NoNode]
    /\ to_start = [n \in Nodes |-> {}]
    /\ registry = [n \in Nodes |-> {}]
    /\ runners = [r \in Runners |-> NoNode]
    /\ alive = [n \in Nodes |-> [d \in Deps |-> NoNode]]
    /\ writables = [n \in Nodes |-> [d \in Deps |-> NoNode]]
    /\ writers = [w \in Writers |-> NoNode]
    /\ db_ptr = [d \in Deps |-> 0]
    /\ applied = [d \in Deps |-> << >>]
    /\ changes = 0

RunnerStep(r) ==
    writable(r) \/ WritableOpened(r) \/ RunnerStarts(r) \/ RunnerWrites(r) \/ RunnerStops(r)

RegistrarStep(n) ==
    \/ NodeBoots(n) \/ start_assigned_subgraphs(n) \/ NodeUp(n)
    \/ \E d \in Deps : StartAssigned(n, d)
    \/ assignment_events(n) \/ handle_assignment_event(n)

NodeNext ==
    \/ \E d \in Deps : \/ \E n \in Nodes : assign_or_reassign(d, n)
                       \/ unassign_now(d) \/ promote_removes(d) \/ send_store_event(d)
    \/ \E n \in Nodes : RegistrarStep(n) \/ NodeCrashes(n)
    \/ \E r \in Runners : RunnerStep(r)
    \/ \E w \in Writers : WriterStep(w)

NodeSpec == NodeInit /\ [][NodeNext]_nodeVars

(* Every process keeps running; a crashed node is restarted; the store     *)
(* sends the event of a promotion.                                         *)
NodeFairness ==
    /\ \A n \in Nodes : WF_nodeVars(RegistrarStep(n))
    /\ \A r \in Runners : WF_nodeVars(RunnerStep(r))
    /\ \A w \in Writers : WF_nodeVars(WriterStep(w))
    /\ \A d \in Deps : WF_nodeVars(send_store_event(d))

NodeFairSpec == NodeSpec /\ NodeFairness

-----------------------------------------------------------------------------
Running(n, d) ==
    \E r \in NodeRunners(n) : /\ runners[r].dep = d /\ runners[r].stage = "running"
                              /\ ~runners[r].cancelled

NodeTypeOK ==
    /\ \A d \in Deps : assignment[d] \in Nodes \cup {NoNode}
    /\ \A n \in Nodes : /\ status[n] \in {"down", "booting", "reading", "up"}
                        /\ registry[n] \subseteq Deps
    /\ \A r \in Runners : runners[r] # NoNode =>
          /\ runners[r].stage \in {"task", "opening", "built", "running"}
          /\ runners[r].stage \in {"built", "running"} => runners[r].writer \in Writers
    /\ \A d \in Deps : db_ptr[d] \in 0..MaxBlock

(* However reassignments, crashes and writers that drain late interleave,  *)
(* the changes of a block are applied once, and in the order of the chain. *)
BlocksAppliedOnce ==
    \A d \in Deps : applied[d] = [b \in 1..db_ptr[d] |-> b]

(* Every deployment ends up running where it is assigned, and nowhere      *)
(* else.                                                                   *)
EventuallyRunsAssigned ==
    <>[](\A n \in Nodes, d \in Deps : Running(n, d) <=> assignment[d] = n)

=============================================================================
