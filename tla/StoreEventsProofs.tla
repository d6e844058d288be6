--------------------------- MODULE StoreEventsProofs ---------------------------
(***************************************************************************)
(* That no subscription misses an event, for any number of events, types,  *)
(* operations and any size of batches and channels.                        *)
(***************************************************************************)
EXTENDS StoreEvents, FiniteSetTheorems, TLAPS

(* The operations that are open, and all others.                           *)
OpenOps == [status : {"open"}, type : Types, pending : BOOLEAN, running : BOOLEAN,
            seen : Nat]
OtherOps == {NoOp} \cup [status : {"starting"}, type : Types] \cup [status : {"ended"}]

(* The notifications under way are about events that were committed.       *)
EventsType ==
    /\ events \in Seq(Types)
    /\ {arrived, batch, channel} \subseteq Seq(1 .. Len(events))
    /\ handling # NoEvent => handling \in 1 .. Len(events)
    /\ operations \in [Ops -> OpenOps \cup OtherOps]
    /\ handled \in [Types -> 0 .. Len(events)]

(* The inductive invariant: a wake-up is lost only if an open operation    *)
(* has no watcher, or if an event is handled before it is committed.       *)
EventsInv == EventsType /\ WatchersKept /\ NoLostWakeup

(* A sequence of committed events stays one when another is committed.     *)
LEMMA MoreEvents ==
    ASSUME NEW m \in Nat, NEW n \in Nat, m <= n, NEW s \in Seq(1 .. m)
    PROVE  s \in Seq(1 .. n)
OBVIOUS

(* What is open is an operation with all its fields.                       *)
LEMMA OpenTyped ==
    ASSUME NEW op \in OpenOps \cup OtherOps, op.status = "open"
    PROVE  op \in OpenOps
BY DEF OpenOps, OtherOps, NoOp

(* A wake-up leaves an operation open, and as it is otherwise.             *)
LEMMA WokenOpen ==
    ASSUME NEW op \in OpenOps
    PROVE  LET woken == [op EXCEPT !.pending = TRUE]
           IN  /\ woken \in OpenOps
               /\ op.status = "open" /\ woken.pending
               /\ woken.type = op.type /\ woken.seen = op.seen
BY Zenon DEF OpenOps

(* Steps of the listener: the operations and their watchers stay as they   *)
(* are, and the notifications are those that were there.                   *)
LEMMA ListenerStep ==
    ASSUME EventsInv,
           \/ prune_large \/ disconnect \/ connect_and_listen \/ load_notifications
           \/ send_timeout \/ take_event \/ take_assignment_event \/ open
    PROVE  EventsInv'
<1>1. UNCHANGED <<events, operations, watchers, handled>>
    BY Zenon DEF prune_large, disconnect, connect_and_listen, load_notifications, send_timeout,
           take_event, take_assignment_event, open
<1> DEFINE E == 1 .. Len(events)
<1>2. arrived \in Seq(E) /\ batch \in Seq(E) /\ channel \in Seq(E)
    BY Zenon DEF EventsInv, EventsType
<1>3. handling # NoEvent => handling \in E
    BY Zenon DEF EventsInv, EventsType
<1> HIDE DEF E
<1>4. /\ {arrived', batch', channel'} \subseteq Seq(E)
      /\ handling' # NoEvent => handling' \in E
  <2>1. CASE prune_large \/ connect_and_listen \/ take_assignment_event \/ open
      BY <1>2, <1>3, <2>1, Zenon DEF prune_large, connect_and_listen, take_assignment_event, open
  <2>2. CASE disconnect
      BY <1>2, <1>3, <2>2 DEF disconnect
  <2>3. CASE load_notifications
    <3> DEFINE n == IF Len(arrived) < BatchSize THEN Len(arrived) ELSE BatchSize
    <3>1. n \in Nat /\ n <= Len(arrived) /\ Len(arrived) \in Nat
        BY <1>2, EventsAssumption
    <3>2. /\ batch' = SubSeq(arrived, 1, n) /\ arrived' = SubSeq(arrived, n + 1, Len(arrived))
          /\ channel' = channel /\ handling' = handling
        BY <2>3, Zenon DEF load_notifications
    <3> HIDE DEF n
    <3>3. batch' \in Seq(E) /\ arrived' \in Seq(E)
        BY <1>2, <3>1, <3>2
    <3> QED BY <1>2, <1>3, <3>2, <3>3
  <2>4. CASE send_timeout
    <3>1. Head(batch) \in E /\ Tail(batch) \in Seq(E)
        BY <1>2, <2>4 DEF send_timeout
    <3>2. /\ batch' = Tail(batch) /\ arrived' = arrived /\ handling' = handling
          /\ channel' = channel \/ channel' = Append(channel, Head(batch))
        BY <2>4, Zenon DEF send_timeout
    <3>3. Append(channel, Head(batch)) \in Seq(E)
        BY <1>2, <3>1
    <3> QED BY <1>2, <1>3, <3>1, <3>2, <3>3
  <2>5. CASE take_event
    <3>1. Head(channel) \in E /\ Tail(channel) \in Seq(E)
        BY <1>2, <2>5 DEF take_event
    <3> QED BY <1>2, <1>3, <2>5, <3>1 DEF take_event
  <2> QED BY <2>1, <2>2, <2>3, <2>4, <2>5, Zenon
<1>5. EventsType'
    BY <1>1, <1>4, Zenon DEF EventsInv, EventsType, E
<1> QED BY <1>1, <1>5, Zenon DEF EventsInv, WatchersKept, NoLostWakeup

(* A commit: what was handled is still the last that was handled.          *)
LEMMA NotifyStep ==
    ASSUME EventsInv, NEW t \in Types, NEW isLarge \in BOOLEAN, notify(t, isLarge)
    PROVE  EventsInv'
<1>1. /\ events' = Append(events, t)
      /\ arrived' = arrived \/ arrived' = Append(arrived, Len(events) + 1)
      /\ UNCHANGED <<batch, channel, handling, operations, watchers, handled>>
    BY Zenon DEF notify
<1>2. /\ events \in Seq(Types) /\ {arrived, batch, channel} \subseteq Seq(1 .. Len(events))
      /\ handling # NoEvent => handling \in 1 .. Len(events)
      /\ operations \in [Ops -> OpenOps \cup OtherOps]
      /\ handled \in [Types -> 0 .. Len(events)]
    BY Zenon DEF EventsInv, EventsType
<1>3. /\ events' \in Seq(Types) /\ Len(events) \in Nat /\ Len(events') = Len(events) + 1
    BY <1>1, <1>2
<1> DEFINE m == Len(events)
           n == m + 1
<1>4. m \in Nat /\ n \in Nat /\ m <= n /\ n \in 1 .. n
    BY <1>3
<1>5. 1 .. m \subseteq 1 .. n /\ 0 .. m \subseteq 0 .. n
    BY <1>4
<1>6. arrived \in Seq(1 .. m) /\ batch \in Seq(1 .. m) /\ channel \in Seq(1 .. m)
    BY <1>2, Zenon
<1> HIDE DEF m, n
<1>7. arrived \in Seq(1 .. n) /\ batch \in Seq(1 .. n) /\ channel \in Seq(1 .. n)
    BY <1>4, <1>6, MoreEvents
<1>8. Append(arrived, n) \in Seq(1 .. n)
    BY <1>4, <1>7
<1>9. handled \in [Types -> 0 .. n]
    BY <1>2, <1>5, Zenon DEF m
<1>10. EventsType'
  <2>1. Len(events') = n /\ Len(events) + 1 = n
      BY <1>3, Zenon DEF m, n
  <2>2. {arrived', batch', channel'} \subseteq Seq(1 .. n)
      BY <1>1, <1>7, <1>8, <2>1, Zenon
  <2>3. handling' # NoEvent => handling' \in 1 .. n
      BY <1>1, <1>2, <1>5 DEF m
  <2> QED BY <1>1, <1>2, <1>3, <1>9, <2>1, <2>2, <2>3 DEF EventsType
<1> QED BY <1>1, <1>10, Zenon DEF EventsInv, WatchersKept, NoLostWakeup

(* An event is handed to the watchers: every open operation of its type is *)
(* woken, as its watcher was kept.                                         *)
LEMMA HandleStep == ASSUME EventsInv, handle_store_event PROVE EventsInv'
<1> DEFINE type == events[handling]
<1>1. handling \in 1 .. Len(events) /\ events \in Seq(Types)
    BY Zenon DEF EventsInv, EventsType, handle_store_event
<1>2. type \in Types
    BY <1>1
<1>3. /\ operations \in [Ops -> OpenOps \cup OtherOps]
      /\ handled \in [Types -> 0 .. Len(events)]
    BY Zenon DEF EventsInv, EventsType
<1>4. /\ operations' = IF type \in watchers THEN Woken(type) ELSE operations
      /\ handled' = [handled EXCEPT ![type] = handling]
      /\ handling' = NoEvent
      /\ UNCHANGED <<events, arrived, batch, channel, watchers>>
    BY Zenon DEF handle_store_event
<1> HIDE DEF type
<1>5. ASSUME NEW o \in Ops
      PROVE  \/ operations'[o] = operations[o]
             \/ /\ operations[o] \in OpenOps
                /\ operations'[o] = [operations[o] EXCEPT !.pending = TRUE]
  <2>1. operations[o] \in OpenOps \cup OtherOps
      BY <1>3, Zenon
  <2>2. CASE operations[o].status = "open" /\ operations[o].type = type /\ type \in watchers
    <3>1. operations[o] \in OpenOps
        BY <2>1, <2>2, OpenTyped, Zenon
    <3> QED BY <1>4, <2>2, <3>1 DEF Woken
  <2>3. CASE ~(operations[o].status = "open" /\ operations[o].type = type /\ type \in watchers)
      BY <1>4, <2>3, Zenon DEF Woken
  <2> QED BY <2>2, <2>3, Zenon
<1>6. ASSUME NEW o \in Ops, operations[o].status = "open", operations[o].type = type
      PROVE  operations'[o] = [operations[o] EXCEPT !.pending = TRUE]
    BY <1>4, <1>6, Zenon DEF Woken, EventsInv, WatchersKept
<1>7. operations' \in [Ops -> OpenOps \cup OtherOps]
  <2>1. ASSUME NEW o \in Ops PROVE operations'[o] \in OpenOps \cup OtherOps
    <3>1. operations[o] \in OpenOps \cup OtherOps
        BY <1>3, Zenon
    <3>2. CASE operations'[o] = operations[o]
        BY <3>1, <3>2, Zenon
    <3>3. CASE operations'[o] # operations[o]
      <4>1. operations[o] \in OpenOps /\ operations'[o] = [operations[o] EXCEPT !.pending = TRUE]
          BY <1>5, <3>3, Zenon
      <4>2. [operations[o] EXCEPT !.pending = TRUE] \in OpenOps
          BY <4>1, WokenOpen, Zenon
      <4> QED BY <4>1, <4>2, Zenon
    <3> QED BY <3>2, <3>3, Zenon
  <2>2. operations' = [o \in Ops |-> operations'[o]]
      BY <1>3, <1>4, Zenon DEF Woken
  <2> QED BY <2>1, <2>2, Zenon
<1>8. handled' \in [Types -> 0 .. Len(events)]
    BY <1>1, <1>2, <1>3, <1>4
<1>9. EventsType'
    BY <1>1, <1>4, <1>7, <1>8, Zenon DEF EventsInv, EventsType
<1>10. ASSUME NEW o \in Ops, operations'[o].status = "open"
       PROVE  /\ operations[o].status = "open" /\ operations'[o].type = operations[o].type
              /\ operations'[o].seen = operations[o].seen
              /\ operations[o].pending => operations'[o].pending
              /\ operations[o] \in OpenOps
  <2>1. CASE operations'[o] = operations[o]
      BY <1>3, <1>10, <2>1, OpenTyped
  <2>2. CASE operations'[o] # operations[o]
      BY <1>5, <2>2, WokenOpen, Zenon
  <2> QED BY <2>1, <2>2, Zenon
<1>11. WatchersKept'
    BY <1>4, <1>10, Zenon DEF EventsInv, WatchersKept
<1>12. NoLostWakeup'
  <2> SUFFICES ASSUME NEW o \in Ops, operations'[o].status = "open", ~operations'[o].pending
               PROVE  operations'[o].seen >= handled'[operations'[o].type]
      BY Zenon DEF NoLostWakeup
  <2>1. operations[o] \in OpenOps /\ operations[o].status = "open" /\ ~operations[o].pending
      BY <1>10, Zenon
  <2>2. operations[o].type # type
      BY <1>6, <2>1, Zenon DEF OpenOps
  <2>3. handled'[operations[o].type] = handled[operations[o].type]
      BY <1>3, <1>4, <2>1, <2>2 DEF OpenOps
  <2> QED BY <1>10, <2>1, <2>3 DEF EventsInv, NoLostWakeup
<1> QED BY <1>9, <1>11, <1>12, Zenon DEF EventsInv

(* The cleanup drops only watchers that no open operation needs.           *)
LEMMA CleanUpStep == ASSUME EventsInv, clean_up_stale_subscriptions PROVE EventsInv'
<1>1. /\ watchers' = watchers \ stale_watchers
      /\ UNCHANGED <<events, arrived, batch, channel, handling, operations, handled>>
    BY Zenon DEF clean_up_stale_subscriptions
<1>2. ASSUME NEW o \in Ops, operations[o].status = "open"
      PROVE  operations[o].type \notin stale_watchers
  <2> DEFINE R == {p \in Ops : operations[p].status = "open" /\ operations[p].type = operations[o].type}
  <2>1. o \in R /\ R \subseteq Ops
      BY <1>2, Zenon
  <2>2. IsFiniteSet(R)
      BY <2>1, EventsAssumption, FS_Subset, Zenon
  <2>3. Cardinality(R) # 0
      BY <2>1, <2>2, FS_EmptySet, Zenon
  <2> QED BY <2>3, Zenon DEF stale_watchers, receiver_count
<1>3. WatchersKept'
    BY <1>1, <1>2, Zenon DEF EventsInv, WatchersKept
<1> QED BY <1>1, <1>3, Zenon DEF EventsInv, EventsType, NoLostWakeup

(* The connection and its operations: an operation is opened with a wake-  *)
(* up pending and a watcher, and it reads the deployment when it clears    *)
(* the wake-up.                                                            *)
LEMMA OperationStep ==
    ASSUME EventsInv, NEW o \in Ops,
           \/ \E t \in Types \ {Assignment}, valid \in BOOLEAN : start(o, t, valid)
           \/ run_subscription(o)
           \/ execute_subscription_event(o)
           \/ send_data(o)
           \/ stop(o)
    PROVE  EventsInv'
<1>1. /\ operations \in [Ops -> OpenOps \cup OtherOps]
      /\ handled \in [Types -> 0 .. Len(events)] /\ events \in Seq(Types)
    BY Zenon DEF EventsInv, EventsType
<1>2. UNCHANGED <<events, arrived, batch, channel, handling, handled>>
    BY Zenon DEF start, run_subscription, execute_subscription_event, send_data, stop
<1> DEFINE Sound(op, w) ==
        /\ op \in OpenOps \cup OtherOps
        /\ op.status = "open" =>
              /\ op.type \in w
              /\ op.pending \/ op.seen >= handled[op.type]
<1>3. \A p \in Ops : Sound(operations[p], watchers)
    BY <1>1, Zenon DEF EventsInv, WatchersKept, NoLostWakeup
<1>4. Sound(NoOp, watchers)
    BY Zenon DEF NoOp, OtherOps
<1>5. /\ operations' \in [Ops -> OpenOps \cup OtherOps]
      /\ \A p \in Ops : Sound(operations'[p], watchers')
  <2>1. CASE \E t \in Types \ {Assignment}, valid \in BOOLEAN : start(o, t, valid)
    <3>1. PICK t \in Types, valid \in BOOLEAN : start(o, t, valid)
        BY <2>1, Zenon
    <3>2. /\ watchers' = watchers
          /\ \/ operations' = Stopped
             \/ operations' = [operations EXCEPT ![o] = [status |-> "starting", type |-> t]]
        BY <3>1, Zenon DEF start
    <3>3. Sound([status |-> "starting", type |-> t], watchers)
        BY Zenon DEF OtherOps
    <3> HIDE DEF Sound
    <3>4. \A p \in Ops : operations'[p] \in {operations[p], NoOp, [status |-> "starting", type |-> t]}
        BY <1>1, <3>2, Zenon DEF Stopped
    <3>5. \A p \in Ops : Sound(operations'[p], watchers')
        BY <1>3, <1>4, <3>2, <3>3, <3>4
    <3>6. operations' = [p \in Ops |-> operations'[p]]
        BY <1>1, <3>2, Zenon DEF Stopped
    <3> QED BY <3>5, <3>6, Zenon DEF Sound
  <2>2. CASE run_subscription(o)
    <3> DEFINE opened == [status |-> "open", type |-> operations[o].type, pending |-> TRUE,
                          running |-> FALSE, seen |-> 0]
               ended == [status |-> "ended"]
    <3>1. operations[o].type \in Types
        BY <1>1, <2>2 DEF run_subscription, OpenOps, OtherOps, NoOp
    <3>2. \/ watchers' = watchers /\ operations' = [operations EXCEPT ![o] = ended]
          \/ /\ watchers' = watchers \cup {operations[o].type}
             /\ operations' = [operations EXCEPT ![o] = opened]
        BY <2>2, Zenon DEF run_subscription
    <3>3. Sound(ended, watchers')
        BY Zenon DEF OtherOps
    <3>4. Sound(opened, watchers \cup {operations[o].type})
        BY <3>1, Zenon DEF OpenOps
    <3>5. \A p \in Ops : Sound(operations[p], watchers')
        BY <1>3, <3>2, Zenon
    <3> HIDE DEF Sound, opened, ended
    <3>6. \A p \in Ops : Sound(operations'[p], watchers')
        BY <1>1, <3>2, <3>3, <3>4, <3>5, Zenon
    <3>7. operations' = [p \in Ops |-> operations'[p]]
        BY <1>1, <3>2
    <3> QED BY <3>6, <3>7, Zenon DEF Sound
  <2>3. CASE execute_subscription_event(o) \/ send_data(o)
    <3>1. operations[o] \in OpenOps /\ watchers' = watchers
        BY <1>1, <2>3, OpenTyped, Zenon DEF execute_subscription_event, send_data
    <3>2. PICK new \in OpenOps :
              /\ operations' = [operations EXCEPT ![o] = new]
              /\ new.type = operations[o].type
              /\ \/ new.seen = Len(events)
                 \/ new.seen = operations[o].seen /\ new.pending = operations[o].pending
      <4>1. CASE execute_subscription_event(o)
        <5> DEFINE new == [operations[o] EXCEPT !.pending = FALSE, !.running = TRUE,
                                                !.seen = Len(events)]
        <5>1. operations' = [operations EXCEPT ![o] = new]
            BY <4>1, Zenon DEF execute_subscription_event
        <5>2. Len(events) \in Nat
            BY <1>1
        <5>3. new.type = operations[o].type /\ new.seen = Len(events)
            BY <3>1, Zenon DEF OpenOps
        <5>4. new \in OpenOps
            BY <3>1, <5>2, Zenon DEF OpenOps
        <5> QED BY <5>1, <5>3, <5>4, Zenon
      <4>2. CASE send_data(o)
        <5> DEFINE new == [operations[o] EXCEPT !.running = FALSE]
        <5>1. operations' = [operations EXCEPT ![o] = new]
            BY <4>2, Zenon DEF send_data
        <5>2. /\ new \in OpenOps /\ new.type = operations[o].type
              /\ new.seen = operations[o].seen /\ new.pending = operations[o].pending
            BY <3>1, Zenon DEF OpenOps
        <5> QED BY <5>1, <5>2, Zenon
      <4> QED BY <2>3, <4>1, <4>2
    <3>3. Sound(new, watchers)
      <4>1. new.type \in Types /\ new.status = "open" /\ operations[o].status = "open"
          BY <3>1, <3>2, Zenon DEF OpenOps
      <4>2. handled[new.type] \in 0 .. Len(events) /\ Len(events) \in Nat
          BY <1>1, <4>1
      <4>3. new.type \in watchers /\ (operations[o].pending \/ operations[o].seen >= handled[new.type])
          BY <1>3, <3>2, <4>1
      <4>4. new.pending \/ new.seen >= handled[new.type]
          BY <3>2, <4>2, <4>3
      <4> QED BY <3>2, <4>3, <4>4, Zenon
    <3> HIDE DEF Sound
    <3>4. \A p \in Ops : Sound(operations'[p], watchers')
        BY <1>1, <1>3, <3>1, <3>2, <3>3
    <3>5. operations' = [p \in Ops |-> operations'[p]]
        BY <1>1, <3>2, Zenon
    <3> QED BY <3>4, <3>5, Zenon DEF Sound
  <2>4. CASE stop(o)
    <3>1. watchers' = watchers /\ operations' = [operations EXCEPT ![o] = NoOp]
        BY <2>4, Zenon DEF stop
    <3> HIDE DEF Sound
    <3>2. \A p \in Ops : Sound(operations'[p], watchers')
        BY <1>1, <1>3, <1>4, <3>1
    <3>3. operations' = [p \in Ops |-> operations'[p]]
        BY <1>1, <3>1, Zenon
    <3> QED BY <3>2, <3>3 DEF Sound
  <2> QED BY <2>1, <2>2, <2>3, <2>4
<1>6. EventsType'
    BY <1>2, <1>5, Zenon DEF EventsInv, EventsType
<1> QED BY <1>2, <1>5, <1>6 DEF EventsInv, WatchersKept, NoLostWakeup

(* A connection that ends takes its operations with it.                    *)
LEMMA CloseStep == ASSUME EventsInv, close PROVE EventsInv'
<1>1. /\ operations' = [o \in Ops |-> NoOp]
      /\ UNCHANGED <<events, arrived, batch, channel, handling, watchers, handled>>
    BY Zenon DEF close, Stopped
<1>2. \A o \in Ops : operations'[o].status = "none"
    BY <1>1, Zenon DEF NoOp
<1>3. EventsType'
    BY <1>1, Zenon DEF EventsInv, EventsType, OtherOps
<1> QED BY <1>2, <1>3, Zenon DEF EventsInv, WatchersKept, NoLostWakeup

(* However the listener, the manager and the operations interleave, no     *)
(* open operation misses an event that was handled: it has read the        *)
(* deployment since, or a wake-up is pending.                              *)
THEOREM NoWakeupLost == EventsSpec => []NoLostWakeup
<1>1. EventsInit => EventsInv
  <2> SUFFICES ASSUME EventsInit PROVE EventsInv
      BY Zenon
  <2>1. EventsType
      BY DEF EventsInit, EventsType, OtherOps
  <2>2. \A o \in Ops : operations[o].status = "none"
      BY Zenon DEF EventsInit, NoOp
  <2> QED BY <2>1, <2>2, Zenon DEF EventsInv, WatchersKept, NoLostWakeup
<1>2. EventsInv /\ [EventsNext]_eventVars => EventsInv'
  <2> SUFFICES ASSUME EventsInv, [EventsNext]_eventVars PROVE EventsInv'
      BY Zenon
  <2>1. CASE UNCHANGED eventVars
      BY <2>1, Zenon DEF eventVars, EventsInv, EventsType, WatchersKept, NoLostWakeup
  <2>2. CASE EventsNext
      BY <2>2, ListenerStep, NotifyStep, HandleStep, CleanUpStep, OperationStep, CloseStep
         DEF EventsNext
  <2> QED BY <2>1, <2>2, Zenon
<1>3. EventsInv => NoLostWakeup
    BY Zenon DEF EventsInv
<1> QED BY <1>1, <1>2, <1>3, PTL DEF EventsSpec

=============================================================================
