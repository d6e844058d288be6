---------------------------- MODULE StoreEvents ----------------------------
(***************************************************************************)
(* How a change of a deployment's entities reaches the GraphQL             *)
(* subscriptions of a node: store events are sent with pg_notify, the      *)
(* NotificationListener's worker thread reads them off its connection in   *)
(* batches and puts them into a bounded channel, the SubscriptionManager   *)
(* hands them to the node's own listeners (bounded channels with the       *)
(* events) and to the watchers of GraphQL subscriptions (only a wake-up),  *)
(* and each subscription of a websocket connection answers a wake-up by    *)
(* running its query again.                                                *)
(*                                                                         *)
(* Events are numbered in the order in which they are committed. What an   *)
(* event says is the entity type it is about.                              *)
(***************************************************************************)
EXTENDS Integers, Sequences, FiniteSets, SequencesExt

CONSTANTS
    Types,        \* what events and subscriptions are about
    Assignment,   \* the member of Types that the node's registrar listens for
    Ops,          \* ids that a websocket client gives its operations
    MaxNotified,    \* bound: events in a behaviour
    MaxLarge,     \* bound: events with a large payload in a behaviour
    ChannelSize,  \* capacity of the listener's and of a subscriber's channel
    BatchSize,    \* notifications read at once
    MaxOps,       \* max_operations_per_connection
    NoEvent

ASSUME EventsAssumption ==
    /\ Assignment \in Types
    /\ IsFiniteSet(Ops)
    /\ {MaxNotified, MaxLarge} \subseteq Nat
    /\ {ChannelSize, BatchSize, MaxOps} \subseteq Nat \ {0}

VARIABLES
    events,     \* the types of the events committed so far
    large,      \* large_notifications: events whose payload is in that table
    connected,  \* whether the listener's connection is up
    arrived,    \* notifications that wait on the connection
    batch,      \* notifications that the worker has loaded
    channel,    \* notifications for the SubscriptionManager
    handling,   \* the event that handle_store_events is sending, or NoEvent
    registrar,  \* the events for the registrar's own subscription
    watchers,   \* subscriptions_no_payload: the types that have a watcher
    operations, \* the operations of the connection
    socket,     \* whether the connection is open
    handled     \* the last event handed to the watchers of each type

eventVars == <<events, large, connected, arrived, batch, channel, handling, registrar,
               watchers, operations, socket, handled>>

NoOp == [status |-> "none"]

EventsInit ==
    /\ events = << >>
    /\ large = {}
    /\ connected = TRUE
    /\ arrived = << >>
    /\ batch = << >>
    /\ channel = << >>
    /\ handling = NoEvent
    /\ registrar = << >>
    /\ watchers = {}
    /\ operations = [o \in Ops |-> NoOp]
    /\ socket = TRUE
    /\ handled = [t \in Types |-> 0]

(***************************************************************************)
(* Postgres and the listener                                               *)
(***************************************************************************)

\* NotificationSender::notify: a payload above LARGE_NOTIFICATION_THRESHOLD is
\* put into a table and only its id is sent.
notify(type, isLarge) ==
    LET e == Len(events) + 1 IN
    /\ Len(events) < MaxNotified
    /\ isLarge => Cardinality(large) < MaxLarge
    /\ events' = Append(events, type)
    /\ large' = IF isLarge THEN large \cup {[event |-> e, there |-> TRUE]} ELSE large
    /\ arrived' = IF connected THEN Append(arrived, e) ELSE arrived
    /\ UNCHANGED <<connected, batch, channel, handling, registrar, watchers, operations, socket, handled>>

\* Large payloads older than large_notification_cleanup_interval are deleted.
prune_large ==
    /\ \E p \in large : p.there
    /\ large' = {[p EXCEPT !.there = FALSE] : p \in large}
    /\ UNCHANGED <<events, connected, arrived, batch, channel, handling, registrar, watchers, operations, socket, handled>>

\* The connection breaks, and everything on it is lost.
disconnect ==
    /\ connected
    /\ connected' = FALSE
    /\ arrived' = << >>
    /\ UNCHANGED <<events, large, batch, channel, handling, registrar, watchers, operations, socket, handled>>

\* connect_and_listen, called when the worker has dealt with what it had.
connect_and_listen ==
    /\ ~connected
    /\ batch = << >>
    /\ connected' = TRUE
    /\ UNCHANGED <<events, large, arrived, batch, channel, handling, registrar, watchers, operations, socket, handled>>

\* The worker loads what has arrived, at most BatchSize notifications.
load_notifications ==
    LET n == IF Len(arrived) < BatchSize THEN Len(arrived) ELSE BatchSize IN
    /\ batch = << >>
    /\ arrived # << >>
    /\ batch' = SubSeq(arrived, 1, n)
    /\ arrived' = SubSeq(arrived, n + 1, Len(arrived))
    /\ UNCHANGED <<events, large, connected, channel, handling, registrar, watchers, operations, socket, handled>>

\* JsonNotification::parse fails when a large payload is gone already.
parse(e) == [event |-> e, there |-> FALSE] \notin large

\* The worker sends the next notification, waiting for room in the channel, but
\* only for so long: then the notification is skipped.
send_timeout ==
    /\ batch # << >>
    /\ \/ ~parse(Head(batch)) /\ channel' = channel /\ batch' = Tail(batch)
       \/ /\ parse(Head(batch))
          /\ Len(channel) < ChannelSize
          /\ channel' = Append(channel, Head(batch))
          /\ batch' = Tail(batch)
       \/ parse(Head(batch)) /\ Len(channel) = ChannelSize /\ channel' = channel /\ batch' = Tail(batch)
    /\ UNCHANGED <<events, large, connected, arrived, handling, registrar, watchers, operations, socket, handled>>
-----------------------------------------------------------------------------
(***************************************************************************)
(* SubscriptionManager                                                     *)
(***************************************************************************)

\* handle_store_events takes the next event.
take_event ==
    /\ handling = NoEvent
    /\ channel # << >>
    /\ handling' = Head(channel)
    /\ channel' = Tail(channel)
    /\ UNCHANGED <<events, large, connected, arrived, batch, registrar, watchers, operations, socket, handled>>

Woken_Idle(type) ==
    [o \in Ops |-> IF /\ operations[o].status = "open"
                      /\ operations[o].type = type
                      /\ ~operations[o].running
                   THEN [operations[o] EXCEPT !.pending = TRUE] ELSE operations[o]]

\* Wakes the operations that watch the type.
Woken(type) ==
    [o \in Ops |-> IF operations[o].status = "open" /\ operations[o].type = type
                   THEN [operations[o] EXCEPT !.pending = TRUE] ELSE operations[o]]

\* ... sends it to its subscribers with a payload, waiting for room in their
\* channels, and then to the watchers.
handle_store_event ==
    LET type == events[handling] IN
    /\ handling # NoEvent
    /\ IF type = Assignment
       THEN Len(registrar) < ChannelSize /\ registrar' = Append(registrar, handling)
       ELSE UNCHANGED registrar
    /\ operations' = IF type \in watchers THEN Woken(type) ELSE operations
    /\ handled' = [handled EXCEPT ![type] = handling]
    /\ handling' = NoEvent
    /\ UNCHANGED <<events, large, connected, arrived, batch, channel, watchers, socket>>

\* The registrar takes an assignment event.
take_assignment_event ==
    /\ registrar # << >>
    /\ registrar' = Tail(registrar)
    /\ UNCHANGED <<events, large, connected, arrived, batch, channel, handling, watchers, operations, socket, handled>>

receiver_count(type) ==
    Cardinality({o \in Ops : operations[o].status = "open" /\ operations[o].type = type})

stale_watchers == {t \in watchers : receiver_count(t) = 0}

\* periodically_clean_up_stale_subscriptions
clean_up_stale_subscriptions ==
    /\ stale_watchers # {}
    /\ watchers' = watchers \ stale_watchers
    /\ UNCHANGED <<events, large, connected, arrived, batch, channel, handling, registrar, operations, socket, handled>>
-----------------------------------------------------------------------------
(***************************************************************************)
(* A websocket connection and its operations                               *)
(***************************************************************************)

\* The operations in the HashMap of the connection: also those whose task has
\* ended by itself.
Known == {o \in Ops : operations[o].status # "none"}

Stopped == [o \in Ops |-> NoOp]

\* Message Start. An id in use, too many operations or a query that does not
\* parse is answered with an error, and ends the connection with all its
\* operations.
start(o, type, valid) ==
    /\ socket
    /\ IF o \in Known \/ Cardinality(Known) >= MaxOps \/ ~valid
       THEN socket' = FALSE /\ operations' = Stopped
       ELSE /\ operations' = [operations EXCEPT ![o] = [status |-> "starting", type |-> type]]
            /\ UNCHANGED socket
    /\ UNCHANGED <<events, large, connected, arrived, batch, channel, handling, registrar, watchers, handled>>

\* run_subscription in the operation's task: the query is refused or the
\* response stream is set up, which begins with one answer that no event asked
\* for.
run_subscription(o) ==
    /\ operations[o].status = "starting"
    /\ \/ /\ operations' = [operations EXCEPT ![o] = [status |-> "ended"]]
          /\ UNCHANGED watchers
       \/ /\ operations' = [operations EXCEPT ![o] =
               [status |-> "open", type |-> operations[o].type, pending |-> TRUE,
                running |-> FALSE, seen |-> 0]]
          /\ watchers' = watchers \cup {operations[o].type}
    /\ UNCHANGED <<events, large, connected, arrived, batch, channel, handling, registrar, socket, handled>>

\* execute_subscription_event reads the latest state of the deployment ...
execute_subscription_event(o) ==
    /\ operations[o].status = "open"
    /\ operations[o].pending
    /\ ~operations[o].running
    /\ operations' = [operations EXCEPT ![o].pending = FALSE, ![o].running = TRUE,
                                        ![o].seen = Len(events)]
    /\ UNCHANGED <<events, large, connected, arrived, batch, channel, handling, registrar, watchers, socket, handled>>

\* ... and sends the result to the client.
send_data(o) ==
    /\ operations[o].status = "open"
    /\ operations[o].running
    /\ operations' = [operations EXCEPT ![o].running = FALSE]
    /\ UNCHANGED <<events, large, connected, arrived, batch, channel, handling, registrar, watchers, socket, handled>>

\* Message Stop: the operation is cancelled and reported complete; an unknown
\* id is answered with an error, which does not end the connection.
stop(o) ==
    /\ socket
    /\ o \in Known
    /\ operations' = [operations EXCEPT ![o] = NoOp]
    /\ UNCHANGED <<events, large, connected, arrived, batch, channel, handling, registrar, watchers, socket, handled>>

\* The client ends the connection; Operations::drop stops all operations.
close ==
    /\ socket
    /\ socket' = FALSE
    /\ operations' = Stopped
    /\ UNCHANGED <<events, large, connected, arrived, batch, channel, handling, registrar, watchers, handled>>

\* The client connects again.
open ==
    /\ ~socket
    /\ socket' = TRUE
    /\ UNCHANGED <<events, large, connected, arrived, batch, channel, handling, registrar, watchers, operations, handled>>

EventsNext ==
    \/ \E t \in Types, isLarge \in BOOLEAN : notify(t, isLarge)
    \/ prune_large
    \/ disconnect
    \/ connect_and_listen
    \/ load_notifications
    \/ send_timeout
    \/ take_event
    \/ handle_store_event
    \/ take_assignment_event
    \/ clean_up_stale_subscriptions
    \/ \E o \in Ops :
         \/ \E t \in Types \ {Assignment}, valid \in BOOLEAN : start(o, t, valid)
         \/ run_subscription(o)
         \/ execute_subscription_event(o)
         \/ send_data(o)
         \/ stop(o)
    \/ close
    \/ open

EventsSpec == EventsInit /\ [][EventsNext]_eventVars
-----------------------------------------------------------------------------
\* A subscription does not miss a change: unless a wake-up is pending, an open
\* operation has read the deployment after every event about its entities that
\* the SubscriptionManager has handled, also when the event was handled while
\* the operation was being set up or was busy with an earlier one, or when
\* stale watchers were cleaned up meanwhile.
NoLostWakeup ==
    \A o \in Ops : operations[o].status = "open" /\ ~operations[o].pending =>
        operations[o].seen >= handled[operations[o].type]

\* The watcher of an open operation stays registered, so that later events
\* find it.
WatchersKept ==
    \A o \in Ops : operations[o].status = "open" => operations[o].type \in watchers

=============================================================================
