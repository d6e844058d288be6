----------------------------- MODULE EntityCache -----------------------------
(***************************************************************************)
(* The entity cache of graph-node and the part of the subgraph runner that *)
(* owns it.  Between the handlers and the store there are two layers of    *)
(* pending operations over a cache of entities.  At the end of a block the *)
(* operations become modifications, which the store takes or refuses, and  *)
(* only the cache survives into the next block.                            *)
(*                                                                         *)
(* An entity is a function from Fields; its id is left out.  A field is    *)
(* Absent when the entity's map has no entry for it, which differs from an *)
(* entry with the value Null until the entity has been through a merge     *)
(* that removes nulls, or through the database.                            *)
(***************************************************************************)
EXTENDS Naturals, FiniteSets

CONSTANTS
    Keys,            \* entity keys
    Immutable,       \* the keys of immutable types
    Poi,             \* the keys of proofs of indexing
    Removable,       \* the keys that the mapping may pass to store.remove
    Fields,          \* the fields of an entity
    Required,        \* the fields that are not nullable
    Values,          \* the values of fields
    Null,            \* Value::Null
    Absent,          \* no such field
    None,            \* no such entity
    NotCached,       \* no entry in the cache
    Nothing,         \* no read was done
    NonFatalErrors,  \* the feature of the same name
    MaxCalls         \* host calls of the handlers of one block

ASSUME KeysAssumption ==
    /\ Immutable \subseteq Keys
    /\ Poi \subseteq Keys \ Immutable
    /\ Removable \subseteq Keys \ Poi

ASSUME FieldsAssumption ==
    /\ Required \subseteq Fields
    /\ NonFatalErrors \in BOOLEAN
    /\ MaxCalls \in Nat

VARIABLES
    store,            \* what ReadStore::get answers, by key
    parent,           \* the store one block earlier
    current,          \* EntityCache::current, NotCached where there is no entry
    updates,          \* EntityCache::updates
    handler_updates,  \* EntityCache::handler_updates
    errors,           \* BlockState::deterministic_errors is not empty
    mods,             \* the modifications on their way to the store
    phase,            \* where process_block is
    calls,            \* host calls made in this block
    result            \* what the last `get` of a handler returned

vars == <<store, parent, current, updates, handler_updates, errors, mods,
          phase, calls, result>>

Phases == {"idle", "block", "handler", "trapped", "sealed", "transact", "failed"}

Entity == [Fields -> Values \cup {Null, Absent}]

(* The markers are not values, not entities, and not each other.           *)
ASSUME MarkersAssumption ==
    /\ Null \notin Values
    /\ Absent \notin Values \cup {Null}
    /\ None \notin Entity
    /\ NotCached \notin Entity \cup {None}
    /\ Nothing \notin Entity \cup {None}

Empty == [f \in Fields |-> Absent]

(***************************************************************************)
(* Entities and operations on them.                                        *)
(***************************************************************************)
merge(e, update) ==
    [f \in Fields |-> IF update[f] = Absent THEN e[f] ELSE update[f]]

merge_remove_null_fields(e, update) ==
    [f \in Fields |-> IF update[f] = Null THEN Absent
                      ELSE IF update[f] = Absent THEN e[f] ELSE update[f]]

(* Only absent fields are missing; Value::Null is assignable to any type.  *)
validate(e) == \A f \in Required : e[f] # Absent

Op(name, data) == [op |-> name, data |-> data]

NoOp == Op("none", Empty)

EntityOp == [op : {"none", "Remove", "Update", "Overwrite"}, data : Entity]

apply_to(o, e) ==
    IF o.op = "none" THEN e
    ELSE IF o.op = "Remove" THEN None
    ELSE IF o.op = "Update" /\ e # None THEN merge_remove_null_fields(e, o.data)
    ELSE o.data

(* An entry of a map of operations is vacant when it is NoOp.              *)
accumulate(o, next) ==
    IF next.op = "none" THEN o
    ELSE IF next.op # "Update" \/ o.op = "none" THEN next
    ELSE IF o.op = "Remove" THEN Op("Overwrite", next.data)
    ELSE Op(o.op, merge(o.data, next.data))

(***************************************************************************)
(* Reading.                                                                *)
(***************************************************************************)
get_entity(k) == IF current[k] = NotCached THEN store[k] ELSE current[k]

Cache(K) == [k \in Keys |-> IF k \in K THEN get_entity(k) ELSE current[k]]

(***************************************************************************)
(* The host calls of a handler.                                            *)
(***************************************************************************)
Call ==
    /\ phase = "handler"
    /\ calls < MaxCalls
    /\ calls' = calls + 1

get(k) ==
    /\ Call
    /\ result' = apply_to(handler_updates[k], apply_to(updates[k], get_entity(k)))
    /\ current' = Cache({k})
    /\ UNCHANGED <<store, parent, updates, handler_updates, errors, mods, phase>>

(* The operation is recorded before the entity is validated; a failure     *)
(* traps the handler.                                                      *)
set(k, e) ==
    /\ Call
    /\ handler_updates' = [handler_updates EXCEPT ![k] = accumulate(@, Op("Update", e))]
    /\ IF validate(e)
       THEN UNCHANGED <<current, phase>>
       ELSE /\ current' = Cache({k})
            /\ phase' = IF validate(apply_to(handler_updates'[k],
                                             apply_to(updates[k], get_entity(k))))
                        THEN phase ELSE "trapped"
    /\ result' = Nothing
    /\ UNCHANGED <<store, parent, updates, errors, mods>>

remove(k) ==
    /\ Call
    /\ handler_updates' = [handler_updates EXCEPT ![k] = accumulate(@, Op("Remove", Empty))]
    /\ result' = Nothing
    /\ UNCHANGED <<store, parent, current, updates, errors, mods, phase>>

(***************************************************************************)
(* The handlers of a block.                                                *)
(***************************************************************************)
NoOps == [k \in Keys |-> NoOp]

process_block ==
    /\ phase = "idle"
    /\ phase' = "block"
    /\ errors' = FALSE
    /\ calls' = 0
    /\ result' = Nothing
    /\ UNCHANGED <<store, parent, current, updates, handler_updates, mods>>

enter_handler ==
    /\ phase = "block"
    /\ phase' = "handler"
    /\ result' = Nothing
    /\ UNCHANGED <<store, parent, current, updates, handler_updates, errors, mods, calls>>

exit_handler ==
    /\ phase = "handler"
    /\ phase' = "block"
    /\ updates' = [k \in Keys |-> accumulate(updates[k], handler_updates[k])]
    /\ handler_updates' = NoOps
    /\ result' = Nothing
    /\ UNCHANGED <<store, parent, current, errors, mods, calls>>

(* Mutant: a handler that failed leaves its updates behind.                *)
exit_handler_and_discard_changes_NotCleared ==
    /\ phase \in {"handler", "trapped"}
    /\ phase' = "block"
    /\ errors' = TRUE
    /\ result' = Nothing
    /\ UNCHANGED <<store, parent, current, updates, handler_updates, mods, calls>>

exit_handler_and_discard_changes ==
    /\ phase \in {"handler", "trapped"}
    /\ phase' = "block"
    /\ handler_updates' = NoOps
    /\ errors' = TRUE
    /\ result' = Nothing
    /\ UNCHANGED <<store, parent, current, updates, mods, calls>>

(***************************************************************************)
(* The end of a block.                                                     *)
(***************************************************************************)

(* Reads each proof of indexing and sets it to a digest that depends on    *)
(* what it was; poi holds the new ones.                                    *)
update_proof_of_indexing(poi) ==
    /\ phase = "block"
    /\ \A k \in Poi : poi[k] # apply_to(updates[k], get_entity(k))
    /\ current' = Cache(Poi)
    /\ updates' = [k \in Keys |-> IF k \in Poi THEN accumulate(updates[k], Op("Update", poi[k]))
                                  ELSE updates[k]]
    /\ phase' = "sealed"
    /\ result' = Nothing
    /\ UNCHANGED <<store, parent, handler_updates, errors, mods, calls>>

(* The entity that as_modifications compares the operation with.  Entities *)
(* of immutable types are not looked up in the store.                      *)
Known(k) ==
    IF current[k] # NotCached THEN current[k]
    ELSE IF k \in Immutable THEN None ELSE store[k]

(* What an operation makes of the known entity, and the modification that  *)
(* tells the store about it.                                               *)
Outcome(k) ==
    IF updates[k].op = "Remove" THEN None
    ELSE IF Known(k) = None THEN merge_remove_null_fields(Empty, updates[k].data)
    ELSE IF updates[k].op = "Update" THEN merge_remove_null_fields(Known(k), updates[k].data)
    ELSE updates[k].data

(* Mutant: an entity that was removed and set again is inserted.           *)
Modification_Inserts(k) ==
    IF updates[k].op = "none" \/ Outcome(k) = Known(k) THEN NoOp
    ELSE IF Outcome(k) = None THEN Op("Remove", Empty)
    ELSE IF updates[k].op = "Overwrite" \/ Known(k) = None THEN Op("Insert", Outcome(k))
    ELSE Op("Overwrite", Outcome(k))

Modification(k) ==
    IF updates[k].op = "none" \/ Outcome(k) = Known(k) THEN NoOp
    ELSE IF Outcome(k) = None THEN Op("Remove", Empty)
    ELSE IF Known(k) = None THEN Op("Insert", Outcome(k))
    ELSE Op("Overwrite", Outcome(k))

CacheAfter(k) ==
    IF updates[k].op = "none" THEN current[k]
    ELSE IF updates[k].op = "Remove" /\ Known(k) = None THEN NotCached
    ELSE Outcome(k)

Fatal == errors /\ ~NonFatalErrors

(* Eviction may drop any entries.  After an error that is fatal, only the  *)
(* proofs of indexing go to the store.                                     *)
as_modifications(evicted) ==
    /\ phase = "sealed"
    /\ mods' = [k \in Keys |-> IF Fatal /\ k \notin Poi THEN NoOp ELSE Modification(k)]
    /\ current' = [k \in Keys |-> IF k \in evicted THEN NotCached ELSE CacheAfter(k)]
    /\ updates' = NoOps
    /\ phase' = "transact"
    /\ result' = Nothing
    /\ UNCHANGED <<store, parent, handler_updates, errors, calls>>

Stored(k) ==
    IF mods[k].op = "none" THEN store[k]
    ELSE IF mods[k].op = "Remove" THEN None ELSE mods[k].data

(* The reasons the database has to refuse a modification: a second version *)
(* of an entity, a change of an immutable one, null in a required column.  *)
Refuses(k) ==
    \/ mods[k].op = "Insert" /\ store[k] # None
    \/ mods[k].op \in {"Overwrite", "Remove"} /\ k \in Immutable
    \/ /\ mods[k].op \in {"Insert", "Overwrite"}
       /\ \E f \in Required : mods[k].data[f] \in {Null, Absent}

Refused == \E k \in Keys : Refuses(k)

NoCache == [k \in Keys |-> NotCached]

transact_block_operations ==
    /\ phase = "transact"
    /\ ~Refused
    /\ store' = [k \in Keys |-> Stored(k)]
    /\ parent' = store
    /\ mods' = NoOps
    /\ IF Fatal THEN phase' = "failed" /\ current' = NoCache
                ELSE phase' = "idle" /\ UNCHANGED current
    /\ result' = Nothing
    /\ UNCHANGED <<updates, handler_updates, errors, calls>>

(* An error that is not deterministic, at any point of process_block, or a *)
(* possible reorganisation: the block will be processed again.             *)
revert_state ==
    /\ phase \notin {"idle", "failed"}
    /\ phase' = "idle"
    /\ current' = NoCache
    /\ updates' = NoOps
    /\ handler_updates' = NoOps
    /\ mods' = NoOps
    /\ result' = Nothing
    /\ UNCHANGED <<store, parent, errors, calls>>

(* Mutant: the cache survives a revert.                                    *)
handle_revert_KeepsCache ==
    /\ phase = "idle"
    /\ store' = parent
    /\ result' = Nothing
    /\ UNCHANGED <<parent, current, updates, handler_updates, errors, mods, phase, calls>>

handle_revert ==
    /\ phase = "idle"
    /\ store' = parent
    /\ current' = NoCache
    /\ result' = Nothing
    /\ UNCHANGED <<parent, updates, handler_updates, errors, mods, phase, calls>>

(* A failed subgraph is started again: the failed block is reverted.       *)
run_inner ==
    /\ phase = "failed"
    /\ store' = parent
    /\ phase' = "idle"
    /\ result' = Nothing
    /\ UNCHANGED <<parent, current, updates, handler_updates, errors, mods, calls>>

(* The background writer moves an entity from its queue to the database,   *)
(* where null is the same as no value.                                     *)
NonNull(e) ==
    IF e \in {None, NotCached} THEN e
    ELSE [f \in Fields |-> IF e[f] = Null THEN Absent ELSE e[f]]

Drain(k) ==
    /\ store' = [store EXCEPT ![k] = NonNull(@)]
    /\ result' = Nothing
    /\ UNCHANGED <<parent, current, updates, handler_updates, errors, mods, phase, calls>>

(***************************************************************************)
(* Specification.                                                          *)
(***************************************************************************)
Init ==
    /\ store = [k \in Keys |-> None]
    /\ parent = store
    /\ current = NoCache
    /\ updates = NoOps
    /\ handler_updates = NoOps
    /\ errors = FALSE
    /\ mods = NoOps
    /\ phase = "idle"
    /\ calls = 0
    /\ result = Nothing

HostCall ==
    \/ \E k \in Keys \ Poi : get(k) \/ \E e \in Entity : set(k, e)
    \/ \E k \in Removable : remove(k)

Next ==
    \/ process_block \/ enter_handler \/ HostCall
    \/ exit_handler \/ exit_handler_and_discard_changes
    \/ \E poi \in [Poi -> [Fields -> Values]] : update_proof_of_indexing(poi)
    \/ \E evicted \in SUBSET Keys : as_modifications(evicted)
    \/ transact_block_operations \/ revert_state \/ handle_revert \/ run_inner
    \/ \E k \in Keys : Drain(k)

Spec == Init /\ [][Next]_vars

(***************************************************************************)
(* Properties.                                                             *)
(***************************************************************************)

(* Every variable has a value of the kind the code gives it.               *)
TypeOK ==
    /\ store \in [Keys -> Entity \cup {None}]
    /\ parent \in [Keys -> Entity \cup {None}]
    /\ current \in [Keys -> Entity \cup {None, NotCached}]
    /\ updates \in [Keys -> EntityOp]
    /\ handler_updates \in [Keys -> EntityOp]
    /\ errors \in BOOLEAN
    /\ mods \in [Keys -> [op : {"none", "Insert", "Overwrite", "Remove"}, data : Entity]]
    /\ phase \in Phases
    /\ calls \in 0..MaxCalls
    /\ result \in Entity \cup {None, Nothing}

(* An entry of the cache is the entity that the store holds, or is about   *)
(* to hold: the cache outlives the block whose modifications it was        *)
(* updated with, so it must be dropped whenever those do not get stored.   *)
CacheAgrees ==
    \A k \in Keys :
        /\ current[k] # NotCached
        /\ ~(phase = "transact" /\ (Fatal \/ Refused))
        => NonNull(current[k]) = NonNull(Stored(k))

(* as_modifications knows whether the store has an entity of a mutable     *)
(* type, although it asks the cache first: it inserts only entities that   *)
(* are new, and overwrites and removes only entities that are there.       *)
ModificationsFit ==
    \A k \in Keys \ Immutable :
        /\ mods[k].op = "Insert" => store[k] = None
        /\ mods[k].op \in {"Overwrite", "Remove"} => store[k] # None

(* The assertion after mods.retain in process_block: what is left of a     *)
(* block that failed is one modification, that of the proof of indexing.   *)
OnlyPoiAfterError ==
    (phase = "transact" /\ Fatal) =>
        Cardinality({k \in Keys : mods[k].op # "none"}) = 1

(* The entities as the handlers, the block and the store see them.  A      *)
(* block that the store will refuse is as good as abandoned.               *)
Handed(k) ==
    IF phase = "transact"
    THEN IF Refused THEN store[k] ELSE Stored(k)
    ELSE apply_to(updates[k], store[k])

StoredView == [k \in Keys |-> NonNull(store[k])]

BlockView == [k \in Keys |-> NonNull(Handed(k))]

HandlerView == [k \in Keys |-> NonNull(apply_to(handler_updates[k], Handed(k)))]

Running == phase \in {"handler", "trapped"}

ResultView == IF result \in {Nothing, None} THEN result ELSE NonNull(result)

Plain == INSTANCE PlainEntities WITH
    stored <- StoredView, block <- BlockView, scratch <- HandlerView,
    running <- Running, result <- ResultView

(* The cache implements plain entities: a read in a handler returns what   *)
(* the last writes of this handler, of this block and of the blocks before *)
(* left, writes of a failed handler or block have no effect, and a block   *)
(* is stored exactly as its handlers saw it.                               *)
ImplementsPlain == Plain!PlainSpec

====
