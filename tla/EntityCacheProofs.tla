-------------------------- MODULE EntityCacheProofs --------------------------
(***************************************************************************)
(* Theorems about the entity cache, for any keys, fields and values.       *)
(***************************************************************************)
EXTENDS EntityCache, TLAPS

Opt == Entity \cup {None}

(***************************************************************************)
(* Entities and operations.                                                *)
(***************************************************************************)

(* Removing the nulls of an entity leaves an entity.                       *)
LEMMA NonNullType ==
    ASSUME NEW e \in Entity
    PROVE  /\ NonNull(e) = [f \in Fields |-> IF e[f] = Null THEN Absent ELSE e[f]]
           /\ NonNull(e) \in [Fields -> Values \cup {Absent}]
           /\ NonNull(e) \in Entity
           /\ NonNull(e) # None
<1>1. NonNull(e) = [f \in Fields |-> IF e[f] = Null THEN Absent ELSE e[f]]
    BY MarkersAssumption, Zenon DEF NonNull
<1>2. NonNull(e) \in [Fields -> Values \cup {Absent}]
    BY <1>1, Zenon DEF Entity
<1>3. NonNull(e) \in Entity
    BY <1>2, Zenon DEF Entity
<1> QED BY <1>1, <1>2, <1>3, MarkersAssumption, Zenon

(* Nulls play no role in whether there is an entity.                       *)
LEMMA NonNullOpt ==
    ASSUME NEW e \in Opt
    PROVE  /\ NonNull(e) \in Opt
           /\ NonNull(e) = None <=> e = None
<1>1. CASE e = None BY <1>1, MarkersAssumption, Zenon DEF NonNull, Opt
<1>2. CASE e \in Entity BY <1>2, NonNullType, MarkersAssumption, Zenon DEF Opt
<1> QED BY <1>1, <1>2, Zenon DEF Opt

(* Equality up to nulls, field by field.                                   *)
LEMMA NonNullEqual ==
    ASSUME NEW d \in Entity, NEW e \in Entity,
           \A f \in Fields : \/ d[f] = e[f]
                             \/ d[f] \in {Null, Absent} /\ e[f] \in {Null, Absent}
    PROVE  NonNull(d) = NonNull(e)
<1>1. \A f \in Fields : (IF d[f] = Null THEN Absent ELSE d[f]) = (IF e[f] = Null THEN Absent ELSE e[f])
    BY Zenon
<1> QED BY <1>1, NonNullType

(* Entities that are the same but for nulls differ in no field that has a  *)
(* value.                                                                  *)
LEMMA NonNullFields ==
    ASSUME NEW d \in Entity, NEW e \in Entity, NonNull(d) = NonNull(e), NEW f \in Fields
    PROVE  \/ d[f] = e[f]
           \/ d[f] \in {Null, Absent} /\ e[f] \in {Null, Absent}
<1>1. NonNull(d)[f] = NonNull(e)[f] BY Zenon
<1>2. /\ NonNull(d)[f] = IF d[f] = Null THEN Absent ELSE d[f]
      /\ NonNull(e)[f] = IF e[f] = Null THEN Absent ELSE e[f]
    BY NonNullType, Zenon
<1> QED BY <1>1, <1>2, Zenon

(* Removing nulls twice is removing them once.                             *)
LEMMA NonNullTwice ==
    ASSUME NEW e \in Opt
    PROVE  NonNull(NonNull(e)) = NonNull(e)
<1>1. CASE e = None
    BY <1>1, MarkersAssumption, Zenon DEF NonNull
<1>2. CASE e \in Entity
  <2>1. NonNull(e) \in Entity /\ \A f \in Fields : NonNull(e)[f] = IF e[f] = Null THEN Absent ELSE e[f]
      BY <1>2, NonNullType, Zenon
  <2> QED BY <1>2, <2>1, NonNullEqual, Zenon
<1> QED BY <1>1, <1>2, Zenon DEF Opt

(* Merging two entities gives an entity.                                   *)
LEMMA MergeType ==
    ASSUME NEW d \in Entity, NEW e \in Entity
    PROVE  merge(d, e) \in Entity /\ merge_remove_null_fields(d, e) \in Entity
BY Zenon DEF merge, merge_remove_null_fields, Entity

(* The entity without fields is an entity.                                 *)
LEMMA EmptyType ==
    Empty \in Entity
BY Zenon DEF Empty, Entity

(* Applying an operation to an entity that may be missing gives one.       *)
LEMMA ApplyType ==
    ASSUME NEW o \in EntityOp, NEW e \in Opt
    PROVE  apply_to(o, e) \in Opt
BY MergeType, Zenon DEF apply_to, EntityOp, Opt

(* An operation does not tell null from absent.                            *)
LEMMA ApplyCongruence ==
    ASSUME NEW o \in EntityOp, NEW d \in Opt, NEW e \in Opt, NonNull(d) = NonNull(e)
    PROVE  NonNull(apply_to(o, d)) = NonNull(apply_to(o, e))
<1>1. d = None <=> e = None
    BY NonNullOpt, Zenon
<1>2. CASE o.op = "Update" /\ d # None
  <2>1. d \in Entity /\ e \in Entity /\ o.data \in Entity
      BY <1>1, <1>2, Zenon DEF Opt, EntityOp
  <2> DEFINE md == merge_remove_null_fields(d, o.data)
             me == merge_remove_null_fields(e, o.data)
  <2>2. md \in Entity /\ me \in Entity
      BY <2>1, MergeType, Zenon
  <2>3. ASSUME NEW f \in Fields
        PROVE  md[f] = me[f] \/ (md[f] \in {Null, Absent} /\ me[f] \in {Null, Absent})
    <3>1. d[f] = e[f] \/ (d[f] \in {Null, Absent} /\ e[f] \in {Null, Absent})
        BY <2>1, NonNullFields, Zenon
    <3> QED BY <3>1, Zenon DEF merge_remove_null_fields
  <2>4. NonNull(md) = NonNull(me)
      <3> HIDE DEF md, me
      <3> QED BY <2>2, <2>3, NonNullEqual, Zenon
  <2> QED BY <2>4, <1>1, <1>2, Zenon DEF apply_to
<1>3. CASE ~(o.op = "Update" /\ d # None)
    BY <1>1, <1>3, Zenon DEF apply_to
<1> QED BY <1>2, <1>3, Zenon

(* Accumulating operations gives an operation.                             *)
LEMMA AccumulateType ==
    ASSUME NEW o \in EntityOp, NEW next \in EntityOp
    PROVE  accumulate(o, next) \in EntityOp
<1>1. merge(o.data, next.data) \in Entity
    BY MergeType, Zenon DEF EntityOp
<1> QED BY <1>1, Zenon DEF accumulate, EntityOp, Op

(* Accumulating two operations is applying one after the other.            *)
LEMMA AccumulateApply ==
    ASSUME NEW o \in EntityOp, NEW next \in EntityOp, NEW e \in Opt
    PROVE  NonNull(apply_to(accumulate(o, next), e)) = NonNull(apply_to(next, apply_to(o, e)))
<1> DEFINE a == o.data
           b == next.data
<1>0. a \in Entity /\ b \in Entity
    BY Zenon DEF EntityOp
<1>1. CASE next.op # "Update"
    BY <1>1, Zenon DEF accumulate, apply_to, EntityOp, Op
<1>2. CASE next.op = "Update" /\ o.op \in {"none", "Remove"}
    BY <1>2, Zenon DEF accumulate, apply_to, EntityOp, Op
<1>3. CASE next.op = "Update" /\ o.op \in {"Update", "Overwrite"}
  <2>1. /\ accumulate(o, next) = Op(o.op, merge(a, b))
        /\ apply_to(next, apply_to(o, e)) = IF apply_to(o, e) # None
             THEN merge_remove_null_fields(apply_to(o, e), b) ELSE b
      BY <1>3, Zenon DEF accumulate, apply_to
  <2>2. CASE o.op = "Overwrite" \/ e = None
    <3>1. apply_to(o, e) = a
        BY <1>3, <2>2, Zenon DEF apply_to
    <3>2. apply_to(accumulate(o, next), e) = merge(a, b)
        BY <1>3, <2>1, <2>2 DEF apply_to, Op
    <3>3. apply_to(next, apply_to(o, e)) = merge_remove_null_fields(a, b)
        BY <2>1, <3>1, <1>0, MarkersAssumption, Zenon
    <3>4. \A f \in Fields : \/ merge(a, b)[f] = merge_remove_null_fields(a, b)[f]
                            \/ /\ merge(a, b)[f] \in {Null, Absent}
                               /\ merge_remove_null_fields(a, b)[f] \in {Null, Absent}
        BY MarkersAssumption, Zenon DEF merge, merge_remove_null_fields
    <3>5. NonNull(merge(a, b)) = NonNull(merge_remove_null_fields(a, b))
        BY <1>0, <3>4, MergeType, NonNullEqual, Zenon
    <3> QED BY <3>2, <3>3, <3>5, Zenon
  <2>3. CASE o.op = "Update" /\ e # None
    <3>0. e \in Entity
        BY <2>3, Zenon DEF Opt
    <3>1. apply_to(o, e) = merge_remove_null_fields(e, a)
        BY <2>3, Zenon DEF apply_to
    <3>2. apply_to(accumulate(o, next), e) = merge_remove_null_fields(e, merge(a, b))
        BY <2>1, <2>3 DEF apply_to, Op
    <3>3. apply_to(next, apply_to(o, e)) = merge_remove_null_fields(merge_remove_null_fields(e, a), b)
        BY <2>1, <3>1, <3>0, <1>0, MergeType, MarkersAssumption, Zenon
    <3>4. merge_remove_null_fields(e, merge(a, b)) = merge_remove_null_fields(merge_remove_null_fields(e, a), b)
        BY MarkersAssumption, Zenon DEF merge, merge_remove_null_fields
    <3> QED BY <3>2, <3>3, <3>4, Zenon
  <2> QED BY <1>3, <2>2, <2>3, Zenon
<1> QED BY <1>1, <1>2, <1>3, Zenon DEF EntityOp

(***************************************************************************)
(* The inductive invariant: besides the properties to prove, it says which *)
(* of the pending operations and modifications exist in which phase.       *)
(***************************************************************************)
Pending ==
    /\ phase \notin {"handler", "trapped"} => handler_updates = NoOps
    /\ phase \notin {"block", "handler", "trapped", "sealed"} => updates = NoOps
    /\ phase # "transact" => mods = NoOps
    /\ phase = "failed" => current = NoCache

Inv ==
    /\ TypeOK
    /\ Pending
    /\ CacheAgrees
    /\ ModificationsFit

(* The initial state satisfies the invariant.                              *)
LEMMA InvInit ==
    Init => Inv
<1> SUFFICES ASSUME Init PROVE Inv
    BY Zenon
<1>0. NoOp \in EntityOp /\ NoOp.op = "none" /\ NoOp.data \in Entity
    BY EmptyType, Zenon DEF NoOp, EntityOp, Op
<1>1. TypeOK
  <2>1. /\ NoOps \in [Keys -> EntityOp]
        /\ NoOps \in [Keys -> [op : {"none", "Insert", "Overwrite", "Remove"}, data : Entity]]
      BY EmptyType, Zenon DEF NoOps, NoOp, Op, EntityOp
  <2>2. calls \in 0..MaxCalls
      BY FieldsAssumption DEF Init
  <2>3. store \in [Keys -> Entity \cup {None}] /\ current \in [Keys -> Entity \cup {None, NotCached}]
      BY Zenon DEF Init, NoCache
  <2>4. phase \in Phases /\ result \in Entity \cup {None, Nothing} /\ errors \in BOOLEAN
      BY Zenon DEF Init, Phases
  <2> QED BY <2>1, <2>2, <2>3, <2>4, Zenon DEF Init, TypeOK
<1>2. Pending
    BY Zenon DEF Init, Pending
<1>3. CacheAgrees
    BY Zenon DEF Init, CacheAgrees, NoCache
<1>4. ModificationsFit
    BY <1>0, Zenon DEF Init, ModificationsFit, NoOps
<1> QED BY <1>1, <1>2, <1>3, <1>4, Zenon DEF Inv

(* Each action keeps the types.                                            *)
LEMMA TypeStep ==
    ASSUME TypeOK, Next
    PROVE  TypeOK'
<1>0. /\ NoOp \in EntityOp
      /\ NoOps \in [Keys -> EntityOp]
      /\ NoOps \in [Keys -> [op : {"none", "Insert", "Overwrite", "Remove"}, data : Entity]]
      /\ NoCache \in [Keys -> Entity \cup {None, NotCached}]
    BY EmptyType, Zenon DEF NoOp, NoOps, EntityOp, Op, NoCache
<1>1. \A k \in Keys : get_entity(k) \in Opt
    BY Zenon DEF TypeOK, get_entity, Opt
<1>2. \A K : Cache(K) \in [Keys -> Entity \cup {None, NotCached}]
    BY <1>1, Zenon DEF Cache, Opt, TypeOK
<1>3. CASE process_block
  <2>1. calls' \in 0..MaxCalls
      BY <1>3, FieldsAssumption DEF process_block
  <2>2. phase' \in Phases /\ errors' \in BOOLEAN
      BY <1>3, Zenon DEF process_block, Phases
  <2> QED BY <1>3, <2>1, <2>2, Zenon DEF process_block, TypeOK
<1>4. CASE enter_handler
    BY <1>4, Zenon DEF enter_handler, TypeOK, Phases
<1>5. ASSUME NEW k \in Keys, get(k) PROVE TypeOK'
  <2>1. apply_to(handler_updates[k], apply_to(updates[k], get_entity(k))) \in Opt
      BY <1>1, ApplyType, Zenon DEF TypeOK
  <2>2. current' \in [Keys -> Entity \cup {None, NotCached}]
      BY <1>2, <1>5, Zenon DEF get
  <2>3. calls' \in 0..MaxCalls
      BY <1>5, FieldsAssumption DEF get, Call, TypeOK
  <2> QED BY <1>5, <2>1, <2>2, <2>3, Zenon DEF get, Opt, TypeOK
<1>6. ASSUME NEW k \in Keys, NEW e \in Entity, set(k, e) PROVE TypeOK'
  <2>1. Op("Update", e) \in EntityOp
      BY Zenon DEF Op, EntityOp
  <2>2. handler_updates' \in [Keys -> EntityOp]
      BY <1>6, <2>1, AccumulateType, Zenon DEF set, TypeOK
  <2>3. current' \in [Keys -> Entity \cup {None, NotCached}]
      BY <1>2, <1>6 DEF set, TypeOK
  <2>4. calls' \in 0..MaxCalls
      BY <1>6, FieldsAssumption DEF set, Call, TypeOK
  <2>5. phase' \in Phases
      BY <1>6, Zenon DEF set, TypeOK, Phases
  <2> QED BY <1>6, <2>2, <2>3, <2>4, <2>5, Zenon DEF set, TypeOK
<1>7. ASSUME NEW k \in Keys, remove(k) PROVE TypeOK'
  <2>1. Op("Remove", Empty) \in EntityOp
      BY EmptyType, Zenon DEF Op, EntityOp
  <2>2. handler_updates' \in [Keys -> EntityOp]
      BY <1>7, <2>1, AccumulateType, Zenon DEF remove, TypeOK
  <2>4. calls' \in 0..MaxCalls
      BY <1>7, FieldsAssumption DEF remove, Call, TypeOK
  <2> QED BY <1>7, <2>2, <2>4, Zenon DEF remove, TypeOK
<1>8. CASE exit_handler
  <2>1. updates' \in [Keys -> EntityOp]
      BY <1>8, AccumulateType, Zenon DEF exit_handler, TypeOK
  <2> QED BY <1>0, <1>8, <2>1, Zenon DEF exit_handler, TypeOK, Phases
<1>9. CASE exit_handler_and_discard_changes
    BY <1>0, <1>9, Zenon DEF exit_handler_and_discard_changes, TypeOK, Phases
<1>10. ASSUME NEW poi \in [Poi -> [Fields -> Values]], update_proof_of_indexing(poi) PROVE TypeOK'
  <2>1. \A k \in Poi : Op("Update", poi[k]) \in EntityOp
      BY Zenon DEF Op, EntityOp, Entity
  <2>2. updates' \in [Keys -> EntityOp]
      BY <1>10, <2>1, AccumulateType, Zenon DEF update_proof_of_indexing, TypeOK
  <2>3. current' \in [Keys -> Entity \cup {None, NotCached}]
      BY <1>2, <1>10, Zenon DEF update_proof_of_indexing
  <2> QED BY <1>10, <2>2, <2>3, Zenon DEF update_proof_of_indexing, TypeOK, Phases
<1>11. ASSUME NEW evicted \in SUBSET Keys, as_modifications(evicted) PROVE TypeOK'
  <2>1. \A k \in Keys : Known(k) \in Opt
      BY Zenon DEF Known, TypeOK, Opt
  <2>2. \A k \in Keys : Outcome(k) \in Opt
      BY <2>1, EmptyType, MergeType, Zenon DEF Outcome, TypeOK, EntityOp, Opt
  <2>3. \A k \in Keys : Modification(k) \in [op : {"none", "Insert", "Overwrite", "Remove"}, data : Entity]
      BY <2>2, EmptyType, Zenon DEF Modification, NoOp, Op, Opt
  <2>4. \A k \in Keys : CacheAfter(k) \in Entity \cup {None, NotCached}
      BY <2>2, Zenon DEF CacheAfter, TypeOK, Opt
  <2>5. mods' \in [Keys -> [op : {"none", "Insert", "Overwrite", "Remove"}, data : Entity]]
    <3>1. NoOp \in [op : {"none", "Insert", "Overwrite", "Remove"}, data : Entity]
        BY EmptyType, Zenon DEF NoOp, Op
    <3> QED BY <1>11, <2>3, <3>1, Zenon DEF as_modifications
  <2>6. current' \in [Keys -> Entity \cup {None, NotCached}]
      BY <1>11, <2>4, Zenon DEF as_modifications
  <2> QED BY <1>0, <1>11, <2>5, <2>6, Zenon DEF as_modifications, TypeOK, Phases
<1>12. CASE transact_block_operations
  <2>1. store' \in [Keys -> Entity \cup {None}]
      BY <1>12, Zenon DEF transact_block_operations, TypeOK, Stored
  <2>2. current' \in [Keys -> Entity \cup {None, NotCached}] /\ phase' \in Phases
      BY <1>0, <1>12, Zenon DEF transact_block_operations, TypeOK, Phases
  <2> QED BY <1>0, <1>12, <2>1, <2>2, Zenon DEF transact_block_operations, TypeOK
<1>13. CASE revert_state
    BY <1>0, <1>13, Zenon DEF revert_state, TypeOK, Phases
<1>14. CASE handle_revert
    BY <1>0, <1>14, Zenon DEF handle_revert, TypeOK
<1>15. CASE run_inner
    BY <1>15, Zenon DEF run_inner, TypeOK, Phases
<1>16. ASSUME NEW k \in Keys, Drain(k) PROVE TypeOK'
  <2>1. NonNull(store[k]) \in Opt
      BY NonNullOpt, Zenon DEF TypeOK, Opt
  <2> QED BY <1>16, <2>1, Zenon DEF Drain, TypeOK, Opt
<1> QED BY <1>3, <1>4, <1>5, <1>6, <1>7, <1>8, <1>9, <1>10, <1>11, <1>12, <1>13, <1>14,
           <1>15, <1>16, KeysAssumption DEF Next, HostCall

(* Pending operations and modifications are where the phase says.          *)
LEMMA PendingStep ==
    ASSUME Pending, Next
    PROVE  Pending'
<1>1. CASE process_block BY <1>1, Zenon DEF process_block, Pending
<1>2. CASE enter_handler BY <1>2, Zenon DEF enter_handler, Pending
<1>3. ASSUME NEW k \in Keys, get(k) PROVE Pending'
    BY <1>3, Zenon DEF get, Call, Pending
<1>4. ASSUME NEW k \in Keys, NEW e \in Entity, set(k, e) PROVE Pending'
  <2>1. phase = "handler" /\ phase' \in {"handler", "trapped"} /\ mods' = mods
      BY <1>4, Zenon DEF set, Call
  <2> QED BY <2>1, Zenon DEF Pending
<1>5. ASSUME NEW k \in Keys, remove(k) PROVE Pending'
    BY <1>5, Zenon DEF remove, Call, Pending
<1>6. CASE exit_handler BY <1>6, Zenon DEF exit_handler, Pending
<1>7. CASE exit_handler_and_discard_changes
    BY <1>7, Zenon DEF exit_handler_and_discard_changes, Pending
<1>8. ASSUME NEW poi \in [Poi -> [Fields -> Values]], update_proof_of_indexing(poi) PROVE Pending'
    BY <1>8, Zenon DEF update_proof_of_indexing, Pending
<1>9. ASSUME NEW evicted \in SUBSET Keys, as_modifications(evicted) PROVE Pending'
    BY <1>9, Zenon DEF as_modifications, Pending
<1>10. CASE transact_block_operations
    BY <1>10, Zenon DEF transact_block_operations, Pending
<1>11. CASE revert_state BY <1>11, Zenon DEF revert_state, Pending
<1>12. CASE handle_revert BY <1>12, Zenon DEF handle_revert, Pending
<1>13. CASE run_inner BY <1>13, Zenon DEF run_inner, Pending
<1>14. ASSUME NEW k \in Keys, Drain(k) PROVE Pending'
    BY <1>14, Zenon DEF Drain, Pending
<1> QED BY <1>1, <1>2, <1>3, <1>4, <1>5, <1>6, <1>7, <1>8, <1>9, <1>10, <1>11, <1>12, <1>13,
           <1>14, KeysAssumption DEF Next, HostCall

(* Outside of a transaction, cache and store agree directly, and so does   *)
(* what a lookup through the cache finds.                                  *)
LEMMA AgreeElim ==
    ASSUME Inv, phase # "transact", NEW k \in Keys
    PROVE  /\ Stored(k) = store[k]
           /\ current[k] # NotCached => NonNull(current[k]) = NonNull(store[k])
           /\ get_entity(k) \in Opt
           /\ NonNull(get_entity(k)) = NonNull(store[k])
<1>1. mods[k].op = "none"
    BY DEF Inv, Pending, NoOps, NoOp, Op
<1>2. Stored(k) = store[k]
    BY <1>1, Zenon DEF Stored
<1>3. current[k] # NotCached => NonNull(current[k]) = NonNull(store[k])
    BY <1>2, Zenon DEF Inv, CacheAgrees
<1>4. get_entity(k) \in Opt
    BY Zenon DEF get_entity, Opt, Inv, TypeOK
<1> QED BY <1>2, <1>3, <1>4, Zenon DEF get_entity

(* Outside of a transaction it is enough that cache and store agree.       *)
LEMMA AgreeIntro ==
    ASSUME mods' = NoOps,
           \A k \in Keys : current'[k] # NotCached => NonNull(current'[k]) = NonNull(store'[k])
    PROVE  CacheAgrees' /\ ModificationsFit'
<1>1. \A k \in Keys : mods'[k].op = "none"
    BY Zenon DEF NoOps, NoOp, Op
<1>2. \A k \in Keys : Stored(k)' = store'[k]
    BY <1>1, Zenon DEF Stored
<1>3. CacheAgrees'
    BY <1>2, Zenon DEF CacheAgrees
<1>4. ModificationsFit'
    BY <1>1, Zenon DEF ModificationsFit
<1> QED BY <1>3, <1>4, Zenon

(* What as_modifications compares an operation with is what the store has, *)
(* unless it did not look.                                                 *)
LEMMA KnownAgrees ==
    ASSUME Inv, phase = "sealed", NEW k \in Keys
    PROVE  /\ Known(k) \in Opt
           /\ Outcome(k) \in Opt
           /\ ~(k \in Immutable /\ current[k] = NotCached) => NonNull(Known(k)) = NonNull(store[k])
<1>1. Known(k) \in Opt
    BY Zenon DEF Known, Inv, TypeOK, Opt
<1>2. Outcome(k) \in Opt
    BY <1>1, EmptyType, MergeType, Zenon DEF Outcome, Inv, TypeOK, EntityOp, Opt
<1>3. ASSUME ~(k \in Immutable /\ current[k] = NotCached) PROVE NonNull(Known(k)) = NonNull(store[k])
    BY <1>3, AgreeElim, Zenon DEF Known
<1> QED BY <1>1, <1>2, <1>3, Zenon

(* as_modifications keeps cache, modifications and store in agreement.     *)
LEMMA ModificationsStep ==
    ASSUME Inv, NEW evicted \in SUBSET Keys, as_modifications(evicted)
    PROVE  CacheAgrees' /\ ModificationsFit'
<1>0. phase = "sealed" /\ store' = store /\ errors' = errors /\ Inv
    BY Zenon DEF as_modifications
<1>1. ASSUME NEW k \in Keys, mods'[k] = Modification(k), current'[k] # NotCached
      PROVE  NonNull(current'[k]) = NonNull(Stored(k)')
  <2>1. current'[k] = CacheAfter(k)
      BY <1>1, Zenon DEF as_modifications
  <2>2. CASE updates[k].op = "none"
    <3>1. mods'[k].op = "none"
        BY <1>1, <2>2 DEF Modification, NoOp, Op
    <3>2. Stored(k)' = store[k]
        BY <1>0, <3>1, Zenon DEF Stored
    <3> QED BY <1>0, <1>1, <2>1, <2>2, <3>2, AgreeElim, Zenon DEF CacheAfter
  <2>3. CASE updates[k].op # "none"
    <3>1. current'[k] = Outcome(k) /\ ~(updates[k].op = "Remove" /\ Known(k) = None)
        BY <1>1, <2>1, <2>3, Zenon DEF CacheAfter
    <3>2. CASE Outcome(k) = Known(k)
      <4>1. mods'[k].op = "none"
          BY <1>1, <3>2 DEF Modification, NoOp, Op
      <4>2. Stored(k)' = store[k]
          BY <1>0, <4>1 DEF Stored
      <4>3. Known(k) # None
        <5>1. CASE updates[k].op = "Remove"
            BY <3>1, <5>1, Zenon
        <5>2. CASE updates[k].op # "Remove"
            <6>1. updates[k].data \in Entity
                BY Zenon DEF Inv, TypeOK, EntityOp
            <6>2. Known(k) \in Opt
                BY <1>0, KnownAgrees, Zenon
            <6>3. Outcome(k) \in Entity
                BY <5>2, <6>1, <6>2, EmptyType, MergeType, Zenon DEF Outcome, Opt
            <6> QED BY <3>2, <6>3, MarkersAssumption, Zenon
        <5> QED BY <5>1, <5>2, Zenon
      <4>4. ~(k \in Immutable /\ current[k] = NotCached)
          BY <4>3, Zenon DEF Known
      <4> QED BY <1>0, <3>1, <3>2, <4>2, <4>4, KnownAgrees, Zenon
    <3>3. CASE Outcome(k) # Known(k)
      <4>1. Stored(k)' = Outcome(k)
          BY <1>1, <2>3, <3>3 DEF Stored, Modification, Op
      <4> QED BY <3>1, <4>1, Zenon
    <3> QED BY <3>2, <3>3, Zenon
  <2> QED BY <2>2, <2>3, Zenon
<1>2. CacheAgrees'
  <2> SUFFICES ASSUME NEW k \in Keys, current'[k] # NotCached, ~(Fatal \/ Refused)'
               PROVE  NonNull(current'[k]) = NonNull(Stored(k)')
      BY <1>0, Zenon DEF CacheAgrees, as_modifications
  <2>1. ~Fatal
      BY <1>0, Zenon DEF Fatal
  <2>2. mods'[k] = Modification(k)
      BY <2>1, Zenon DEF as_modifications
  <2> QED BY <1>1, <2>2, Zenon
<1>3. ModificationsFit'
  <2> SUFFICES ASSUME NEW k \in Keys \ Immutable
               PROVE  /\ mods'[k].op = "Insert" => store[k] = None
                      /\ mods'[k].op \in {"Overwrite", "Remove"} => store[k] # None
      BY <1>0, Zenon DEF ModificationsFit
  <2>1. Known(k) = None <=> store[k] = None
    <3>1. NonNull(Known(k)) = NonNull(store[k]) /\ Known(k) \in Opt
        BY <1>0, KnownAgrees, Zenon
    <3>2. store[k] \in Opt
        BY Zenon DEF Inv, TypeOK, Opt
    <3> QED BY <3>1, <3>2, NonNullOpt, Zenon
  <2>2. mods'[k] = NoOp \/ mods'[k] = Modification(k)
      BY Zenon DEF as_modifications
  <2>3. NoOp.op = "none"
      BY Zenon DEF NoOp, Op
  <2>4. /\ Modification(k).op = "Insert" => Known(k) = None
        /\ Modification(k).op \in {"Overwrite", "Remove"} => Known(k) # None
      BY <2>3, Zenon DEF Modification, Op
  <2> QED BY <2>1, <2>2, <2>3, <2>4, Zenon
<1> QED BY <1>2, <1>3, Zenon

(* Every step keeps the invariant.                                         *)
LEMMA InvStep ==
    ASSUME Inv, Next
    PROVE  Inv'
<1>0. TypeOK' /\ Pending'
    BY TypeStep, PendingStep, Zenon DEF Inv
<1> SUFFICES CacheAgrees' /\ ModificationsFit'
    BY <1>0, Zenon DEF Inv
<1>1. ASSUME phase # "transact", mods' = mods, store' = store,
             \A k \in Keys : current'[k] \in {current[k], get_entity(k), NotCached}
      PROVE  CacheAgrees' /\ ModificationsFit'
  <2>1. mods' = NoOps
      BY <1>1, Zenon DEF Inv, Pending
  <2>2. \A k \in Keys : current'[k] # NotCached => NonNull(current'[k]) = NonNull(store'[k])
      BY <1>1, AgreeElim, Zenon
  <2> QED BY <2>1, <2>2, AgreeIntro, Zenon
<1>2. ASSUME mods' = NoOps, current' = NoCache
      PROVE  CacheAgrees' /\ ModificationsFit'
    BY <1>2, AgreeIntro, Zenon DEF NoCache
<1>3. CASE process_block BY <1>1, <1>3, Zenon DEF process_block
<1>4. CASE enter_handler BY <1>1, <1>4, Zenon DEF enter_handler
<1>5. ASSUME NEW k \in Keys, get(k) PROVE CacheAgrees' /\ ModificationsFit'
    BY <1>1, <1>5, Zenon DEF get, Call, Cache
<1>6. ASSUME NEW k \in Keys, NEW e \in Entity, set(k, e) PROVE CacheAgrees' /\ ModificationsFit'
  <2>1. phase # "transact" /\ mods' = mods /\ store' = store
      BY <1>6, Zenon DEF set, Call
  <2>2. current' = current \/ current' = Cache({k})
      BY <1>6, Zenon DEF set
  <2> QED BY <1>1, <2>1, <2>2, Zenon DEF Cache
<1>7. ASSUME NEW k \in Keys, remove(k) PROVE CacheAgrees' /\ ModificationsFit'
    BY <1>1, <1>7, Zenon DEF remove, Call
<1>8. CASE exit_handler BY <1>1, <1>8, Zenon DEF exit_handler
<1>9. CASE exit_handler_and_discard_changes
    BY <1>1, <1>9, Zenon DEF exit_handler_and_discard_changes
<1>10. ASSUME NEW poi \in [Poi -> [Fields -> Values]], update_proof_of_indexing(poi)
       PROVE  CacheAgrees' /\ ModificationsFit'
    BY <1>1, <1>10, Zenon DEF update_proof_of_indexing, Cache
<1>11. ASSUME NEW evicted \in SUBSET Keys, as_modifications(evicted)
       PROVE  CacheAgrees' /\ ModificationsFit'
    BY <1>11, ModificationsStep, Zenon
<1>12. CASE transact_block_operations
  <2>1. mods' = NoOps
      BY <1>12, Zenon DEF transact_block_operations
  <2>2. CASE Fatal
      BY <1>2, <1>12, <2>2, Zenon DEF transact_block_operations
  <2>3. CASE ~Fatal
    <3>1. \A k \in Keys : current'[k] # NotCached => NonNull(current'[k]) = NonNull(store'[k])
        BY <1>12, <2>3, Zenon DEF transact_block_operations, Inv, CacheAgrees
    <3> QED BY <2>1, <3>1, AgreeIntro
  <2> QED BY <2>2, <2>3, Zenon
<1>13. CASE revert_state BY <1>2, <1>13, Zenon DEF revert_state
<1>14. CASE handle_revert BY <1>2, <1>14, Zenon DEF handle_revert, Inv, Pending
<1>15. CASE run_inner
  <2>1. mods' = NoOps /\ current' = NoCache
      BY <1>15, Zenon DEF run_inner, Inv, Pending
  <2> QED BY <1>2, <2>1, Zenon
<1>16. ASSUME NEW j \in Keys, Drain(j) PROVE CacheAgrees' /\ ModificationsFit'
  <2>1. \A k \in Keys : store[k] \in Opt /\ store'[k] \in Opt
      BY <1>0, Zenon DEF Inv, TypeOK, Opt
  <2>2. \A k \in Keys : NonNull(store'[k]) = NonNull(store[k])
      BY <1>16, <2>1, NonNullTwice, Zenon DEF Drain, Inv, TypeOK
  <2>3. \A k \in Keys : store'[k] = None <=> store[k] = None
      BY <2>1, <2>2, NonNullOpt, Zenon
  <2>4. current' = current /\ mods' = mods /\ phase' = phase /\ errors' = errors
      BY <1>16, Zenon DEF Drain
  <2>5. (\A k \in Keys : Refuses(k)' <=> Refuses(k)) /\ (Fatal' <=> Fatal)
      BY <2>3, <2>4, Zenon DEF Refuses, Fatal
  <2>6. \A k \in Keys : NonNull(Stored(k)') = NonNull(Stored(k))
      BY <2>2, <2>4, Zenon DEF Stored
  <2>7. CacheAgrees'
      BY <2>4, <2>5, <2>6, Zenon DEF Inv, CacheAgrees, Refused
  <2>8. ModificationsFit'
      BY <2>3, <2>4, Zenon DEF Inv, ModificationsFit
  <2> QED BY <2>7, <2>8, Zenon
<1> QED BY <1>0, <1>3, <1>4, <1>5, <1>6, <1>7, <1>8, <1>9, <1>10, <1>11, <1>12, <1>13, <1>14,
           <1>15, <1>16, KeysAssumption DEF Next, HostCall


(* The invariant holds in every reachable state.                           *)
LEMMA InvAlways ==
    Spec => []Inv
<1>1. Inv /\ [Next]_vars => Inv'
  <2> SUFFICES ASSUME Inv, [Next]_vars PROVE Inv'
      BY Zenon
  <2>1. CASE Next
      BY <2>1, InvStep, Zenon
  <2>2. CASE UNCHANGED vars
      BY <2>2, Zenon DEF vars, Inv, TypeOK, Pending, CacheAgrees, ModificationsFit, Fatal, Refused,
                  Refuses, Stored
  <2> QED BY <2>1, <2>2, Zenon
<1> QED BY <1>1, InvInit, PTL DEF Spec

(* The variables of the cache keep their types: no operation of the cache  *)
(* or of the runner leaves the domain it was written for.                  *)
THEOREM TypeCorrect ==
    Spec => []TypeOK
<1>1. Inv => TypeOK
    BY Zenon DEF Inv
<1> QED BY <1>1, InvAlways, PTL

(* In every reachable state, an entry of the cache is what the store holds *)
(* or is about to hold, up to nulls (EntityCache::get, as_modifications,   *)
(* and the places where the runner drops the cache).                       *)
THEOREM CacheAgreesAlways ==
    Spec => []CacheAgrees
<1>1. Inv => CacheAgrees
    BY Zenon DEF Inv
<1> QED BY <1>1, InvAlways, PTL

(* as_modifications only inserts entities that are new and only overwrites *)
(* and removes entities that exist, for types that are not immutable.      *)
THEOREM ModificationsFitAlways ==
    Spec => []ModificationsFit
<1>1. Inv => ModificationsFit
    BY Zenon DEF Inv
<1> QED BY <1>1, InvAlways, PTL

(***************************************************************************)
(* The cache implements PlainEntities, for mappings that do not remove     *)
(* immutable entities.  The operations pending for an immutable entity are *)
(* then updates.                                                           *)
(***************************************************************************)
UpdatesOnly ==
    \A k \in Immutable : /\ updates[k].op \in {"none", "Update"}
                         /\ handler_updates[k].op \in {"none", "Update"}

(* Accumulating updates gives updates.                                     *)
LEMMA AccumulateUpdates ==
    ASSUME NEW o \in EntityOp, NEW next \in EntityOp,
           o.op \in {"none", "Update"}, next.op \in {"none", "Update"}
    PROVE  accumulate(o, next).op \in {"none", "Update"}
BY Zenon DEF accumulate, Op

(* Operations on immutable entities stay updates.                          *)
LEMMA UpdatesOnlyStep ==
    ASSUME Removable \cap Immutable = {}, Inv, UpdatesOnly, Next
    PROVE  UpdatesOnly'
<1> USE DEF UpdatesOnly
<1>0. /\ NoOp.op = "none" /\ \A k \in Immutable : NoOps[k].op = "none"
      /\ Immutable \subseteq Keys
    BY KeysAssumption, Zenon DEF NoOps, NoOp, Op
<1>1. CASE process_block BY <1>1, Zenon DEF process_block
<1>2. CASE enter_handler BY <1>2, Zenon DEF enter_handler
<1>3. ASSUME NEW k \in Keys, get(k) PROVE UpdatesOnly'
    BY <1>3, Zenon DEF get
<1>4. ASSUME NEW k \in Keys, NEW e \in Entity, set(k, e) PROVE UpdatesOnly'
  <2>1. Op("Update", e) \in EntityOp /\ Op("Update", e).op = "Update"
      BY Zenon DEF Op, EntityOp
  <2>2. \A i \in Immutable : handler_updates'[i].op \in {"none", "Update"}
      BY <1>0, <1>4, <2>1, AccumulateUpdates, Zenon DEF set, Inv, TypeOK
  <2> QED BY <1>4, <2>2, Zenon DEF set
<1>5. ASSUME NEW k \in Removable, remove(k) PROVE UpdatesOnly'
    BY <1>0, <1>5, Zenon DEF remove, Inv, TypeOK
<1>6. CASE exit_handler
  <2>1. \A i \in Immutable : updates'[i].op \in {"none", "Update"}
      BY <1>0, <1>6, AccumulateUpdates, Zenon DEF exit_handler, Inv, TypeOK
  <2> QED BY <1>0, <1>6, <2>1, Zenon DEF exit_handler
<1>7. CASE exit_handler_and_discard_changes
    BY <1>0, <1>7, Zenon DEF exit_handler_and_discard_changes
<1>8. ASSUME NEW poi \in [Poi -> [Fields -> Values]], update_proof_of_indexing(poi) PROVE UpdatesOnly'
    BY <1>0, <1>8, KeysAssumption, Zenon DEF update_proof_of_indexing
<1>9. ASSUME NEW evicted \in SUBSET Keys, as_modifications(evicted) PROVE UpdatesOnly'
    BY <1>0, <1>9, Zenon DEF as_modifications
<1>10. CASE transact_block_operations
    BY <1>10, Zenon DEF transact_block_operations
<1>11. CASE revert_state BY <1>0, <1>11, Zenon DEF revert_state
<1>12. CASE handle_revert BY <1>12, Zenon DEF handle_revert
<1>13. CASE run_inner BY <1>13, Zenon DEF run_inner
<1>14. ASSUME NEW k \in Keys, Drain(k) PROVE UpdatesOnly'
    BY <1>14, Zenon DEF Drain
<1> QED BY <1>1, <1>2, <1>3, <1>4, <1>5, <1>6, <1>7, <1>8, <1>9, <1>10, <1>11, <1>12, <1>13,
           <1>14, KeysAssumption DEF Next, HostCall

(* An operation that is not there changes nothing.                         *)
LEMMA ApplyNoOp ==
    ASSUME NEW k \in Keys, NEW e
    PROVE  apply_to(NoOps[k], e) = e
BY Zenon DEF NoOps, NoOp, Op, apply_to

(* What the block hands on is an entity or nothing.                        *)
LEMMA HandedType ==
    ASSUME Inv, NEW k \in Keys
    PROVE  Handed(k) \in Opt /\ store[k] \in Opt /\ Stored(k) \in Opt
<1>1. store[k] \in Opt
    BY Zenon DEF Inv, TypeOK, Opt
<1>2. Stored(k) \in Opt
    BY <1>1, Zenon DEF Stored, Inv, TypeOK, Opt
<1>3. apply_to(updates[k], store[k]) \in Opt
    BY <1>1, ApplyType, Zenon DEF Inv, TypeOK
<1> QED BY <1>1, <1>2, <1>3, Zenon DEF Handed

(* If the store takes the modifications of a block, it will hold what the  *)
(* handlers saw.                                                           *)
LEMMA AcceptedAsSeen ==
    ASSUME Inv, UpdatesOnly, phase = "sealed", NEW k \in Keys,
           Modification(k).op = "Insert" => store[k] = None
    PROVE  NonNull(IF Modification(k).op = "none" THEN store[k]
                   ELSE IF Modification(k).op = "Remove" THEN None ELSE Modification(k).data)
             = NonNull(apply_to(updates[k], store[k]))
<1> DEFINE u == updates[k]
           seen == apply_to(u, Known(k))
<1>0. /\ u \in EntityOp /\ u.data \in Entity /\ store[k] \in Opt
      /\ Known(k) \in Opt /\ Outcome(k) \in Opt
    BY KnownAgrees, Zenon DEF Inv, TypeOK, EntityOp, Opt
<1>1. CASE u.op = "none"
    BY <1>1, Zenon DEF Modification, NoOp, Op, apply_to
<1>2. ASSUME u.op # "none" PROVE NonNull(Outcome(k)) = NonNull(seen)
  <2>1. CASE u.op # "Remove" /\ Known(k) = None
    <3>1. seen = u.data /\ Outcome(k) = merge_remove_null_fields(Empty, u.data)
        BY <1>2, <2>1, Zenon DEF apply_to, Outcome
    <3>2. \A f \in Fields : \/ Outcome(k)[f] = u.data[f]
                            \/ Outcome(k)[f] \in {Null, Absent} /\ u.data[f] \in {Null, Absent}
        BY <3>1, Zenon DEF merge_remove_null_fields, Empty
    <3>3. Outcome(k) \in Entity
        BY <1>0, <3>1, EmptyType, MergeType, Zenon
    <3> QED BY <1>0, <3>1, <3>2, <3>3, NonNullEqual, Zenon
  <2>2. CASE ~(u.op # "Remove" /\ Known(k) = None)
      BY <1>0, <1>2, <2>2, Zenon DEF apply_to, Outcome, EntityOp
  <2> QED BY <2>1, <2>2, Zenon
<1>3. CASE u.op # "none" /\ NonNull(Known(k)) = NonNull(store[k])
  <2>1. NonNull(seen) = NonNull(apply_to(u, store[k]))
      BY <1>0, <1>3, ApplyCongruence, Zenon
  <2>2. CASE Outcome(k) = Known(k)
    <3>1. Modification(k).op = "none"
        BY <2>2, Zenon DEF Modification, NoOp, Op
    <3> QED BY <1>2, <1>3, <2>1, <2>2, <3>1, Zenon
  <2>3. CASE Outcome(k) # Known(k)
    <3>1. Outcome(k) = None => Modification(k).op = "Remove"
        BY <1>3, <2>3, Zenon DEF Modification, Op
    <3>2. Outcome(k) # None => Modification(k).op \in {"Insert", "Overwrite"} /\ Modification(k).data = Outcome(k)
        BY <1>3, <2>3, Zenon DEF Modification, Op
    <3> QED BY <1>2, <1>3, <2>1, <3>1, <3>2, Zenon
  <2> QED BY <2>2, <2>3, Zenon
<1>4. CASE u.op # "none" /\ k \in Immutable /\ current[k] = NotCached
  <2>1. Known(k) = None /\ u.op = "Update"
      BY <1>4, Zenon DEF Known, UpdatesOnly
  <2>2. Outcome(k) = merge_remove_null_fields(Empty, u.data)
      BY <2>1, Zenon DEF Outcome
  <2>3. Outcome(k) # None
      BY <1>0, <2>2, EmptyType, MergeType, MarkersAssumption, Zenon
  <2>4. Modification(k).op = "Insert"
      BY <1>4, <2>1, <2>3, Zenon DEF Modification, Op
  <2>5. store[k] = None
      BY <2>4, Zenon
  <2> QED BY <1>3, <1>4, <2>1, <2>5, Zenon
<1> QED BY <1>1, <1>3, <1>4, KnownAgrees, Zenon

(* The views of a state in which nothing is pending are all the same.      *)
LEMMA QuietViews ==
    ASSUME handler_updates = NoOps, updates = NoOps, phase # "transact"
    PROVE  BlockView = StoredView /\ HandlerView = StoredView
<1>1. \A k \in Keys : Handed(k) = store[k]
    BY ApplyNoOp, Zenon DEF Handed
<1>2. \A k \in Keys : apply_to(handler_updates[k], Handed(k)) = store[k]
    BY <1>1, ApplyNoOp, Zenon
<1> QED BY <1>1, <1>2, Zenon DEF BlockView, HandlerView, StoredView

(* The initial state is one of plain entities.                             *)
LEMMA PlainInitially ==
    Init => Plain!PlainInit
<1> SUFFICES ASSUME Init PROVE Plain!PlainInit
    OBVIOUS
<1>1. BlockView = StoredView /\ HandlerView = StoredView
    BY QuietViews, Zenon DEF Init
<1>2. StoredView = [k \in Keys |-> None]
    BY MarkersAssumption, Zenon DEF Init, StoredView, NonNull
<1>3. Running = FALSE /\ ResultView = Nothing
    BY DEF Init, Running, ResultView
<1> QED BY <1>1, <1>2, <1>3, Zenon DEF Plain!PlainInit

(* Handlers: their calls read and write the handler's copy.                *)
LEMMA CallsPlain ==
    ASSUME Inv, NEW k \in Keys, NEW e \in Entity, get(k) \/ set(k, e) \/ remove(k)
    PROVE  Plain!PlainNext
<1>0. /\ phase = "handler" /\ phase' \in {"handler", "trapped"}
      /\ store' = store /\ updates' = updates
    BY Zenon DEF get, set, remove, Call
<1>1. /\ StoredView' = StoredView
      /\ \A i \in Keys : Handed(i)' = Handed(i)
      /\ BlockView' = BlockView
      /\ Running = TRUE /\ Running' = TRUE
    BY <1>0, Zenon DEF StoredView, BlockView, Handed, Running
<1>2. Handed(k) = apply_to(updates[k], store[k]) /\ Handed(k) \in Opt
    BY <1>0, HandedType, Zenon DEF Handed
<1>3. handler_updates[k] \in EntityOp /\ updates[k] \in EntityOp /\ store[k] \in Opt
    BY Zenon DEF Inv, TypeOK, Opt
<1>4. CASE get(k)
  <2>1. NonNull(result') = HandlerView[k]
    <3>1. get_entity(k) \in Opt /\ NonNull(get_entity(k)) = NonNull(store[k])
        BY <1>0, AgreeElim, Zenon
    <3>2. NonNull(apply_to(updates[k], get_entity(k))) = NonNull(Handed(k))
        BY <1>2, <1>3, <3>1, ApplyCongruence
    <3>3. apply_to(updates[k], get_entity(k)) \in Opt
        BY <1>3, <3>1, ApplyType, Zenon
    <3>4. NonNull(result') = NonNull(apply_to(handler_updates[k], Handed(k)))
        BY <1>2, <1>3, <1>4, <3>2, <3>3, ApplyCongruence, Zenon DEF get
    <3> QED BY <3>4, Zenon DEF HandlerView
  <2>2. result' \in Opt
    <3>1. get_entity(k) \in Opt
        BY <1>0, AgreeElim, Zenon
    <3> QED BY <1>3, <1>4, <3>1, ApplyType, Zenon DEF get
  <2>3. ResultView' = NonNull(result')
      BY <2>2, MarkersAssumption, Zenon DEF ResultView, Opt, NonNull
  <2>4. HandlerView' = HandlerView
      BY <1>1, <1>4, Zenon DEF HandlerView, get
  <2>5. Plain!Get(k)
      BY <1>1, <2>1, <2>3, <2>4, Zenon DEF Plain!Get
  <2> QED BY <2>5, Zenon DEF Plain!PlainNext
<1>5. CASE remove(k)
  <2>1. \A i \in Keys : apply_to(handler_updates'[i], Handed(i)) =
            IF i = k THEN None ELSE apply_to(handler_updates[i], Handed(i))
      BY <1>5, Zenon DEF remove, Inv, TypeOK, accumulate, Op, apply_to
  <2>2. HandlerView' = [HandlerView EXCEPT ![k] = None]
      BY <1>1, <2>1, MarkersAssumption, Zenon DEF HandlerView, NonNull
  <2>3. ResultView' = Nothing
      BY <1>5, Zenon DEF remove, ResultView
  <2>4. Plain!Remove(k)
      BY <1>1, <2>2, <2>3, Zenon DEF Plain!Remove
  <2> QED BY <2>4, Zenon DEF Plain!PlainNext
<1>6. CASE set(k, e)
  <2> DEFINE x == apply_to(handler_updates[k], Handed(k))
             y == apply_to(Op("Update", e), x)
             kept == {f \in Fields : e[f] = Absent}
             assigned == [f \in Fields |-> IF e[f] = Null THEN Absent ELSE e[f]]
  <2>1. Op("Update", e) \in EntityOp
      BY Zenon DEF Op, EntityOp
  <2>2. x \in Opt /\ y \in Opt
      BY <1>2, <1>3, <2>1, ApplyType, Zenon
  <2>3. handler_updates' = [handler_updates EXCEPT ![k] = accumulate(@, Op("Update", e))]
      BY <1>6, Zenon DEF set
  <2>4. NonNull(apply_to(handler_updates'[k], Handed(k))) = NonNull(y)
      BY <1>2, <1>3, <2>1, <2>3, AccumulateApply, Zenon DEF Inv, TypeOK
  <2>5. NonNull(y) = Plain!Assigned(NonNull(x), kept, assigned)
    <3>1. CASE x = None
      <4>1. y = e /\ NonNull(x) = None
          BY <3>1, MarkersAssumption, Zenon DEF apply_to, Op, NonNull
      <4>2. NonNull(y) = assigned
          BY <4>1, NonNullType, Zenon
      <4>3. Plain!Assigned(None, kept, assigned) = assigned
          BY Zenon DEF Plain!Assigned
      <4> QED BY <4>1, <4>2, <4>3, Zenon
    <3>2. CASE x \in Entity
      <4>1. y = merge_remove_null_fields(x, e) /\ y \in Entity
          BY <3>2, MergeType, MarkersAssumption, Zenon DEF apply_to, Op
      <4>2. NonNull(x) # None /\ \A f \in Fields : NonNull(x)[f] = IF x[f] = Null THEN Absent ELSE x[f]
          BY <3>2, NonNullType, Zenon
      <4>3. NonNull(y) = [f \in Fields |-> IF y[f] = Null THEN Absent ELSE y[f]]
          BY <4>1, NonNullType, Zenon
      <4>4. \A f \in Fields : (IF y[f] = Null THEN Absent ELSE y[f]) =
                IF f \notin kept THEN assigned[f]
                ELSE IF NonNull(x) = None THEN Absent ELSE NonNull(x)[f]
          <5> HIDE DEF x, y
          <5> QED BY <4>1, <4>2, MarkersAssumption, Zenon DEF merge_remove_null_fields
      <4> HIDE DEF x, y, kept, assigned
      <4> QED BY <4>3, <4>4, Zenon DEF Plain!Assigned
    <3> QED BY <2>2, <3>1, <3>2, Zenon DEF Opt
  <2>6. kept \in SUBSET Fields /\ assigned \in Plain!Plain
      BY Zenon DEF Plain!Plain, Entity
  <2>7. HandlerView' = [HandlerView EXCEPT ![k] = Plain!Assigned(@, kept, assigned)]
    <3>1. \A i \in Keys : i # k => handler_updates'[i] = handler_updates[i]
        BY <2>3, Zenon DEF Inv, TypeOK
    <3>2. HandlerView[k] = NonNull(x)
        BY Zenon DEF HandlerView
    <3>3. \A i \in Keys : NonNull(apply_to(handler_updates'[i], Handed(i))) =
            IF i = k THEN Plain!Assigned(HandlerView[k], kept, assigned) ELSE HandlerView[i]
      <4> HIDE DEF y, kept, assigned
      <4> QED BY <2>4, <2>5, <3>1, <3>2, Zenon DEF HandlerView
    <3>4. HandlerView' = [i \in Keys |-> IF i = k THEN Plain!Assigned(HandlerView[k], kept, assigned)
                                         ELSE HandlerView[i]]
      <4> HIDE DEF y, kept, assigned
      <4> QED BY <1>1, <3>3, Zenon DEF HandlerView
    <3> HIDE DEF y, kept, assigned
    <3> QED BY <3>4, Zenon DEF HandlerView
  <2>8. ResultView' = Nothing
      BY <1>6, Zenon DEF set, ResultView
  <2>9. Plain!Set(k)
    <3> HIDE DEF kept, assigned
    <3> QED BY <1>1, <2>6, <2>7, <2>8, Zenon DEF Plain!Set
  <2> QED BY <2>9, Zenon DEF Plain!PlainNext
<1> QED BY <1>4, <1>5, <1>6, Zenon

(* Handlers: their beginning and end.                                      *)
LEMMA HandlersPlain ==
    ASSUME Inv, process_block \/ enter_handler \/ exit_handler \/ exit_handler_and_discard_changes
    PROVE  Plain!PlainNext
<1>1. ResultView' = Nothing
    BY Zenon DEF process_block, enter_handler, exit_handler, exit_handler_and_discard_changes, ResultView
<1>2. /\ StoredView' = StoredView
      /\ phase # "transact" /\ phase' # "transact"
      /\ \A k \in Keys : Handed(k) = apply_to(updates[k], store[k])
      /\ \A k \in Keys : Handed(k)' = apply_to(updates'[k], store[k])
    BY Zenon DEF process_block, enter_handler, exit_handler, exit_handler_and_discard_changes,
           StoredView, Handed
<1>3. CASE process_block
  <2>1. BlockView' = BlockView /\ HandlerView' = HandlerView /\ (Running' <=> Running)
      BY <1>2, <1>3, Zenon DEF process_block, BlockView, HandlerView, Running
  <2>2. Plain!Forget
      BY <1>1, <1>2, <2>1 DEF Plain!Forget, Running
  <2> QED BY <2>2, Zenon DEF Plain!PlainNext
<1>4. CASE enter_handler
  <2>1. BlockView' = BlockView /\ HandlerView' = HandlerView /\ ~Running /\ Running' = TRUE
      BY <1>2, <1>4, Zenon DEF enter_handler, BlockView, HandlerView, Running
  <2>2. Plain!EnterHandler
      BY <1>1, <1>2, <2>1, Zenon DEF Plain!EnterHandler
  <2> QED BY <2>2, Zenon DEF Plain!PlainNext
<1>5. CASE exit_handler
  <2>1. \A k \in Keys : NonNull(Handed(k)') = NonNull(apply_to(handler_updates[k], Handed(k)))
    <3> SUFFICES ASSUME NEW k \in Keys
                 PROVE  NonNull(Handed(k)') = NonNull(apply_to(handler_updates[k], Handed(k)))
        BY Zenon
    <3>1. updates'[k] = accumulate(updates[k], handler_updates[k])
        BY <1>5, Zenon DEF exit_handler
    <3>2. updates[k] \in EntityOp /\ handler_updates[k] \in EntityOp /\ store[k] \in Opt
        BY Zenon DEF Inv, TypeOK, Opt
    <3> QED BY <1>2, <3>1, <3>2, AccumulateApply
  <2>2. BlockView' = HandlerView
      BY <2>1, Zenon DEF BlockView, HandlerView
  <2>3. HandlerView' = BlockView'
    <3>1. \A k \in Keys : apply_to(handler_updates'[k], Handed(k)') = Handed(k)'
        BY <1>5, ApplyNoOp, Zenon DEF exit_handler
    <3> QED BY <3>1, Zenon DEF HandlerView, BlockView
  <2>4. Running /\ Running' = FALSE
      BY <1>5 DEF exit_handler, Running
  <2>5. Plain!ExitHandler
      BY <1>1, <1>2, <2>2, <2>3, <2>4, Zenon DEF Plain!ExitHandler
  <2> QED BY <2>5, Zenon DEF Plain!PlainNext
<1>6. CASE exit_handler_and_discard_changes
  <2>1. BlockView' = BlockView
      BY <1>2, <1>6, Zenon DEF exit_handler_and_discard_changes, BlockView
  <2>2. HandlerView' = BlockView
    <3>1. \A k \in Keys : apply_to(handler_updates'[k], Handed(k)') = Handed(k)
        BY <1>2, <1>6, ApplyNoOp, Zenon DEF exit_handler_and_discard_changes
    <3> QED BY <3>1, Zenon DEF HandlerView, BlockView
  <2>3. Running /\ Running' = FALSE
      BY <1>6 DEF exit_handler_and_discard_changes, Running
  <2>4. Plain!Discard
      BY <1>1, <1>2, <2>1, <2>2, <2>3, Zenon DEF Plain!Discard
  <2> QED BY <2>4, Zenon DEF Plain!PlainNext
<1> QED BY <1>3, <1>4, <1>5, <1>6, Zenon

(* The end of a block: proofs of indexing.                                 *)
LEMMA PoiPlain ==
    ASSUME Inv, NEW poi \in [Poi -> [Fields -> Values]], update_proof_of_indexing(poi)
    PROVE  Plain!PlainNext
<1>1. /\ phase = "block" /\ phase' = "sealed" /\ store' = store
      /\ handler_updates = NoOps /\ handler_updates' = NoOps
      /\ updates' = [k \in Keys |-> IF k \in Poi THEN accumulate(updates[k], Op("Update", poi[k]))
                                    ELSE updates[k]]
      /\ ResultView' = Nothing /\ StoredView' = StoredView
      /\ Running = FALSE /\ Running' = FALSE
  <2>1. /\ phase = "block" /\ phase' = "sealed" /\ store' = store /\ result' = Nothing
        /\ handler_updates' = handler_updates
        /\ updates' = [k \in Keys |-> IF k \in Poi THEN accumulate(updates[k], Op("Update", poi[k]))
                                      ELSE updates[k]]
      BY Zenon DEF update_proof_of_indexing
  <2>2. handler_updates = NoOps
      BY <2>1, Zenon DEF Inv, Pending
  <2>3. ResultView' = Nothing
      BY <2>1, Zenon DEF ResultView
  <2>4. StoredView' = StoredView
      BY <2>1, Zenon DEF StoredView
  <2>5. Running = FALSE /\ Running' = FALSE
      BY <2>1 DEF Running
  <2> QED BY <2>1, <2>2, <2>3, <2>4, <2>5, Zenon
<1>2. ASSUME NEW k \in Poi PROVE NonNull(apply_to(updates'[k], store[k])) = poi[k]
  <2> DEFINE o == updates[k]
             n == Op("Update", poi[k])
             x == apply_to(o, store[k])
             y == apply_to(n, x)
  <2>0. k \in Keys
      BY KeysAssumption, Zenon
  <2>1. o \in EntityOp /\ n \in EntityOp /\ store[k] \in Opt /\ poi[k] \in Entity
      BY <2>0 DEF Inv, TypeOK, Opt, Op, EntityOp, Entity
  <2>2. x \in Opt
      BY <2>1, ApplyType, Zenon
  <2>3. \A f \in Fields : poi[k][f] \notin {Null, Absent}
      BY MarkersAssumption
  <2>4. y = poi[k]
    <3>1. CASE x = None
        BY <3>1, Zenon DEF apply_to, Op
    <3>2. CASE x # None
      <4>1. y = merge_remove_null_fields(x, poi[k])
          BY <3>2, Zenon DEF apply_to, Op
      <4> QED BY <2>3, <4>1, Zenon DEF merge_remove_null_fields
    <3> QED BY <3>1, <3>2, Zenon
  <2>5. NonNull(poi[k]) = poi[k]
      BY <2>1, <2>3, NonNullType DEF Entity
  <2>6. NonNull(apply_to(accumulate(o, n), store[k])) = NonNull(y)
      BY <2>1, AccumulateApply, Zenon
  <2> QED BY <1>1, <2>0, <2>4, <2>5, <2>6, Zenon
<1>3. \A k \in Keys : /\ Handed(k) = apply_to(updates[k], store[k])
                      /\ Handed(k)' = apply_to(updates'[k], store[k])
    BY <1>1, Zenon DEF Handed
<1>4. BlockView' = [k \in Keys |-> IF k \in Poi THEN poi[k] ELSE BlockView[k]]
    BY <1>1, <1>2, <1>3, Zenon DEF BlockView
<1>5. HandlerView' = BlockView'
  <2>1. \A k \in Keys : apply_to(handler_updates'[k], Handed(k)') = Handed(k)'
      BY <1>1, ApplyNoOp, Zenon
  <2> QED BY <2>1, Zenon DEF HandlerView, BlockView
<1>6. poi \in [Poi -> Plain!Plain]
    BY Zenon DEF Plain!Plain
<1>7. Plain!SetPoi
    BY <1>1, <1>4, <1>5, <1>6, Zenon DEF Plain!SetPoi
<1> QED BY <1>7, Zenon DEF Plain!PlainNext

(* The end of a block: the modifications.                                  *)
LEMMA ModificationsPlain ==
    ASSUME Inv, Inv', UpdatesOnly, NEW evicted \in SUBSET Keys, as_modifications(evicted)
    PROVE  Plain!PlainNext
<1>1. /\ phase = "sealed" /\ phase' = "transact" /\ store' = store
      /\ handler_updates = NoOps /\ handler_updates' = NoOps
      /\ ResultView' = Nothing /\ StoredView' = StoredView
      /\ Running = FALSE /\ Running' = FALSE
  <2>1. /\ phase = "sealed" /\ phase' = "transact" /\ store' = store /\ result' = Nothing
        /\ handler_updates' = handler_updates
      BY Zenon DEF as_modifications
  <2>2. handler_updates = NoOps
      BY <2>1, Zenon DEF Inv, Pending
  <2>3. ResultView' = Nothing
      BY <2>1, Zenon DEF ResultView
  <2>4. StoredView' = StoredView
      BY <2>1, Zenon DEF StoredView
  <2>5. Running = FALSE /\ Running' = FALSE
      BY <2>1 DEF Running
  <2> QED BY <2>1, <2>2, <2>3, <2>4, <2>5, Zenon
<1>2. HandlerView' = BlockView'
  <2>1. \A k \in Keys : apply_to(handler_updates'[k], Handed(k)') = Handed(k)'
      BY <1>1, ApplyNoOp, Zenon
  <2> QED BY <2>1, Zenon DEF HandlerView, BlockView
<1>3. \A k \in Keys : Handed(k) = apply_to(updates[k], store[k])
    BY <1>1, Zenon DEF Handed
<1>4. CASE Refused'
  <2>1. \A k \in Keys : Handed(k)' = store[k]
      BY <1>1, <1>4, Zenon DEF Handed
  <2>2. BlockView' = StoredView
      BY <2>1, Zenon DEF BlockView, StoredView
  <2>3. Plain!Abandon
      BY <1>1, <1>2, <2>2, Zenon DEF Plain!Abandon
  <2> QED BY <2>3, Zenon DEF Plain!PlainNext
<1>5. CASE ~Refused'
  <2>1. \A k \in Keys : Handed(k)' = Stored(k)'
      BY <1>1, <1>5, Zenon DEF Handed
  <2>2. ASSUME NEW k \in Keys, mods'[k] = Modification(k)
        PROVE  NonNull(Stored(k)') = NonNull(Handed(k))
    <3>1. mods'[k].op = "Insert" => store[k] = None
        BY <1>1, <1>5, Zenon DEF Refused, Refuses
    <3>2. Stored(k)' = IF Modification(k).op = "none" THEN store[k]
                       ELSE IF Modification(k).op = "Remove" THEN None ELSE Modification(k).data
        BY <1>1, <2>2, Zenon DEF Stored
    <3> QED BY <1>1, <1>3, <2>2, <3>1, <3>2, AcceptedAsSeen, Zenon
  <2>3. CASE Fatal
    <3>1. \A k \in Keys : mods'[k] = IF k \notin Poi THEN NoOp ELSE Modification(k)
        BY <2>3, Zenon DEF as_modifications
    <3>2. \A k \in Keys : NonNull(Handed(k)') = IF k \in Poi THEN NonNull(Handed(k)) ELSE NonNull(store[k])
      <4>1. ASSUME NEW k \in Keys, k \in Poi PROVE NonNull(Handed(k)') = NonNull(Handed(k))
          BY <2>1, <2>2, <3>1, <4>1, Zenon
      <4>2. ASSUME NEW k \in Keys, k \notin Poi PROVE NonNull(Handed(k)') = NonNull(store[k])
        <5>1. mods'[k].op = "none"
            BY <3>1, <4>2 DEF NoOp, Op
        <5>2. Stored(k)' = store[k]
            BY <1>1, <5>1, Zenon DEF Stored
        <5> QED BY <2>1, <5>2, Zenon
      <4> QED BY <4>1, <4>2, Zenon
    <3>3. BlockView' = [k \in Keys |-> IF k \in Poi THEN BlockView[k] ELSE StoredView[k]]
        BY <3>2, Zenon DEF BlockView, StoredView
    <3>4. Plain!KeepOnlyPoi
        BY <1>1, <1>2, <3>3, Zenon DEF Plain!KeepOnlyPoi
    <3> QED BY <3>4, Zenon DEF Plain!PlainNext
  <2>4. CASE ~Fatal
    <3>1. \A k \in Keys : mods'[k] = Modification(k)
        BY <2>4, Zenon DEF as_modifications
    <3>2. BlockView' = BlockView
        BY <2>1, <2>2, <3>1, Zenon DEF BlockView
    <3>3. HandlerView = BlockView
      <4>1. \A k \in Keys : apply_to(handler_updates[k], Handed(k)) = Handed(k)
          BY <1>1, ApplyNoOp, Zenon
      <4> QED BY <4>1, Zenon DEF HandlerView, BlockView
    <3>4. Plain!Forget
        BY <1>1, <1>2, <3>2, <3>3, Zenon DEF Plain!Forget
    <3> QED BY <3>4, Zenon DEF Plain!PlainNext
  <2> QED BY <2>3, <2>4, Zenon
<1> QED BY <1>4, <1>5, Zenon

(* The store: commits, failures, reverts and the background writer.        *)
LEMMA StorePlain ==
    ASSUME Inv, Inv',
           \/ transact_block_operations \/ revert_state \/ handle_revert \/ run_inner
           \/ \E k \in Keys : Drain(k)
    PROVE  Plain!PlainNext
<1>1. ResultView' = Nothing
    BY Zenon DEF transact_block_operations, revert_state, handle_revert, run_inner, Drain, ResultView
<1>2. CASE transact_block_operations
  <2>1. /\ phase = "transact" /\ phase' \in {"idle", "failed"} /\ ~Refused
        /\ store' = [k \in Keys |-> Stored(k)]
        /\ updates' = updates /\ handler_updates' = handler_updates
      BY <1>2, Zenon DEF transact_block_operations
  <2>2. updates = NoOps /\ handler_updates = NoOps
      BY <2>1, Zenon DEF Inv, Pending
  <2>3. StoredView' = BlockView
      BY <2>1, Zenon DEF StoredView, BlockView, Handed
  <2>4. HandlerView = BlockView
    <3>1. \A k \in Keys : apply_to(handler_updates[k], Handed(k)) = Handed(k)
        BY <2>2, ApplyNoOp, Zenon
    <3> QED BY <3>1, Zenon DEF HandlerView, BlockView
  <2>5. BlockView' = StoredView' /\ HandlerView' = StoredView'
    <3>1. \A k \in Keys : Handed(k)' = store'[k]
        BY <2>1, <2>2, ApplyNoOp, Zenon DEF Handed
    <3>2. \A k \in Keys : apply_to(handler_updates'[k], Handed(k)') = store'[k]
        BY <2>1, <2>2, <3>1, ApplyNoOp, Zenon
    <3> QED BY <3>1, <3>2, Zenon DEF BlockView, HandlerView, StoredView
  <2>6. Running = FALSE /\ Running' = FALSE
      BY <2>1 DEF Running
  <2>7. Plain!Commit
      BY <1>1, <2>3, <2>4, <2>5, <2>6, Zenon DEF Plain!Commit
  <2> QED BY <2>7, Zenon DEF Plain!PlainNext
<1>3. ASSUME updates' = NoOps, handler_updates' = NoOps, phase' # "transact"
      PROVE  BlockView' = StoredView' /\ HandlerView' = StoredView'
  <2>1. \A k \in Keys : Handed(k)' = store'[k]
      BY <1>3, ApplyNoOp, Zenon DEF Handed
  <2>2. \A k \in Keys : apply_to(handler_updates'[k], Handed(k)') = store'[k]
      BY <1>3, <2>1, ApplyNoOp, Zenon
  <2> QED BY <2>1, <2>2 DEF BlockView, HandlerView, StoredView
<1>4. CASE revert_state
  <2>1. BlockView' = StoredView' /\ HandlerView' = StoredView' /\ StoredView' = StoredView
      BY <1>3, <1>4, Zenon DEF revert_state, StoredView
  <2>2. Running' = FALSE
      BY <1>4 DEF revert_state, Running
  <2>3. Plain!Abandon
      BY <1>1, <2>1, <2>2, Zenon DEF Plain!Abandon
  <2> QED BY <2>3, Zenon DEF Plain!PlainNext
<1>5. CASE handle_revert \/ run_inner
  <2>1. /\ phase \in {"idle", "failed"} /\ phase' = "idle"
        /\ updates = NoOps /\ handler_updates = NoOps
        /\ updates' = NoOps /\ handler_updates' = NoOps
      BY <1>5, Zenon DEF handle_revert, run_inner, Inv, Pending
  <2>2. BlockView = StoredView
      BY <2>1, QuietViews, Zenon
  <2>3. BlockView' = StoredView' /\ HandlerView' = StoredView'
      BY <1>3, <2>1, Zenon
  <2>4. StoredView' \in Plain!Tables
    <3>1. \A k \in Keys : NonNull(store'[k]) \in [Fields -> Values \cup {Absent}] \cup {None}
      <4>1. \A k \in Keys : store'[k] \in Entity \cup {None}
          BY Zenon DEF Inv, TypeOK
      <4>2. NonNull(None) = None
          BY Zenon DEF NonNull
      <4> QED BY <4>1, <4>2, NonNullType, Zenon
    <3> QED BY <3>1, Zenon DEF StoredView, Plain!Tables, Plain!Plain
  <2>5. Running = FALSE /\ Running' = FALSE
      BY <2>1 DEF Running
  <2>6. Plain!Revert
      BY <1>1, <2>2, <2>3, <2>4, <2>5, Zenon DEF Plain!Revert
  <2> QED BY <2>6, Zenon DEF Plain!PlainNext
<1>6. ASSUME NEW j \in Keys, Drain(j) PROVE Plain!PlainNext
  <2>1. /\ phase' = phase /\ updates' = updates /\ handler_updates' = handler_updates
        /\ mods' = mods
      BY <1>6, Zenon DEF Drain
  <2>2. \A k \in Keys : store[k] \in Opt /\ store'[k] \in Opt
      BY Zenon DEF Inv, TypeOK, Opt
  <2>3. \A k \in Keys : NonNull(store'[k]) = NonNull(store[k])
      BY <1>6, <2>2, NonNullTwice, Zenon DEF Drain, Inv, TypeOK
  <2>4. Refused' <=> Refused
    <3>1. \A k \in Keys : store'[k] = None <=> store[k] = None
        BY <2>2, <2>3, NonNullOpt, Zenon
    <3> QED BY <2>1, <3>1, Zenon DEF Refused, Refuses
  <2>5. ASSUME NEW k \in Keys PROVE NonNull(Handed(k)') = NonNull(Handed(k))
    <3>1. NonNull(apply_to(updates[k], store'[k])) = NonNull(apply_to(updates[k], store[k]))
        BY <2>2, <2>3, ApplyCongruence, Zenon DEF Inv, TypeOK
    <3>2. NonNull(Stored(k)') = NonNull(Stored(k))
        BY <2>1, <2>3, Zenon DEF Stored
    <3> QED BY <2>1, <2>3, <2>4, <3>1, <3>2, Zenon DEF Handed
  <2>6. \A k \in Keys : NonNull(apply_to(handler_updates'[k], Handed(k)'))
                        = NonNull(apply_to(handler_updates[k], Handed(k)))
    <3>1. \A k \in Keys : Handed(k) \in Opt
        BY HandedType, Zenon
    <3>2. \A k \in Keys : Handed(k)' \in Opt
        BY <2>1, <2>2, <2>4, HandedType, ApplyType, Zenon DEF Handed, Stored, Inv, TypeOK, Opt
    <3> QED BY <2>1, <2>5, <3>1, <3>2, ApplyCongruence DEF Inv, TypeOK
  <2>7. StoredView' = StoredView /\ BlockView' = BlockView /\ HandlerView' = HandlerView
      BY <2>3, <2>5, <2>6, Zenon DEF StoredView, BlockView, HandlerView
  <2>8. Running' = Running
      BY <2>1, Zenon DEF Running
  <2>9. Plain!Forget
      BY <1>1, <2>7, <2>8, Zenon DEF Plain!Forget
  <2> QED BY <2>9, Zenon DEF Plain!PlainNext
<1> QED BY <1>2, <1>4, <1>5, <1>6, Zenon

(* Refinement: for a mapping that does not remove immutable entities, the  *)
(* layers of EntityCache, its eviction, the retained modifications of      *)
(* failed blocks and the nulls that the database forgets are invisible;    *)
(* handlers and store see plain entities.                                  *)
THEOREM CacheImplementsPlain ==
    ASSUME Removable \cap Immutable = {}
    PROVE  Spec => ImplementsPlain
<1>1. Init => Plain!PlainInit /\ UpdatesOnly
  <2>1. Init => UpdatesOnly
      BY KeysAssumption DEF Init, UpdatesOnly, NoOps, NoOp, Op
  <2> QED BY <2>1, PlainInitially, Zenon
<1>2. Inv /\ UpdatesOnly /\ [Next]_vars => UpdatesOnly'
    BY UpdatesOnlyStep, Zenon DEF vars, UpdatesOnly
<1>3. Inv /\ Inv' /\ UpdatesOnly /\ [Next]_vars => [Plain!PlainNext]_(Plain!plainVars)
  <2> SUFFICES ASSUME Inv, Inv', UpdatesOnly, [Next]_vars
               PROVE  [Plain!PlainNext]_(Plain!plainVars)
      BY Zenon
  <2>1. CASE UNCHANGED vars
      BY <2>1, Zenon DEF vars, Plain!plainVars, StoredView, BlockView, HandlerView, Running, ResultView,
                  Handed, Stored, Refused, Refuses
  <2>2. CASE Next
    <3>1. CASE process_block \/ enter_handler \/ exit_handler \/ exit_handler_and_discard_changes
        BY <3>1, HandlersPlain, Zenon
    <3>2. CASE HostCall
        BY <3>2, CallsPlain, EmptyType, KeysAssumption, Zenon DEF HostCall
    <3>3. CASE \E poi \in [Poi -> [Fields -> Values]] : update_proof_of_indexing(poi)
        BY <3>3, PoiPlain, Zenon
    <3>4. CASE \E evicted \in SUBSET Keys : as_modifications(evicted)
        BY <3>4, ModificationsPlain, Zenon
    <3>5. CASE transact_block_operations \/ revert_state \/ handle_revert \/ run_inner
        BY <3>5, StorePlain, Zenon
    <3>6. CASE \E k \in Keys : Drain(k)
        BY <3>6, StorePlain, Zenon
    <3> QED BY <2>2, <3>1, <3>2, <3>3, <3>4, <3>5, <3>6, Zenon DEF Next
  <2> QED BY <2>1, <2>2, Zenon
<1> QED BY <1>1, <1>2, <1>3, InvAlways, PTL DEF Spec, ImplementsPlain, Plain!PlainSpec
====
