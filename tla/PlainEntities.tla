--------------------------- MODULE PlainEntities ---------------------------
(***************************************************************************)
(* What the entity cache promises to the handlers of a subgraph and to the *)
(* store: plain access to three nested copies of the entities.  A handler  *)
(* works on a copy of its own, which replaces the copy of the block when   *)
(* the handler succeeds and is forgotten when it fails; the copy of the    *)
(* block becomes what is stored in one step, or not at all.  A field has a *)
(* value or is Absent: there are no nulls here, no cache and no operations *)
(* to accumulate.                                                          *)
(***************************************************************************)

CONSTANTS Keys, Poi, Fields, Values, Absent, None, Nothing

Plain == [Fields -> Values \cup {Absent}]

Tables == [Keys -> Plain \cup {None}]

VARIABLES
    stored,    \* the entities in the store, None where there is none
    block,     \* the entities as the block has left them so far
    scratch,   \* the entities as the running handler sees them
    running,   \* whether a handler is running
    result     \* what the last read returned, Nothing after any other step

plainVars == <<stored, block, scratch, running, result>>

PlainInit ==
    /\ stored = [k \in Keys |-> None]
    /\ block = stored
    /\ scratch = stored
    /\ running = FALSE
    /\ result = Nothing

EnterHandler ==
    /\ ~running
    /\ running' = TRUE
    /\ result' = Nothing
    /\ UNCHANGED <<stored, block, scratch>>

Get(k) ==
    /\ running
    /\ result' = scratch[k]
    /\ UNCHANGED <<stored, block, scratch, running>>

(* The fields in kept stay as they are, the others are assigned.           *)
Assigned(e, kept, assigned) ==
    [f \in Fields |-> IF f \notin kept THEN assigned[f]
                      ELSE IF e = None THEN Absent ELSE e[f]]

Set(k) ==
    /\ running
    /\ \E kept \in SUBSET Fields, assigned \in Plain :
          scratch' = [scratch EXCEPT ![k] = Assigned(@, kept, assigned)]
    /\ result' = Nothing
    /\ UNCHANGED <<stored, block, running>>

Remove(k) ==
    /\ running
    /\ scratch' = [scratch EXCEPT ![k] = None]
    /\ result' = Nothing
    /\ UNCHANGED <<stored, block, running>>

ExitHandler ==
    /\ running
    /\ running' = FALSE
    /\ block' = scratch
    /\ result' = Nothing
    /\ UNCHANGED <<stored, scratch>>

Discard ==
    /\ running
    /\ running' = FALSE
    /\ scratch' = block
    /\ result' = Nothing
    /\ UNCHANGED <<stored, block>>

(* The runner itself writes the proofs of indexing, as whole entities.     *)
SetPoi ==
    /\ ~running
    /\ \E poi \in [Poi -> Plain] :
          block' = [k \in Keys |-> IF k \in Poi THEN poi[k] ELSE block[k]]
    /\ scratch' = block'
    /\ result' = Nothing
    /\ UNCHANGED <<stored, running>>

(* Of a block that failed for good only the proof of indexing is kept.     *)
KeepOnlyPoi ==
    /\ ~running
    /\ block' = [k \in Keys |-> IF k \in Poi THEN block[k] ELSE stored[k]]
    /\ scratch' = block'
    /\ result' = Nothing
    /\ UNCHANGED <<stored, running>>

Commit ==
    /\ ~running
    /\ stored' = block
    /\ result' = Nothing
    /\ UNCHANGED <<block, scratch, running>>

Abandon ==
    /\ block' = stored
    /\ scratch' = stored
    /\ running' = FALSE
    /\ result' = Nothing
    /\ UNCHANGED stored

(* The store goes back to an earlier block.                                *)
Revert ==
    /\ ~running
    /\ block = stored
    /\ stored' \in Tables
    /\ block' = stored'
    /\ scratch' = stored'
    /\ result' = Nothing
    /\ UNCHANGED running

Forget ==
    /\ result' = Nothing
    /\ UNCHANGED <<stored, block, scratch, running>>

PlainNext ==
    \/ EnterHandler \/ ExitHandler \/ Discard
    \/ \E k \in Keys : Get(k) \/ Set(k) \/ Remove(k)
    \/ SetPoi \/ KeepOnlyPoi \/ Commit \/ Abandon \/ Revert \/ Forget

PlainSpec == PlainInit /\ [][PlainNext]_plainVars
====
