-------------------------- MODULE MappingRuntime --------------------------
(***************************************************************************)
(* How the mappings of a deployment run on the triggers of a block: the    *)
(* trigger processor hands a trigger to every host that matches it, a host *)
(* instantiates the WASM module and invokes the handler, the handler calls *)
(* host functions, and whatever stops it is classified as deterministic,   *)
(* as a possible reorg or as unknown. Handlers write to the block's state, *)
(* which a deterministic failure restores, and to the proof of indexing,   *)
(* which a deterministic failure marks.                                    *)
(*                                                                         *)
(* A host function maps the context of a call (the block's state and the   *)
(* proof of indexing) to the set of its results: it may run out of gas or  *)
(* fail at every argument it reads, and what decides that (sizes, texts,   *)
(* answers of other services) is left open.                                *)
(***************************************************************************)
EXTENDS Integers, Sequences, FiniteSets, SequencesExt

CONSTANTS
    Keys,           \* entities of types that the data sources may access
    DeniedKeys,     \* entities of types that are not on their 'entities' list
    Values,         \* contents of an entity
    Templates,      \* the names of the data source templates
    MaxHosts,       \* bound: hosts that match one trigger
    MaxTriggers,    \* bound: triggers in a behaviour
    MaxBlocks,      \* bound: blocks in a behaviour
    MaxCalls,       \* bound: host calls and callbacks in a behaviour
    AllowIpfs,      \* experimental_features.allow_non_deterministic_ipfs
    NonFatalErrors, \* whether the deployment has that feature
    Removed,        \* the update that removes an entity
    None

VARIABLES
    db,         \* the entities in the store
    state,      \* the BlockState of the block
    poi,        \* the BlockEventStream of the block: [events, handler_start]
    digest,     \* the events of the blocks in the store
    waiting,    \* hosts of the trigger that have not run yet
    callback,   \* the BlockState of the callback that ipfs.map runs
    outputs,    \* output states of the callbacks of an ipfs.map call
    errors,     \* error_count when the trigger started
    phase,      \* "block", "trigger", "handler", "map", "callback", "failed" or "panicked"
    triggers,   \* counts triggers
    calls,      \* counts host calls and callbacks
    entered,    \* history: the block's state when the handler was entered
    cause       \* history: the origin of the last recorded error

runtimeVars == <<db, state, poi, digest, waiting, callback, outputs, errors, phase, triggers,
                 calls, entered, cause>>

AllKeys == Keys \cup DeniedKeys
NoUpdates == [k \in AllKeys |-> None]

\* BlockState::new
BlockState == [updates |-> NoUpdates, handler_updates |-> NoUpdates, errors |-> 0,
               created |-> << >>, handler_created |-> << >>, persisted |-> << >>,
               in_handler |-> FALSE]

RuntimeInit ==
    /\ db = [k \in AllKeys |-> Removed]
    /\ state = BlockState
    /\ poi = [events |-> << >>, handler_start |-> 0]
    /\ digest = << >>
    /\ waiting = 0
    /\ callback = BlockState
    /\ outputs = << >>
    /\ errors = 0
    /\ phase = "block"
    /\ triggers = 0
    /\ calls = 0
    /\ entered = BlockState
    /\ cause = None

----------------------------------------------------------------------------
\* The block's state.

Over(old, new) == [k \in AllKeys |-> IF new[k] = None THEN old[k] ELSE new[k]]

enter_handler(s) == [s EXCEPT !.in_handler = TRUE]

exit_handler(s) ==
    [s EXCEPT !.in_handler = FALSE,
              !.created = @ \o s.handler_created, !.handler_created = << >>,
              !.updates = Over(@, s.handler_updates), !.handler_updates = NoUpdates]

exit_handler_and_discard_changes(s) ==
    [s EXCEPT !.in_handler = FALSE, !.handler_created = << >>,
              !.handler_updates = NoUpdates, !.errors = @ + 1]

push_created_data_source(s, ds) == [s EXCEPT !.handler_created = Append(@, ds)]

\* BlockState::extend, on the state of a handler that is running
extend(s, other) ==
    [s EXCEPT !.handler_created = @ \o other.created,
              !.errors = @ + other.errors,
              !.handler_updates = Over(@, other.updates)]

----------------------------------------------------------------------------
\* The proof of indexing.

write(p, event) == [p EXCEPT !.events = Append(@, event)]

start_handler(p) == [p EXCEPT !.handler_start = Len(p.events)]

write_deterministic_error_Unmarked(p) ==
    write(p, [op |-> "DeterministicError", redacted_events |-> 0])
write_deterministic_error(p) ==
    write(p, [op |-> "DeterministicError",
              redacted_events |-> Len(p.events) - p.handler_start])

SetEntity(k, v) == [op |-> "SetEntity", id |-> k, data |-> v]
RemoveEntity(k) == [op |-> "RemoveEntity", id |-> k]

----------------------------------------------------------------------------
\* The results of host functions. A context has the state and the stream; an error is a
\* DeterministicHostError ("Gas" or "Other"), an anyhow::Error ("anyhow") or a
\* HostExportError ("Deterministic", "PossibleReorg" or "Unknown").

Ok(c) == [ctx |-> c, err |-> None, origin |-> None]
Err(c, e) == [ctx |-> c, err |-> e, origin |-> e]

\* The operator `?`: F continues where S succeeded.
Then(S, F(_)) == UNION {IF r.err = None THEN F(r.ctx) ELSE {r} : r \in S}

\* How `?` converts errors into HostExportError, and into anyhow::Error.
from_error(e) == IF e \in {"Gas", "anyhow"} THEN "Unknown"
                 ELSE IF e = "Other" THEN "Deterministic" ELSE e
to_host_export_error(S) == {[r EXCEPT !.err = from_error(@)] : r \in S}
to_anyhow(S) == {[r EXCEPT !.err = IF @ = None THEN None ELSE "anyhow"] : r \in S}

determinism_level(e) ==
    CASE e \in {"Gas", "Other", "Deterministic"} -> "Deterministic"
      [] e = "PossibleReorg" -> "PossibleReorg"
      [] OTHER -> "Unimplemented"

consume_host_fn(c) == {Ok(c), Err(c, "Gas")}

\* asc_get reads an argument: a null pointer, an offset out of bounds and bytes that are
\* not a value of the type are errors.
asc_get(c) == consume_host_fn(c) \cup {Err(c, "Other")}

\* asc_new allocates the result.
asc_new(c) == consume_host_fn(c) \cup {Err(c, "Other")}

----------------------------------------------------------------------------
\* The host functions: the methods of WasmInstanceContext with those of HostExports that
\* they call.

check_entity_type_access(c, k) ==
    IF k \in Keys THEN {Ok(c)} ELSE {Err(c, "Deterministic")}

write_poi_event(c, event) == [c EXCEPT !.poi = write(@, event)]

\* EntityCache::set checks the entity against the schema after it is in the cache.
cache_set(c, k, v) ==
    LET d == [c EXCEPT !.state.handler_updates[k] = v] IN {Ok(d), Err(d, "anyhow")}

host_store_set(c, k, v) ==
    Then(to_host_export_error(check_entity_type_access(write_poi_event(c, SetEntity(k, v)), k)),
         LAMBDA d : Then(to_host_export_error(consume_host_fn(d)),
                         LAMBDA e : to_host_export_error(cache_set(e, k, v))))

store_set(c, k, v) ==
    Then(to_host_export_error(asc_get(c)), LAMBDA d : host_store_set(d, k, v))

host_store_remove(c, k) ==
    Then(to_host_export_error(check_entity_type_access(write_poi_event(c, RemoveEntity(k)), k)),
         LAMBDA d : Then(to_host_export_error(consume_host_fn(d)),
                         LAMBDA e : {Ok([e EXCEPT !.state.handler_updates[k] = Removed])}))

store_remove(c, k) ==
    Then(to_host_export_error(asc_get(c)), LAMBDA d : host_store_remove(d, k))

\* The read itself may fail in the database.
host_store_get(c, k) ==
    Then(to_anyhow(check_entity_type_access(c, k)),
         LAMBDA d : {Err(d, "anyhow")} \cup to_anyhow(consume_host_fn(d)))

\* Without a debug fork a missing entity is null.
store_get(c, k) ==
    Then(to_host_export_error(asc_get(c)),
         LAMBDA d : Then(to_host_export_error(host_store_get(d, k)),
                         LAMBDA e : to_host_export_error(asc_new(e))))

\* Calls with arguments, gas for the work, and a result. The work of HostExports' functions
\* on bytes and strings, on JSON, on BigInt and on BigDecimal may fail: parsing a text,
\* dividing by zero.
work(c) == Then(consume_host_fn(c), LAMBDA d : {Ok(d), Err(d, "Other")})

host_json_fns(c) == work(c)
host_big_int_fns(c) == work(c)
host_big_decimal_fns(c) == work(c)
host_conversion_fns(c) == work(c)

conversion_fns(c) == Then(asc_get(c), LAMBDA d : Then(host_conversion_fns(d), asc_new))
json_fns(c) == Then(asc_get(c), LAMBDA d : Then(host_json_fns(d), asc_new))
big_int_fns(c) == Then(asc_get(c), LAMBDA d : Then(host_big_int_fns(d), asc_new))
big_int_bit_fns(c) == Then(asc_get(c), LAMBDA d : Then(host_big_int_fns(d), asc_new))
big_decimal_fns(c) == Then(asc_get(c), LAMBDA d : Then(host_big_decimal_fns(d), asc_new))

\* json.try_fromBytes and the ethereum codec return an Err value or null to the mapping
\* when the work fails, out of gas included.
json_try_from_bytes(c) ==
    Then(asc_get(c), LAMBDA d : UNION {asc_new(r.ctx) : r \in host_json_fns(d)})

host_codec(c) == work(c)
ethereum_codec(c) ==
    Then(asc_get(c), LAMBDA d : UNION {IF r.err = None THEN asc_new(r.ctx) ELSE {Ok(r.ctx)} :
                                       r \in host_codec(d)})

abort(c) ==
    Then(asc_get(c), LAMBDA d : Then(consume_host_fn(d), LAMBDA e : {Err(e, "Other")}))

log_log(c, level) ==
    Then(asc_get(c),
         LAMBDA d : Then(consume_host_fn(d),
                         LAMBDA e : {IF level = "Critical" THEN Err(e, "Other") ELSE Ok(e)}))

host_data_source_create(c, name) ==
    Then(to_host_export_error(consume_host_fn(c)),
         LAMBDA d : IF name \notin Templates
                    THEN to_host_export_error({Err(d, "Other")})
                    ELSE {Ok([d EXCEPT !.state = push_created_data_source(@, name)])})

data_source_create(c, name) ==
    Then(to_host_export_error(asc_get(c)), LAMBDA d : host_data_source_create(d, name))

\* data_source_address, data_source_network and data_source_context have no arguments.
data_source_fn(c) == Then(consume_host_fn(c), asc_new)

\* Without the experimental feature ipfs and ENS calls are deterministic errors.
deprecated(c) == {Err(c, "Deterministic")}

\* ipfs_cat and ipfs_get_block return null when the file is not available.
ipfs_cat(c) ==
    IF ~AllowIpfs THEN deprecated(c)
    ELSE Then(to_host_export_error(asc_get(c)),
              LAMBDA d : to_host_export_error(asc_new(d) \cup asc_get(d)))

ens_name_by_hash(c) ==
    IF ~AllowIpfs THEN deprecated(c)
    ELSE Then(to_host_export_error(asc_get(c)),
              LAMBDA d : {Ok(d)} \cup to_host_export_error(asc_new(d) \cup {Err(d, "anyhow")}))

\* A host function of the chain (ethereum.call): the call may revert, the block may be
\* unknown to the provider, the provider may fail.
chain_host_fn(c) ==
    Then(to_host_export_error(asc_get(c)),
         LAMBDA d : {Ok(d), Err(d, "Deterministic"), Err(d, "PossibleReorg"), Err(d, "Unknown")})

\* arweave_transaction_data and box_profile
removed_fn(c) == {Err(c, "Deterministic")}

\* Every host function but ipfs.map.
host_call(c) ==
    UNION {UNION {store_set(c, k, v) : v \in Values} : k \in AllKeys}
    \cup UNION {store_remove(c, k) : k \in AllKeys}
    \cup UNION {store_get(c, k) : k \in AllKeys}
    \cup conversion_fns(c) \cup json_fns(c) \cup big_int_fns(c) \cup big_int_bit_fns(c)
    \cup big_decimal_fns(c)
    \cup json_try_from_bytes(c) \cup ethereum_codec(c) \cup abort(c)
    \cup UNION {log_log(c, level) : level \in {"Critical", "Info"}}
    \cup UNION {data_source_create(c, name) : name \in Templates \cup {None}}
    \cup data_source_fn(c) \cup ipfs_cat(c) \cup ens_name_by_hash(c) \cup chain_host_fn(c)
    \cup removed_fn(c)

----------------------------------------------------------------------------
\* The end of a handler.

\* What processing the block's triggers has done is dropped, and the block is processed
\* again: after a restart of the block stream when the error is a possible reorg, after a
\* retry when it is unknown.
Abandon ==
    /\ state' = BlockState
    /\ poi' = [events |-> << >>, handler_start |-> 0]
    /\ waiting' = 0
    /\ callback' = BlockState
    /\ outputs' = << >>
    /\ errors' = 0
    /\ phase' = "block"
    /\ entered' = BlockState
    /\ UNCHANGED <<db, digest>>

\* The trap codes that invoke_handler takes as deterministic, and those it does not.
DeterministicTraps == {"Unreachable"}
OtherTraps == {"StackOverflow"}

Next_host(s, p) ==
    /\ state' = s
    /\ poi' = p
    /\ waiting' = waiting - 1
    /\ callback' = BlockState
    /\ outputs' = << >>
    /\ phase' = "trigger"
    /\ entered' = BlockState
    /\ UNCHANGED <<db, digest, errors>>

\* invoke_handler when the call of the handler has trapped: code is the trap code,
\* level the determinism level of the host function's error.
invoke_handler(c, code, level, origin) ==
    IF \/ level = "PossibleReorg"
       \/ code = "Interrupt"
       \/ code \notin DeterministicTraps /\ level # "Deterministic"
    THEN Abandon /\ UNCHANGED cause
    ELSE /\ Next_host(exit_handler_and_discard_changes(c.state), c.poi)
         /\ cause' = origin

\* The link! macro: the error of a host function traps the handler.
link(c, err, origin) == invoke_handler(c, None, determinism_level(err), origin)

----------------------------------------------------------------------------
\* Actions.

\* process_trigger: the hosts that match the trigger.
process_trigger ==
    /\ phase = "block"
    /\ triggers < MaxTriggers
    /\ triggers' = triggers + 1
    /\ \E n \in 0 .. MaxHosts :
          /\ waiting' = n
          /\ IF n = 0
             THEN UNCHANGED <<poi, phase, errors>>
             ELSE /\ poi' = start_handler(poi)
                  /\ phase' = "trigger"
                  /\ errors' = state.errors
    /\ UNCHANGED <<db, state, digest, callback, outputs, calls, entered, cause>>

\* A trigger that a host cannot decode, a module that cannot be instantiated, a trigger
\* that cannot be passed to it and a mapping thread that is gone are unknown errors.
send_mapping_request_fails ==
    /\ phase = "trigger"
    /\ waiting > 0
    /\ Abandon
    /\ UNCHANGED <<triggers, calls, cause>>

send_mapping_request ==
    /\ phase = "trigger"
    /\ waiting > 0
    /\ phase' = "handler"
    /\ state' = enter_handler(state)
    /\ entered' = state
    /\ UNCHANGED <<db, poi, digest, waiting, callback, outputs, errors, triggers, calls, cause>>

\* The handler calls a host function.
HandlerCalls ==
    /\ phase = "handler"
    /\ calls < MaxCalls
    /\ calls' = calls + 1
    /\ \E r \in host_call([state |-> state, poi |-> poi]) :
          IF r.err # None THEN link(r.ctx, r.err, r.origin)
          ELSE /\ state' = r.ctx.state
               /\ poi' = r.ctx.poi
               /\ UNCHANGED <<db, digest, waiting, callback, outputs, errors, phase, entered,
                              cause>>
    /\ UNCHANGED triggers

\* A trap in WASM code: a trap code, the watchdog's interrupt, or the gas function, whose
\* error is not seen by the instance's deterministic_host_trap.
WasmTraps ==
    /\ phase = "handler"
    /\ \E code \in DeterministicTraps \cup OtherTraps \cup {"Interrupt", "gas"} :
          invoke_handler([state |-> state, poi |-> poi], code, "Unimplemented", code)
    /\ UNCHANGED <<triggers, calls>>

HandlerReturns ==
    /\ phase = "handler"
    /\ Next_host(exit_handler(state), poi)
    /\ UNCHANGED <<triggers, calls, cause>>

\* ipfs.map: every line of the file goes to the callback, in a module and with a block
\* state of its own; the proof of indexing is shared.
ipfs_map ==
    /\ phase = "handler"
    /\ calls < MaxCalls
    /\ calls' = calls + 1
    /\ LET c == [state |-> state, poi |-> poi]
       IN \E r \in IF AllowIpfs THEN to_host_export_error(asc_get(c)) ELSE deprecated(c) :
             IF r.err # None THEN link(r.ctx, r.err, r.origin)
             ELSE /\ phase' = "map"
                  /\ UNCHANGED <<db, state, poi, digest, waiting, callback, outputs, errors,
                                 entered, cause>>
    /\ UNCHANGED triggers

\* The next line: handle_json_callback enters the callback.
handle_json_callback ==
    /\ phase = "map"
    /\ calls < MaxCalls
    /\ calls' = calls + 1
    /\ phase' = "callback"
    /\ callback' = enter_handler(BlockState)
    /\ UNCHANGED <<db, state, poi, digest, waiting, outputs, errors, triggers, entered, cause>>

\* A failure of the stream or of a callback, for whatever reason, is an anyhow::Error.
ipfs_map_fails(c) ==
    link(c, from_error("anyhow"), "anyhow")

CallbackCalls ==
    /\ phase = "callback"
    /\ calls < MaxCalls
    /\ calls' = calls + 1
    /\ \E r \in host_call([state |-> callback, poi |-> poi]) :
          IF r.err # None THEN ipfs_map_fails([state |-> state, poi |-> r.ctx.poi])
          ELSE /\ callback' = r.ctx.state
               /\ poi' = r.ctx.poi
               /\ UNCHANGED <<db, state, digest, waiting, outputs, errors, phase, entered,
                              cause>>
    /\ UNCHANGED triggers

CallbackTraps ==
    /\ phase \in {"map", "callback"}
    /\ ipfs_map_fails([state |-> state, poi |-> poi])
    /\ UNCHANGED <<triggers, calls>>

CallbackReturns ==
    /\ phase = "callback"
    /\ phase' = "map"
    /\ outputs' = Append(outputs, exit_handler(callback))
    /\ callback' = BlockState
    /\ UNCHANGED <<db, state, poi, digest, waiting, errors, triggers, calls, entered, cause>>

\* The end of the file: the output states go into the handler's.
ipfs_map_returns ==
    /\ phase = "map"
    /\ phase' = "handler"
    /\ state' = FoldLeft(extend, state, outputs)
    /\ outputs' = << >>
    /\ UNCHANGED <<db, poi, digest, waiting, callback, errors, triggers, calls, entered, cause>>

\* The end of process_trigger, with its assertion.
TriggerProcessed ==
    /\ phase = "trigger"
    /\ waiting = 0
    /\ phase' = IF state.errors > errors + 1 THEN "panicked" ELSE "block"
    /\ poi' = IF state.errors = errors + 1 THEN write_deterministic_error(poi) ELSE poi
    /\ UNCHANGED <<db, state, digest, waiting, callback, outputs, errors, triggers, calls,
                   entered, cause>>

\* The loop of process_block over created data sources: they are instantiated, and the
\* block's triggers for them are processed.
create_dynamic_data_sources ==
    /\ phase = "block"
    /\ state.created # << >>
    /\ state' = [state EXCEPT !.created = << >>, !.persisted = @ \o state.created]
    /\ UNCHANGED <<db, poi, digest, waiting, callback, outputs, errors, phase, triggers, calls,
                   entered, cause>>

\* The rest of process_block: the stream of the block goes into the digest, and the
\* updates into the store unless an error is fatal.
Stored(s) ==
    [k \in AllKeys |-> IF s.updates[k] = None THEN db[k] ELSE s.updates[k]]
process_block ==
    /\ phase = "block"
    /\ state.created = << >>
    /\ Len(digest) < MaxBlocks
    /\ digest' = Append(digest, poi.events)
    /\ LET fatal == state.errors > 0 /\ ~NonFatalErrors
       IN /\ db' = IF fatal THEN db ELSE Stored(state)
          /\ phase' = IF fatal THEN "failed" ELSE "block"
    /\ state' = BlockState
    /\ poi' = [events |-> << >>, handler_start |-> 0]
    /\ UNCHANGED <<waiting, callback, outputs, errors, triggers, calls, entered, cause>>

RuntimeNext ==
    \/ process_trigger \/ send_mapping_request_fails \/ send_mapping_request
    \/ HandlerCalls \/ WasmTraps \/ HandlerReturns
    \/ ipfs_map \/ handle_json_callback \/ CallbackCalls \/ CallbackTraps
    \/ CallbackReturns \/ ipfs_map_returns
    \/ TriggerProcessed \/ create_dynamic_data_sources \/ process_block

RuntimeSpec == RuntimeInit /\ [][RuntimeNext]_runtimeVars

----------------------------------------------------------------------------
\* Properties.

\* The events that a stream says are in the database: a DeterministicError takes back the
\* events it redacts.
Attested(stream) ==
    FoldLeft(LAMBDA acc, e : IF e.op = "DeterministicError"
                             THEN SubSeq(acc, 1, Len(acc) - e.redacted_events)
                             ELSE Append(acc, e),
             << >>, stream)

Replayed(entities, stream) ==
    FoldLeft(LAMBDA acc, e : [acc EXCEPT ![e.id] = IF e.op = "SetEntity" THEN e.data
                                                   ELSE Removed],
             entities, Attested(stream))

\* The database can be told from the proof of indexing ("no two distinct databases share
\* the same PoI", event.rs): replaying the events that the blocks' streams attest gives
\* the entities in the store. Handlers that fail, callbacks of ipfs.map and blocks that
\* are processed again do not blur it.
PoiTellsDatabase ==
    phase # "failed" =>
        db = FoldLeft(Replayed, [k \in AllKeys |-> Removed], digest)

=============================================================================
