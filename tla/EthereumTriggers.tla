-------------------------- MODULE EthereumTriggers --------------------------
(***************************************************************************)
(* How Ethereum data becomes handler invocations: the filters a subgraph's *)
(* data sources ask for, the two ways a block's triggers are found (a scan *)
(* of final blocks over RPC, and the block itself while it may still be    *)
(* reorged), the order they are put in, and the data sources' own match.   *)
(*                                                                         *)
(* A topic or a selector is a model value.  An event is [name, types,      *)
(* indexed]: its topic0 is <<name, types>>, and the positions of indexed   *)
(* parameters only tell the events of one topic apart.                     *)
(***************************************************************************)
EXTENDS Integers, Sequences, FiniteSets, SequencesExt, FiniteSetsExt, TLC

CONSTANTS None,                \* no address, no topics, no match
          Failed,              \* an error that fails the subgraph
          GetLogsMaxContracts, \* GRAPH_ETH_GET_LOGS_MAX_CONTRACTS
          MaxTraceAddresses    \* the literal 100 in calls_in_block_range

-----------------------------------------------------------------------------
(* The log filter: edges of a graph between contracts and events, and      *)
(* events of any contract, each with whether a receipt is needed.          *)

topic0(event) == <<event.name, event.types>>

NoLogs == [edges |-> << >>, wildcard |-> << >>]

(* Of two handlers for the same contract and event the later one decides   *)
(* whether the receipt is fetched.                                         *)
log_from_data_sources(dss) ==
    LET add(f, ds, h) ==
            IF ds.address # None
            THEN [f EXCEPT !.edges = (<<ds.address, topic0(h.event)>> :> h.receipt) @@ @]
            ELSE [f EXCEPT !.wildcard = (topic0(h.event) :> h.receipt) @@ @]
    IN  FoldLeft(LAMBDA f, ds : FoldLeft(LAMBDA g, h : add(g, ds, h), f, ds.events), NoLogs, dss)

log_from_mapping(template) ==
    [NoLogs EXCEPT !.wildcard =
        FoldLeft(LAMBDA w, h : (topic0(h.event) :> h.receipt) @@ w, << >>, template.events)]

log_extend(f, g) == [edges |-> g.edges @@ f.edges, wildcard |-> g.wildcard @@ f.wildcard]

log_matches(f, log) ==
    /\ log.topic # None
    /\ \/ <<log.address, log.topic>> \in DOMAIN f.edges
       \/ log.topic \in DOMAIN f.wildcard

requires_transaction_receipt(f, log) ==
    \/ log.topic \in DOMAIN f.wildcard /\ f.wildcard[log.topic]
    \/ /\ <<log.address, log.topic>> \in DOMAIN f.edges
       /\ f.edges[<<log.address, log.topic>>]

(* The requests made for a set of edges: those of a vertex with the most   *)
(* neighbours, in batches of contracts, and then the rest.  Which of them  *)
(* comes first depends on the order of the graph's nodes: every possible   *)
(* outcome is in the set.                                                  *)
Batches(contracts) ==
    LET s == SetToSeq(contracts)
        n == (Len(s) + GetLogsMaxContracts - 1) \div GetLogsMaxContracts
    IN  {Range(SubSeq(s, (i - 1) * GetLogsMaxContracts + 1,
                      Min({i * GetLogsMaxContracts, Len(s)}))) : i \in 1..n}

get_logs_of_vertex(edges, v) ==
    IF v[1] = "contract"
    THEN {[contracts |-> {v[2]}, events |-> {e[2] : e \in {d \in edges : d[1] = v[2]}}]}
    ELSE {[contracts |-> b, events |-> {v[2]}] : b \in Batches({e[1] : e \in {d \in edges : d[2] = v[2]}})}

eth_get_logs_filters(all) ==
    LET touches(e, v) == IF v[1] = "contract" THEN e[1] = v[2] ELSE e[2] = v[2]
        filters[edges \in SUBSET all] ==
            IF edges = {} THEN {{}}
            ELSE LET vertices == {<<"contract", e[1]>> : e \in edges} \cup {<<"event", e[2]>> : e \in edges}
                     degree(v) == Cardinality({e \in edges : touches(e, v)})
                     max == {v \in vertices : \A w \in vertices : degree(w) <= degree(v)}
                 IN  UNION {{get_logs_of_vertex(edges, v) \cup rest :
                                 rest \in filters[{e \in edges : ~touches(e, v)}]} : v \in max}
    IN  filters[all]

-----------------------------------------------------------------------------
(* The call filter: by contract, the first block and the selectors asked   *)
(* for, and selectors of any contract.                                     *)

NoCalls == [contracts |-> << >>, wildcard |-> {}]

call_is_empty(f) == f.contracts = << >> /\ f.wildcard = {}

(* Two entries of one contract: the earlier start, all the selectors.      *)
Merged(a, b) == [start |-> Min({a.start, b.start}), sigs |-> a.sigs \cup b.sigs]

call_extend(f, g) ==
    [contracts |-> [a \in DOMAIN f.contracts \cup DOMAIN g.contracts |->
                        IF a \notin DOMAIN g.contracts THEN f.contracts[a]
                        ELSE IF a \notin DOMAIN f.contracts THEN g.contracts[a]
                        ELSE Merged(f.contracts[a], g.contracts[a])],
     wildcard |-> f.wildcard \cup g.wildcard]

call_from_data_sources(dss) ==
    LET one(ds) == [NoCalls EXCEPT !.contracts = ds.address :> [start |-> ds.start, sigs |-> ds.calls]]
    IN  FoldLeft(LAMBDA f, ds : IF ds.address = None \/ ds.calls = {} THEN f
                                ELSE call_extend(f, one(ds)), NoCalls, dss)

call_from_mapping(template) == [NoCalls EXCEPT !.wildcard = template.calls]

call_matches_NoFallback(f, call) ==
    /\ call.selector # None
    /\ IF call.to \in DOMAIN f.contracts
       THEN f.contracts[call.to].sigs = {} \/ call.selector \in f.contracts[call.to].sigs
       ELSE call.selector \in f.wildcard

call_matches(f, call) ==
    /\ call.selector # None
    /\ IF call.to \in DOMAIN f.contracts
       THEN \/ f.contracts[call.to].sigs = {}
            \/ call.selector \in f.contracts[call.to].sigs \cup f.wildcard
       ELSE call.selector \in f.wildcard

-----------------------------------------------------------------------------
(* The block filter: contracts whose calls make a block interesting, with  *)
(* their first block, and whether every block is.                          *)

NoBlocks == [contracts |-> << >>, every |-> FALSE]

block_extend(f, g) ==
    [every |-> f.every \/ g.every,
     contracts |-> [a \in DOMAIN f.contracts \cup DOMAIN g.contracts |->
                        Min({h.contracts[a] : h \in {i \in {f, g} : a \in DOMAIN i.contracts}})]]

block_from_data_sources(dss) ==
    LET one(ds) == [every |-> "every" \in ds.blocks,
                    contracts |-> IF "call" \in ds.blocks THEN ds.address :> ds.start ELSE << >>]
    IN  FoldLeft(LAMBDA f, ds : IF ds.address = None THEN f ELSE block_extend(f, one(ds)), NoBlocks, dss)

block_from_mapping(template) == [NoBlocks EXCEPT !.every = template.blocks # {}]

(* A block filter's contracts as a call filter that takes any call.        *)
call_from_block_filter(f) ==
    [NoCalls EXCEPT !.contracts = [a \in DOMAIN f.contracts |-> [start |-> f.contracts[a], sigs |-> {}]]]

-----------------------------------------------------------------------------
(* TriggerFilter.                                                          *)

NoFilter == [log |-> NoLogs, call |-> NoCalls, block |-> NoBlocks]

extend(f, dss) ==
    [log   |-> log_extend(f.log, log_from_data_sources(dss)),
     call  |-> call_extend(f.call, call_from_data_sources(dss)),
     block |-> block_extend(f.block, block_from_data_sources(dss))]

extend_with_template(filter, templates) ==
    FoldLeft(LAMBDA f, t : [log   |-> log_extend(f.log, log_from_mapping(t)),
                            call  |-> call_extend(f.call, call_from_mapping(t)),
                            block |-> block_extend(f.block, block_from_mapping(t))],
             filter, templates)

requires_traces(f) == ~call_is_empty(f.call) \/ f.block.contracts # << >>

-----------------------------------------------------------------------------
(* Triggers.  A log is [address, topic, indexed, tx, index], a call is     *)
(* [to, selector, tx, args, output], and a block has the logs, the traces  *)
(* and whether each transaction succeeded (tx 0 is the block's hash, which *)
(* Celo gives as the transaction of epoch rewards).                        *)

LogTrigger(log, receipt) == [kind |-> "log", log |-> log, receipt |-> receipt]
CallTrigger(call) == [kind |-> "call", call |-> call]
EveryBlock == [kind |-> "block", to |-> None]
BlockWithCallTo(address) == [kind |-> "block", to |-> address]

Tx(t) == IF t.kind = "log" THEN t.log.tx ELSE t.call.tx

(* Ord for EthereumTrigger: block triggers come last and are all equal;    *)
(* logs by their index, calls by their transaction; of one transaction the *)
(* logs come first.                                                        *)
Before(a, b) ==
    /\ a.kind # "block"
    /\ IF b.kind = "block" THEN TRUE
       ELSE IF a.kind = b.kind
       THEN IF a.kind = "log" THEN a.log.index < b.log.index ELSE a.call.tx < b.call.tx
       ELSE Tx(a) < Tx(b) \/ (Tx(a) = Tx(b) /\ a.kind = "log")

(* PartialEq: a log is itself by its transaction, index and receipt.       *)
Same(a, b) ==
    IF a.kind = "log" /\ b.kind = "log"
    THEN <<a.log.tx, a.log.index, a.receipt>> = <<b.log.tx, b.log.index, b.receipt>>
    ELSE a = b

StableSort(s) ==
    LET before(i, j) == Before(s[i], s[j]) \/ (i < j /\ ~Before(s[j], s[i]))
        place(i) == Cardinality({j \in DOMAIN s : before(j, i)}) + 1
    IN  [k \in DOMAIN s |-> s[CHOOSE i \in DOMAIN s : place(i) = k]]

(* BlockWithTriggers::new: sort, then drop a trigger equal to the one      *)
(* before it.                                                              *)
BlockWithTriggers(triggers) ==
    LET dedup(s) == FoldLeftDomain(LAMBDA kept, i : IF i > 1 /\ Same(s[i - 1], s[i]) THEN kept
                                                    ELSE Append(kept, s[i]), << >>, s)
    IN  dedup(StableSort(triggers))

Calls(traces) ==
    LET isCall(t) == ~t.error /\ t.call.selector # None /\ t.call.tx # None
        kept == SelectSeq(traces, isCall)
    IN  [i \in DOMAIN kept |-> kept[i].call]

-----------------------------------------------------------------------------
(* The triggers of a block that may still be reorged, from the block.      *)

parse_log_triggers(filter, block) ==
    LET matching == SelectSeq(block.logs, LAMBDA l : log_matches(filter.log, l))
    IN  [i \in DOMAIN matching |-> LogTrigger(matching[i], TRUE)]

transaction_for_call_succeeded(block, call) == block.succeeded[call.tx]

parse_call_triggers(filter, calls, block) ==
    LET kept == SelectSeq(calls, LAMBDA c : /\ call_matches(filter.call, c)
                                            /\ transaction_for_call_succeeded(block, c))
    IN  IF call_is_empty(filter.call) THEN << >> ELSE [i \in DOMAIN kept |-> CallTrigger(kept[i])]

parse_block_triggers(filter, calls) ==
    LET any == call_from_block_filter(filter.block)
        kept == SelectSeq(calls, LAMBDA c : call_matches(any, c))
    IN  [i \in DOMAIN kept |-> BlockWithCallTo(kept[i].to)]
            \o (IF filter.block.every THEN <<EveryBlock>> ELSE << >>)

(* Traces are only asked for when a filter needs them and the block has    *)
(* transactions.                                                           *)
get_calls(filter, block) ==
    IF requires_traces(filter) /\ block.succeeded # << >> THEN Calls(block.traces) ELSE << >>

triggers_in_block(filter, block) ==
    LET calls == get_calls(filter, block)
    IN  BlockWithTriggers(parse_log_triggers(filter, block)
                              \o parse_call_triggers(filter, calls, block)
                              \o parse_block_triggers(filter, calls))

-----------------------------------------------------------------------------
(* The triggers of the final blocks from..to, by scanning.                 *)

(* The logs an eth_getLogs request returns, by its contracts and events.   *)
eth_getLogs(block, f) ==
    SelectSeq(block.logs, LAMBDA l : /\ f.contracts = {} \/ l.address \in f.contracts
                                     /\ l.topic \in f.events)

(* A log comes with its receipt when the receipt of its transaction is     *)
(* needed for some log of the transaction.                                 *)
get_transaction_receipts(filter, logs, api7) ==
    {l.tx : l \in {m \in Range(logs) : api7 /\ requires_transaction_receipt(filter.log, m)}}

get_logs_and_transactions(filter, block, getLogs, api7) ==
    LET requests == SetToSeq({[contracts |-> {}, events |-> {e}] : e \in DOMAIN filter.log.wildcard} \cup getLogs)
        logs == FlattenSeq([i \in DOMAIN requests |-> eth_getLogs(block, requests[i])])
        receipts == get_transaction_receipts(filter, logs, api7)
    IN  [i \in DOMAIN logs |-> LogTrigger(logs[i], logs[i].tx \in receipts)]

calls_in_block_range_Strictly(f, block, to) ==
    LET started == {a \in DOMAIN f.contracts : f.contracts[a].start < to}
        all == Cardinality(started) > MaxTraceAddresses \/ f.wildcard # {}
    IN  IF started = {} /\ f.wildcard = {} THEN << >>
        ELSE SelectSeq(Calls(block.traces),
                       LAMBDA c : (all \/ c.to \in started) /\ call_matches(f, c))

calls_in_block_range(f, block, to) ==
    LET started == {a \in DOMAIN f.contracts : f.contracts[a].start <= to}
        all == Cardinality(started) > MaxTraceAddresses \/ f.wildcard # {}
    IN  IF started = {} /\ f.wildcard = {} THEN << >>
        ELSE SelectSeq(Calls(block.traces),
                       LAMBDA c : (all \/ c.to \in started) /\ call_matches(f, c))

(* The scan for block triggers asks either for every block or for the      *)
(* calls to the filter's contracts, not for both.                          *)
block_triggers_in_range(filter, block, to) ==
    LET calls == calls_in_block_range(call_from_block_filter(filter.block), block, to)
    IN  IF filter.block.every THEN <<EveryBlock>>
        ELSE [i \in DOMAIN calls |-> BlockWithCallTo(calls[i].to)]

(* The three scans run concurrently: `order` is the order they end in.     *)
ScanResults(filter, block, to, getLogs, api7, order) ==
    LET calls == calls_in_block_range(filter.call, block, to)
        found == [logs |-> get_logs_and_transactions(filter, block, getLogs, api7),
                  calls |-> [i \in DOMAIN calls |-> CallTrigger(calls[i])],
                  blocks |-> block_triggers_in_range(filter, block, to)]
    IN  found[order[1]] \o found[order[2]] \o found[order[3]]

(* Calls of failed transactions are dropped once their receipts are known. *)
filter_call_triggers_from_unsuccessful_transactions(triggers, block) ==
    SelectSeq(triggers, LAMBDA t : t.kind = "call" => block.succeeded[t.call.tx])

(* The blocks that are returned, with their triggers: those with any, and  *)
(* `to`.                                                                   *)
blocks_with_triggers(filter, chain, from, to, getLogs, api7, order) ==
    LET found(n) == ScanResults(filter, chain[n], to, getLogs, api7, order)
    IN  [n \in {m \in from..to : m = to \/ found(m) # << >>} |->
            filter_call_triggers_from_unsuccessful_transactions(BlockWithTriggers(found(n)), chain[n])]

-----------------------------------------------------------------------------
(* A data source's match of a trigger.                                     *)

(* The event of the ABI a signature stands for: the one it equals, or the  *)
(* only event of its name when it equals that one but for `indexed`.       *)
contract_event_with_signature(abi, event) ==
    LET named == {e \in abi : e.name = event.name}
    IN  IF event \in abi THEN event
        ELSE IF \E e \in named : named = {e} /\ [e EXCEPT !.indexed = {}] = event
        THEN CHOOSE e \in named : TRUE
        ELSE None

matches_trigger_address(ds, t) ==
    \/ ds.address = None
    \/ t = EveryBlock
    \/ ds.address = (CASE t.kind = "block" -> t.to [] t.kind = "call" -> t.call.to
                       [] t.kind = "log" -> t.log.address)

handlers_for_log(ds, log) == SelectSeq(ds.events, LAMBDA h : topic0(h.event) = log.topic)

handler_for_call(ds, call) == IF call.selector \in ds.calls THEN call.selector ELSE None

handler_for_block(ds, t) ==
    LET type == IF t = EveryBlock THEN "every" ELSE "call"
    IN  IF type \in ds.blocks THEN type ELSE None

(* The functions of the ABI that change state.                             *)
contract_function_with_signature(ds, handler) == handler \in ds.functions

(* Handlers whose event does not decode the log are passed over; one has   *)
(* to be left, and the log's transaction has to be in the block.           *)
match_log(ds, t, block) ==
    LET potential == handlers_for_log(ds, t.log)
        abi(h) == contract_event_with_signature(ds.abi, h.event)
        decodes(h) == Cardinality(abi(h).indexed) = Cardinality(t.log.indexed)
        matching == SelectSeq(potential, decodes)
    IN  IF t.log.topic = None \/ \E i \in DOMAIN potential : abi(potential[i]) = None THEN Failed
        ELSE IF matching = << >> THEN None
        ELSE IF Len(matching) > 1 \/ t.log.tx \notin DOMAIN block.succeeded \cup {0} THEN Failed
        ELSE [handler |-> Last(matching), event |-> abi(Last(matching)), receipt |-> t.receipt]

(* Inputs that do not decode are passed over; outputs that do not, fail.   *)
match_call(ds, t) ==
    LET handler == handler_for_call(ds, t.call)
    IN  IF t.call.selector = None THEN Failed
        ELSE IF handler = None THEN None
        ELSE IF ~contract_function_with_signature(ds, handler) THEN Failed
        ELSE IF ~t.call.args THEN None
        ELSE IF ~t.call.output THEN Failed
        ELSE [handler |-> handler]

match_block(ds, t) ==
    LET handler == handler_for_block(ds, t)
    IN  IF handler = None THEN None ELSE [handler |-> handler]

match_and_decode(ds, t, block) ==
    IF ~matches_trigger_address(ds, t) \/ ds.start > block.number THEN None
    ELSE CASE t.kind = "block" -> match_block(ds, t)
           [] t.kind = "log" -> match_log(ds, t, block)
           [] t.kind = "call" -> match_call(ds, t)

(* The handlers that run for a block's triggers, in order: by trigger and  *)
(* then by data source.  An error while matching fails the subgraph.       *)
process_triggers(dss, triggers, block) ==
    LET add(done, ds, t, m) == IF done = Failed \/ m = Failed THEN Failed
                               ELSE IF m = None THEN done
                               ELSE Append(done, [ds |-> ds, trigger |-> t, match |-> m])
        runs(done, t) == FoldLeft(LAMBDA d, ds : add(d, ds, t, match_and_decode(ds, t, block)), done, dss)
    IN  FoldLeft(runs, << >>, triggers)

-----------------------------------------------------------------------------
(* DataSource::validate: what a manifest's data source may be.             *)

validate(ds) ==
    /\ ds.address = None => ds.calls = {} /\ ds.blocks = {}
    /\ ~ds.api7 => \A i \in DOMAIN ds.events : ~ds.events[i].receipt

(* A data source made from a template, as it is kept in the database and   *)
(* as it is read back.                                                     *)
from_template_info(template, address, context, block) ==
    template @@ [address |-> address, start |-> 0, context |-> context, creation |-> block]

=============================================================================
