----------------------------- MODULE MCTriggers -----------------------------
(***************************************************************************)
(* The triggers of small chains for small manifests, one input at a time.  *)
(* Contracts "a" and "b"; events E and F; functions "f" and "g"; of each   *)
(* block's transactions 1, 2 and 3 the second one fails.                   *)
(***************************************************************************)
EXTENDS EthereumTriggers

VARIABLE asked

E == [name |-> "E", types |-> "u", indexed |-> {}]
F == [name |-> "F", types |-> "u", indexed |-> {1}]

DataSource(address, start, events, calls, blocks) ==
    [address |-> address, start |-> start, events |-> events, calls |-> calls, blocks |-> blocks,
     abi |-> {E, F}, functions |-> {"f", "g"}, api7 |-> TRUE]
Handler(event, receipt) == [event |-> event, receipt |-> receipt]

Numbered(logs) == [i \in DOMAIN logs |-> logs[i] @@ [index |-> i]]
Block(number, logs, traces) ==
    [number |-> number, logs |-> Numbered(logs), traces |-> traces, succeeded |-> <<TRUE, FALSE, TRUE>>]
Log(address, event, indexed, tx) ==
    [address |-> address, topic |-> IF event = None THEN None ELSE topic0(event), indexed |-> indexed, tx |-> tx]
Trace(to, selector, tx) ==
    [error |-> FALSE, call |-> [to |-> to, selector |-> selector, tx |-> tx, args |-> TRUE, output |-> TRUE]]

-----------------------------------------------------------------------------
(* Manifests with event handlers, and blocks with logs.                    *)

EventLists(n) ==
    {<< >>} \cup {<<Handler(e, r)>> : e \in {E, F}, r \in BOOLEAN}
        \cup {<<Handler(E, r), Handler(F, FALSE)>> : r \in {s \in BOOLEAN : n = 2}}
LogSources(n) == {DataSource(a, 1, ev, {}, {}) : a \in {"a", "b", None}, ev \in EventLists(n)}

LogsOf(tx) == {Log("a", E, {}, tx), Log("a", F, {1}, tx), Log("a", F, {}, tx),
               Log("a", None, {}, tx), Log("b", E, {}, tx)}
LogLists == {<< >>} \cup {<<l>> : l \in LogsOf(1)}
                \cup {<<l, m>> : l \in LogsOf(1), m \in LogsOf(1) \cup LogsOf(2)}

AskLogs ==
    \E s \in LogSources(2), t \in LogSources(1), api7 \in BOOLEAN :
        LET dss == IF api7 THEN <<s, t>> ELSE <<[s EXCEPT !.api7 = FALSE], [t EXCEPT !.api7 = FALSE]>>
        IN  /\ \A i \in 1..2 : validate(dss[i])
            /\ asked' = [kind |-> "logs", dss |-> dss, dynamic |-> << >>, templates |-> << >>, api7 |-> api7]

LogsGiven ==
    /\ asked.kind = "logs"
    /\ \E logs \in LogLists :
           asked' = [asked EXCEPT !.kind = "chain"]
                        @@ [chain |-> <<Block(1, logs, << >>), Block(2, << >>, << >>)>>]

-----------------------------------------------------------------------------
(* Manifests with call and block handlers, and blocks with calls.          *)

CallSources(a) ==
    {DataSource(a, start, IF a = "a" THEN <<Handler(E, FALSE)>> ELSE << >>, calls, blocks) :
        start \in {1, 2}, calls \in {{}, {"f"}}, blocks \in SUBSET {"every", "call"}}

Traces == {Trace("a", "f", 1), Trace("a", "g", 1), Trace("b", "f", 1), Trace("b", "f", 2),
           Trace("a", "f", 3), Trace("a", None, 3), [Trace("b", "f", 1) EXCEPT !.error = TRUE],
           Trace("b", "g", None)}
TraceLists == {<< >>} \cup {<<t>> : t \in Traces}
                  \cup {<<t, u>> : t \in {v \in Traces : v.call.tx = 1}, u \in Traces}

AskCalls ==
    \E s \in CallSources("a"), t \in CallSources("a") \cup CallSources("b") :
        /\ validate(s) /\ validate(t)
        /\ asked' = [kind |-> "calls", dss |-> <<s, t>>, dynamic |-> << >>, templates |-> << >>, api7 |-> TRUE]

CallsGiven ==
    /\ asked.kind = "calls"
    /\ \E traces \in TraceLists, second \in {<< >>, <<Trace("a", "f", 1)>>},
          address \in {"a"} \cup {ds.address : ds \in Range(asked.dynamic)} :
           /\ second # << >> => Len(traces) <= 1
           /\ asked' = [asked EXCEPT !.kind = "chain"]
                           @@ [chain |-> <<Block(1, <<Log(address, E, {}, 3)>>, traces), Block(2, << >>, second)>>]

(* A template with an instance, and the filter made from the static data   *)
(* source and the template alone.                                          *)
AskTemplates ==
    \E s \in CallSources("a"), calls \in {{}, {"f"}, {"g"}}, blocks \in {{}, {"every"}},
       address \in {"a", "b"} :
        LET t == [name |-> "T", manifest_idx |-> 1, events |-> <<Handler(E, TRUE)>>, calls |-> calls,
                  blocks |-> blocks, abi |-> {E, F}, functions |-> {"f", "g"}, api7 |-> TRUE]
        IN  asked' = [kind |-> "calls", dss |-> <<s>>, templates |-> <<t>>, api7 |-> TRUE,
                      dynamic |-> <<from_template_info(t, address, "context", 1)>>]

-----------------------------------------------------------------------------
TriggersInit == asked = [kind |-> "none"]
TriggersNext ==
    \/ asked.kind = "none" /\ (AskTemplates \/ AskCalls \/ AskLogs)
    \/ CallsGiven
    \/ LogsGiven
TriggersSpec == TriggersInit /\ [][TriggersNext]_asked

-----------------------------------------------------------------------------
(* Derived from what is asked.                                             *)

Filter ==
    IF asked.templates = << >> THEN extend(NoFilter, asked.dss)
    ELSE extend_with_template(extend(NoFilter, asked.dss), asked.templates)
Hosts == asked.dss \o asked.dynamic
GetLogs(f) == CHOOSE g \in eth_get_logs_filters(DOMAIN f.log.edges) : TRUE
Scan(f, from, to, order) == blocks_with_triggers(f, asked.chain, from, to, GetLogs(f), asked.api7, order)

(* The handlers that run, with a receipt only where one was asked for.     *)
Seen(runs) ==
    IF runs = Failed THEN Failed
    ELSE [i \in DOMAIN runs |->
             LET r == runs[i]
             IN  IF r.trigger.kind = "log"
                 THEN [ds |-> r.ds, log |-> r.trigger.log, handler |-> r.match.handler, event |-> r.match.event,
                       receipt |-> asked.api7 /\ r.match.handler.receipt /\ r.match.receipt]
                 ELSE [ds |-> r.ds, trigger |-> r.trigger, handler |-> r.match.handler]]

(* Handlers of one contract and event agree on the receipt, and block      *)
(* handlers with and without the call filter are not mixed.                *)
Uniform ==
    /\ ~Filter.block.every \/ Filter.block.contracts = << >>
    /\ \A s \in Range(asked.dss), t \in Range(asked.dss) :
           \A h \in Range(s.events), k \in Range(t.events) :
               h.event = k.event => h.receipt = k.receipt

-----------------------------------------------------------------------------

(* Scanning final blocks and looking at the blocks themselves run the same *)
(* handlers on the same data in the same order, whatever ranges the scan   *)
(* is split in, so a subgraph indexes the same data whether it is syncing  *)
(* or at the head of the chain.                                            *)
ScanAgreesWithLive ==
    asked.kind = "chain" /\ asked.dynamic = << >> /\ Uniform =>
        \A from \in 1..2 : \A to \in from..2 :
            LET scanned == Scan(Filter, from, to, <<"logs", "calls", "blocks">>)
            IN  \A n \in from..to :
                    Seen(process_triggers(Hosts, triggers_in_block(Filter, asked.chain[n]), asked.chain[n]))
                        = IF n \in DOMAIN scanned
                          THEN Seen(process_triggers(Hosts, scanned[n], asked.chain[n]))
                          ELSE << >>

(* No filter keeps a trigger from a handler: the handlers that run are the *)
(* ones that would if every log, call and block were offered to every data *)
(* source, for data sources made from templates after the filter was built *)
(* as well.                                                                *)
FiltersLoseNothing ==
    asked.kind = "chain" =>
        LET block == asked.chain[1]
            calls == Range(Calls(block.traces))
            all == {LogTrigger(l, TRUE) : l \in {m \in Range(block.logs) : m.topic # None}}
                       \cup {CallTrigger(c) : c \in {d \in calls : block.succeeded[d.tx]}}
                       \cup {BlockWithCallTo(c.to) : c \in calls} \cup {EveryBlock}
            runs == process_triggers(Hosts, triggers_in_block(Filter, block), block)
        IN  /\ runs # Failed
            /\ Range(runs) = {[ds |-> ds, trigger |-> t, match |-> match_and_decode(ds, t, block)] :
                                  <<ds, t>> \in {p \in Range(Hosts) \X all :
                                                    match_and_decode(p[1], p[2], block) # None}}

=============================================================================
