----------------------------- MODULE MCServices -----------------------------
(***************************************************************************)
(* Services of a node that share no state: each behaviour follows one of   *)
(* them, and the others stay in their initial state.                       *)
(***************************************************************************)
EXTENDS QueryServing, StoreEvents, LfuCache, LoadManager, GraftCopy, MappingRuntime, TLC

VARIABLE service

vars == <<service, servingVars, eventVars, lfuVars, loadVars, graftVars, runtimeVars>>

(* A chain with one fork; queries by hash, by number and for the latest    *)
(* block.                                                                  *)
MCBlocks == {<<1>>, <<1, 1>>, <<1, 2>>, <<1, 1, 1>>}
MCFirst == <<1, 1, 1>>
MCFailing == {<<1, 2>>}
MCRewindTo == {<<1>>}
MCPartLists ==
    {<<[kind |-> "Hash", hash |-> <<1, 2>>]>>,
     <<[kind |-> "Number", number |-> 2]>>,
     <<[kind |-> "Number", number |-> 1], [kind |-> "Latest"]>>}

MCHistory == [b \in 1 .. FirstHead |-> CHOOSE c \in Changes : c.op = "write"]

MCSymmetry == Permutations(Clients) \cup Permutations(Nodes)

Init ==
    /\ service \in {"serving", "events", "lfu", "load", "graft", "runtime"}
    /\ ServingInit
    /\ EventsInit
    /\ LfuInit
    /\ LoadInit
    /\ GraftInit
    /\ RuntimeInit
    /\ service # "graft" => src = IndexedUpTo(MCHistory, FirstHead)

Next ==
    /\ UNCHANGED service
    /\ \/ /\ service = "serving" /\ ServingNext
          /\ UNCHANGED <<eventVars, lfuVars, loadVars, graftVars, runtimeVars>>
       \/ /\ service = "events" /\ EventsNext
          /\ UNCHANGED <<servingVars, lfuVars, loadVars, graftVars, runtimeVars>>
       \/ /\ service = "lfu" /\ LfuNext
          /\ UNCHANGED <<servingVars, eventVars, loadVars, graftVars, runtimeVars>>
       \/ /\ service = "load" /\ LoadNext
          /\ UNCHANGED <<servingVars, eventVars, lfuVars, graftVars, runtimeVars>>
       \/ /\ service = "graft" /\ GraftNext
          /\ UNCHANGED <<servingVars, eventVars, lfuVars, loadVars, runtimeVars>>
       \/ /\ service = "runtime" /\ RuntimeNext
          /\ UNCHANGED <<servingVars, eventVars, lfuVars, loadVars, graftVars>>

Spec == Init /\ [][Next]_vars

=============================================================================
