------------------------------- MODULE MCLive -------------------------------
(***************************************************************************)
(* What a node does forever: one deployment's block stream over the tree   *)
(* of MCBlockTree, or the starting and stopping of deployments by two      *)
(* nodes. They share no state: a behaviour follows one of them.            *)
(***************************************************************************)
EXTENDS MCPollingBlockStream, NodeAssignments

VARIABLE part

allVars == <<part, vars, nodeVars>>

LiveInit ==
    /\ part \in {"stream", "nodes"}
    /\ Init
    /\ NodeInit
    /\ part = "stream" => assignment = [d \in Deps |-> NoNode]

LiveNext ==
    /\ UNCHANGED part
    /\ \/ part = "stream" /\ Next /\ UNCHANGED nodeVars
       \/ part = "nodes" /\ NodeNext /\ UNCHANGED vars

(* The fairness of FairSpec and of NodeFairSpec, for the part at work.     *)
LiveSpec ==
    /\ LiveInit
    /\ [][LiveNext]_allVars
    /\ WF_vars(part = "stream" /\ Ingestor)
    /\ SF_vars(part = "stream" /\ IngestorPolls(0))
    /\ WF_vars(part = "stream" /\ Stream)
    /\ WF_vars(part = "stream" /\ (Runner \/ SkipBlock))
    /\ \A n \in Nodes : WF_nodeVars(part = "nodes" /\ RegistrarStep(n))
    /\ \A r \in Runners : WF_nodeVars(part = "nodes" /\ RunnerStep(r))
    /\ \A w \in Writers : WF_nodeVars(part = "nodes" /\ WriterStep(w))
    /\ \A d \in Deps : WF_nodeVars(part = "nodes" /\ send_store_event(d))

=============================================================================
