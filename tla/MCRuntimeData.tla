---------------------------- MODULE MCRuntimeData ----------------------------
(***************************************************************************)
(* The data that reaches a mapping: which triggers a block has, one small  *)
(* chain and manifest at a time (MCTriggers), and how values cross into    *)
(* the memory of the wasm module and back (AscHeap).                       *)
(***************************************************************************)
EXTENDS MCTriggers, AscHeap

VARIABLE subject

dataVars == <<subject, asked, heapVars>>

(* Values of every kind that the host writes: empty, odd and long ones,    *)
(* numbers at the edge of their words, nested objects.                     *)
MCString(units) == [t |-> "String", v |-> units]
MCHostValues ==
    {MCString(<<65, 0, 300>>), MCString(<< >>),
     [t |-> "Bytes", v |-> <<1, 2, 3>>], [t |-> "Bytes", v |-> [i \in 1..40 |-> i]],
     [t |-> "Int", v |-> -5],
     [t |-> "BigDecimal", v |-> <<-129, 3>>], [t |-> "BigDecimal", v |-> <<7, -4>>],
     [t |-> "Array", v |-> <<[t |-> "BigInt", v |-> 128], [t |-> "Null", v |-> << >>],
                             [t |-> "Bool", v |-> TRUE]>>],
     [t |-> "Entity", v |-> << <<<<105>>, MCString(<<97>>)>>,
                               <<<<106, 0>>, [t |-> "Array", v |-> << >>]>> >>],
     [t |-> "Tuple", v |-> <<[t |-> "TokenInt", v |-> 32768], [t |-> "TokenInt", v |-> 65535],
                             [t |-> "TokenUint", v |-> 32768], [t |-> "Address", v |-> <<9>>]>>]}
MCMinExp == -3

DataInit ==
    /\ subject \in {"triggers", "heap"}
    /\ TriggersInit
    /\ HeapInit
    /\ subject = "triggers" => heap.api = 5

DataNext ==
    /\ UNCHANGED subject
    /\ \/ subject = "triggers" /\ TriggersNext /\ UNCHANGED heapVars
       \/ subject = "heap" /\ HeapNext /\ UNCHANGED asked

DataSpec == DataInit /\ [][DataNext]_dataVars

=============================================================================
