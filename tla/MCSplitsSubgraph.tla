--------------------------- MODULE MCSplitsSubgraph ---------------------------
(* Two splits over the same two accounts.  The allocations of a call add   *)
(* up to the scale, as SplitMain demands.  Amount 5 rounds in every share. *)
EXTENDS SplitsSubgraph, TLC

CONSTANTS s1, s2, a1, a2, erc20

MCCreateCalls ==
    {[accounts |-> <<a1, a2>>,
      percentAllocations |-> <<500000, 500000>>, distributorFee |-> 100000]}

MCTokenLists == {<<erc20>>}

Symmetry == Permutations(Splits)
=============================================================================
