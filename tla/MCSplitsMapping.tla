--------------------------- MODULE MCSplitsMapping ---------------------------
(* Two splits, two accounts and one ERC20 token next to ETH: a withdrawal  *)
(* can cover two splits and two tokens.  The amounts 5 and 11 with uneven  *)
(* allocations make every division by the real PERCENTAGE_SCALE round.     *)
EXTENDS SplitsMapping, TLC

CONSTANTS s1, s2, a1, a2, erc20

MCCreateCalls ==
    {[accounts |-> <<a1, a2>>,
      percentAllocations |-> <<333333, 666667>>, distributorFee |-> 0],
     [accounts |-> <<a2, a1>>,
      percentAllocations |-> <<500000, 500000>>, distributorFee |-> 100000]}

MCTokenLists == {<< >>, <<erc20>>, <<erc20, erc20>>}

Symmetry == Permutations(Splits)
=============================================================================
