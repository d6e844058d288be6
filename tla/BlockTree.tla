------------------------------- MODULE BlockTree -------------------------------
(***************************************************************************)
(* The blocks a chain ever produces, as a tree that is fixed in advance: a *)
(* block hash names a block, its number and its parent for ever.           *)
(***************************************************************************)
EXTENDS Integers

CONSTANTS
    Blocks,     \* the block hashes
    Genesis,    \* the block with number 0
    Number,     \* the number of a block
    Parent,     \* the parent of a block other than the genesis block
    Anc(_, _),  \* Anc(b, k) is the k-th ancestor of b
    None        \* no block pointer

ASSUME TreeAssumption ==
    /\ Genesis \in Blocks
    /\ None \notin Blocks
    /\ Number \in [Blocks -> Nat]
    /\ Number[Genesis] = 0
    /\ \A b \in Blocks \ {Genesis} :
           Parent[b] \in Blocks /\ Number[b] = Number[Parent[b]] + 1
    /\ \A b \in Blocks : \A k \in 0..Number[b] :
           /\ Anc(b, k) \in Blocks
           /\ Number[Anc(b, k)] = Number[b] - k
           /\ k = 0 => Anc(b, k) = b
           /\ k > 0 => /\ Anc(b, k) = Parent[Anc(b, k - 1)]
                       /\ Anc(b, k) = Anc(Parent[b], k - 1)

(* b is on the chain that ends in c.                                       *)
OnChain(b, c) == Number[b] <= Number[c] /\ Anc(c, Number[c] - Number[b]) = b

(* The blocks of the chain that ends in c.                                 *)
Lineage(c) == {b \in Blocks : OnChain(b, c)}

=============================================================================
