------------------------------- MODULE Chains -------------------------------
(***************************************************************************)
(* Bitcoin blocks and chains, as far as the relayer tells them apart.      *)
(*                                                                         *)
(* A block hash commits to the whole history below it, so a block IS its   *)
(* history: the block at height h of a chain c is the sequence of the      *)
(* first h labels of c, and a chain and its tip block are the same value.  *)
(* The genesis block is the empty sequence.  Two blocks at one height of   *)
(* different branches differ in some label.                                *)
(*                                                                         *)
(* Nothing here is code of the repository: it is what bitcoind serves      *)
(* behind src/bitcoin_rpc.rs (getblockhash, getblockheader, chainwork).    *)
(***************************************************************************)
EXTENDS Integers, Sequences

CONSTANTS
    Label,      \* what distinguishes sibling blocks
    MaxHeight,  \* bound: no chain is higher
    Work,       \* chainwork of every chain, a function
    None        \* "no block", "no value"; also the all-zero commitment

\* Every chain of at most MaxHeight blocks above genesis; also every block.
Chain == UNION {[1..n -> Label] : n \in 0..MaxHeight}

Height(c) == Len(c)

\* The block at height h of chain c.
BlockAt(c, h) == SubSeq(c, 1, h)

ParentOf(b) == BlockAt(b, Height(b) - 1)

\* c holds block b.
Holds(c, b) == Height(b) <= Height(c) /\ BlockAt(c, Height(b)) = b

\* Blocks of equal work: the heavier chain is the higher one.
EqualWork == \A c, d \in Chain : Work[c] > Work[d] => Height(c) > Height(d)

ASSUME HeightAssumption == MaxHeight \in Nat

\* Every block adds work to the chain it extends.
ASSUME WorkAssumption ==
    /\ Work \in [Chain -> Nat]
    /\ \A c \in Chain : \A h \in 0..(Height(c) - 1) :
           Work[BlockAt(c, h)] < Work[c]

ASSUME NoneAssumption == None \notin Chain
=============================================================================
