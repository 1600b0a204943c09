----------------------------- MODULE Blockchain -----------------------------
(***************************************************************************)
(* The block tree that bitcoind shows to the tower, and what the           *)
(* BlockProcessor (src/teos/block_processor.py) computes over it.          *)
(*                                                                         *)
(* A block is a hash.  Path[b] is the chain from the genesis block to b    *)
(* that "previousblockhash" spells out, and TxsIn[b] the transactions of   *)
(* interest in b ("tx").  bitcoind keeps every block it has ever           *)
(* announced, so the tree is a constant and only the tip moves.  A         *)
(* transaction stands for its txid and for its locator, which is the       *)
(* first half of the txid.                                                 *)
(***************************************************************************)
EXTENDS Naturals, Sequences

CONSTANTS Blocks, Txs, Path, TxsIn

(* Path is a tree: it ends in the block itself, and the path of every      *)
(* block on it is a prefix of it.                                          *)
ASSUME PathAssumption ==
    /\ Path \in [Blocks -> Seq(Blocks)]
    /\ \A b \in Blocks :
          /\ Len(Path[b]) > 0
          /\ Path[b][Len(Path[b])] = b
          /\ \A i \in 1..Len(Path[b]) : Path[Path[b][i]] = SubSeq(Path[b], 1, i)

(* All chains begin with the genesis block.                                *)
ASSUME GenesisAssumption == \A a, b \in Blocks : Path[a][1] = Path[b][1]

(* A chain never holds a transaction twice; two branches may.              *)
ASSUME TxsAssumption ==
    /\ TxsIn \in [Blocks -> SUBSET Txs]
    /\ \A b \in Blocks : \A i, j \in 1..Len(Path[b]) :
          i # j => TxsIn[Path[b][i]] \cap TxsIn[Path[b][j]] = {}

-----------------------------------------------------------------------------

(* Fault: heights are counted from the child of the genesis block.        *)
HeightLow(b) == Len(Path[b]) - 2

Height(b) == Len(Path[b]) - 1

(* p is the "previousblockhash" of b (the genesis block has none).         *)
IsParent(p, b) == Len(Path[b]) > 1 /\ Path[b][Len(Path[b]) - 1] = p

OnChain(a, b) == \E i \in DOMAIN Path[b] : Path[b][i] = a

TxsOf(s) == UNION {TxsIn[s[i]] : i \in DOMAIN s}

(* The last n blocks of the chain that ends in b, oldest first.            *)
LastBlocks(b, n) ==
    SubSeq(Path[b], IF Len(Path[b]) > n THEN Len(Path[b]) - n + 1 ELSE 1, Len(Path[b]))

(* Fault: the walk back stops one block too early.                         *)
MissedButOne(a, tip) ==
    IF OnChain(a, tip) THEN SubSeq(Path[tip], Len(Path[a]) + 2, Len(Path[tip])) ELSE Path[tip]

(* The blocks from the child of a to the tip, oldest first; all of the     *)
(* chain when a is not on it, as the walk then ends below the genesis.     *)
get_missed_blocks(a, tip) ==
    IF OnChain(a, tip) THEN SubSeq(Path[tip], Len(Path[a]) + 1, Len(Path[tip]))
    ELSE Path[tip]

(* The walk back from b until a block of the best chain is met.  The       *)
(* transactions it drops on the way are not used by any caller.            *)
find_last_common_ancestor(b, tip) ==
    CHOOSE a \in Blocks :
        /\ OnChain(a, b) /\ OnChain(a, tip)
        /\ \A c \in Blocks : OnChain(c, b) /\ OnChain(c, tip) => Height(c) <= Height(a)
=============================================================================
