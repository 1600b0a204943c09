------------------------------ MODULE MCTower ------------------------------
(* A chain of four blocks, and one on the side that a reorg drops.         *)
EXTENDS Tower, TLC

CONSTANTS g, a1, b1, b2, b3

MCBlocks == {g, a1, b1, b2, b3}
MCPath == g :> <<g>> @@ a1 :> <<g, a1>> @@ b1 :> <<g, b1>> @@ b2 :> <<g, b1, b2>>
    @@ b3 :> <<g, b1, b2, b3>>
MCTxs == {}
MCTxsIn == [b \in MCBlocks |-> {}]
=============================================================================
