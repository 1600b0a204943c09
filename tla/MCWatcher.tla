----------------------------- MODULE MCWatcher -----------------------------
(* Two users watch for the same dispute.  It is in a2 and, on the other    *)
(* branch, in b3: a reorg moves it.                                        *)
EXTENDS Watcher, TLC

CONSTANTS g, a1, a2, a3, a4, b2, b3, b4, b5, t, v, p, q

MCBlocks == {g, a1, a2, a3, a4, b2, b3, b4, b5}
MCTxs == {t, v}
MCPath ==
    g :> <<g>> @@ a1 :> <<g, a1>> @@ a2 :> <<g, a1, a2>> @@ a3 :> <<g, a1, a2, a3>>
    @@ a4 :> <<g, a1, a2, a3, a4>> @@ b2 :> <<g, a1, b2>> @@ b3 :> <<g, a1, b2, b3>>
    @@ b4 :> <<g, a1, b2, b3, b4>> @@ b5 :> <<g, a1, b2, b3, b4, b5>>
MCTxsIn ==
    g :> {} @@ a1 :> {v} @@ a2 :> {t} @@ a3 :> {} @@ a4 :> {}
    @@ b2 :> {} @@ b3 :> {t} @@ b4 :> {} @@ b5 :> {}
(* The same tree without its last blocks, for the runs with more events.   *)
SmallBlocks == MCBlocks \ {a4, b5}
SmallPath == [b \in SmallBlocks |-> MCPath[b]]
SmallTxsIn == [b \in SmallBlocks |-> MCTxsIn[b]]

MCAppts == {p, q}
MCLocatorOf == p :> t @@ q :> t
MCOutdatedAt == p :> 4 @@ q :> 9
=============================================================================
