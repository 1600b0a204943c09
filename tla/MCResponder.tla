---------------------------- MODULE MCResponder ----------------------------
(* Instances of Responder: two uuids of one breach, or of two.              *)
EXTENDS Responder

CONSTANTS u1, u2, l1, l2, t1, t2

OnePenalty == (u1 :> t1) @@ (u2 :> t1)
TwoPenalties == (u1 :> t1) @@ (u2 :> t2)
MCLocatorOf == (u1 :> l1) @@ (u2 :> l2)
MCOutdatedAt == (u1 :> 3) @@ (u2 :> 99)
=============================================================================
