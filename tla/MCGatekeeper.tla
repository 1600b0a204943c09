---------------------------- MODULE MCGatekeeper ----------------------------
(* Two users, one of them with two appointments.                           *)
EXTENDS Gatekeeper, TLC

CONSTANTS alice, bob, a1, a2

MCOwnerOf == [x \in Uuids |-> alice]
=============================================================================
