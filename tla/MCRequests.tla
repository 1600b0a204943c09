------------------------------ MODULE MCRequests ------------------------------
EXTENDS Requests, TLC

CONSTANTS a, b

(* With a field of two bits: b has the delay that the Inspector still lets *)
(* through.                                                                *)
MCDelay == a :> 3 @@ b :> 4
=============================================================================
