----------------------------- MODULE MCWTClient -----------------------------
(* The client on small sets, which the configurations name.                *)
EXTENDS WTClient, TLC
=============================================================================
