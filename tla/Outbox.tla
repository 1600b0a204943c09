-------------------------------- MODULE Outbox --------------------------------
(***************************************************************************)
(* What the client promises of the appointments it makes for a tower: each *)
(* is dealt with once and stays where it was put, and the pending ones are *)
(* settled in the order in which their commitments were revoked.           *)
(*                                                                         *)
(* Module WTClient, with its threads, its lock and its two copies of every *)
(* record, is shown to do no more than this.                               *)
(***************************************************************************)
EXTENDS Sequences, Functions

CONSTANTS Towers, Appts

VARIABLES
    pending, \* by tower, the appointments still to be delivered
    settled  \* by tower, those that are not: accepted, invalid or the proof

vars == <<pending, settled>>

Verdicts == {"accepted", "invalid", "proof"}
Nothing == [v \in Verdicts |-> {}]

Held(t) == Range(pending[t]) \cup UNION {settled[t][v] : v \in Verdicts}

Init ==
    /\ pending = [t \in Towers |-> <<>>]
    /\ settled = [t \in Towers |-> Nothing]

(* An appointment that cannot be delivered now waits behind the others.    *)
Postpone(t, u) ==
    /\ u \notin Held(t)
    /\ pending' = [pending EXCEPT ![t] = Append(@, u)]
    /\ UNCHANGED settled

(* A new appointment, or the first of those that wait, is settled.  One    *)
(* proof of misbehaviour is kept, the last.                                *)
Settle(t, u, v) ==
    /\ \/ u \notin Held(t) /\ UNCHANGED pending
       \/ /\ pending[t] # <<>> /\ u = Head(pending[t])
          /\ pending' = [pending EXCEPT ![t] = Tail(@)]
    /\ settled' = [settled EXCEPT ![t][v] = IF v = "proof" THEN {u} ELSE @ \cup {u}]

(* A new registration forgets what there was.                              *)
Renew(t) ==
    /\ pending' = [pending EXCEPT ![t] = <<>>]
    /\ settled' = [settled EXCEPT ![t] = Nothing]

Next ==
    \E t \in Towers :
        \/ \E u \in Appts : Postpone(t, u) \/ \E v \in Verdicts : Settle(t, u, v)
        \/ Renew(t)

Spec == Init /\ [][Next]_vars
=============================================================================
