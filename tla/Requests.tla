------------------------------- MODULE Requests -------------------------------
(***************************************************************************)
(* What becomes of a user's requests between the user and the tower: the   *)
(* HTTP API with its Inspector (src/teos/api.py, src/teos/inspector.py),   *)
(* the InternalAPI that turns exceptions into status codes                 *)
(* (src/teos/internal_api.py), the Watcher's and the Gatekeeper's side of  *)
(* each request, and what the user's software makes of the answer, or of   *)
(* the lack of one (src/watchtower-plugin/net/http.py).                    *)
(*                                                                         *)
(* There is one user, with a few appointments of one slot each; what the   *)
(* others take of the user's slots, and of the tower's room, is a choice.  *)
(* Blocks are heights.  The threads of Gatekeeper and Watcher go through   *)
(* them, each at its own pace; whether a block, or the locator cache, has  *)
(* the breach of an appointment is a choice, as is what bitcoind says of   *)
(* the penalty.                                                            *)
(***************************************************************************)
EXTENDS Naturals, FiniteSets

CONSTANTS
    Appts,           \* uuids
    Delay,           \* the to_self_delay of each
    DelayBits,       \* the width of the field in AddAppointmentRequest, 32
    MinToSelfDelay,  \* Inspector.min_to_self_delay
    SubscriptionSlots, SubscriptionDuration, ExpiryDelta, \* Gatekeeper
    MaxSlots,        \* bound on the slots of a behaviour (that of the code is Gatekeeper's)
    Ids,             \* requests at one time
    None,
    MaxHeight,       \* bound on the blocks of a behaviour
    MaxLost,         \* bound on the answers lost and the times the tower cannot serve
    Rare             \* the rare events a run includes

ASSUME RequestsAssumption ==
    /\ Delay \in [Appts -> Nat] /\ DelayBits \in Nat /\ MinToSelfDelay \in Nat
    /\ SubscriptionSlots \in Nat /\ SubscriptionDuration \in Nat /\ ExpiryDelta \in Nat
    /\ MaxSlots \in Nat /\ MaxHeight \in Nat /\ MaxLost \in Nat
    /\ None \notin Ids \cup Appts /\ IsFiniteSet(Appts)
    /\ SubscriptionSlots <= MaxSlots
    /\ Rare \subseteq {"lag",      \* the Watcher is behind the Gatekeeper when a user comes back
                       "unheard",  \* a breach after an acceptance that the user has not heard of
                       "twice"}    \* two threads of the user's software send one appointment

VARIABLES
    height,     \* of bitcoind's best chain
    gkAt, wAt,  \* of the blocks Gatekeeper and Watcher have come to
    user,       \* the entry of the user in registered_users
    outdated,   \* outdated_users_cache: the user's appointments, by height
    watched,    \* Watcher.appointments
    tracked,    \* Responder.trackers
    writer,     \* who holds the Watcher's write lock
    req,        \* the requests on their way
    filed,      \* what the user knows of each appointment
    lost,       \* bound
    unheard,    \* history: appointments with a receipt that has not reached the user
    owed        \* history: appointments with a receipt the tower is not yet released from

clockVars == <<height, gkAt, wAt>>
custodyVars == <<watched, tracked>>
hist == <<unheard, owed>>
vars == <<clockVars, user, outdated, custodyVars, writer, req, filed, lost, hist>>

Kinds == {"add", "get", "info"}
Verdicts == {"accepted", "found", "listed", \* HTTP_OK
             "subscription",  \* 400, INVALID_SIGNATURE_OR_SUBSCRIPTION_ERROR
             "invalid",       \* 400, any other code
             "triggered",     \* 400, ALREADY_TRIGGERED
             "notfound",      \* 404
             "error",         \* 500, as no handler caught what was raised
             "unavailable"}   \* 503

(* No answer is none of the answers.                                       *)
ASSUME VerdictsAssumption == None \notin Verdicts

Steps == {"lock", "charge", "keep", "read", "tracker", "load", "info", "iterate", "answered"}
(* The user's entry a query holds is that of registered_users; or one that *)
(* it was when the user was deleted; or one that changed under iteration.  *)
Entries == {"live", "old", "changed"}
NoRequest == [step |-> "idle"]
Request == [kind : Kinds, u : Appts \cup {None}, step : Steps, verdict : Verdicts \cup {None},
            heard : BOOLEAN,    \* is somebody waiting for the answer?
            todo : SUBSET Appts, list : SUBSET Appts, of : SUBSET Appts, entry : Entries,
            absent : SUBSET Appts] \* history: what was not in custody at some time of the query
User == [slots : 0..MaxSlots, expiry : Nat, appointments : SUBSET Appts]

TypeOK ==
    /\ height \in 0..MaxHeight /\ gkAt \in 0..height /\ wAt \in 0..height
    /\ user \in User \cup {None}
    /\ outdated \in [1..MaxHeight -> SUBSET Appts]
    /\ watched \subseteq Appts /\ tracked \subseteq Appts
    /\ writer \in Ids \cup {None}
    /\ req \in [Ids -> Request \cup {NoRequest}]
    /\ filed \in [Appts -> {"none", "pending", "accepted", "invalid"}]
    /\ lost \in 0..MaxLost
    /\ unheard \subseteq Appts /\ owed \subseteq Appts

-----------------------------------------------------------------------------
(* Helpers.                                                                *)

Custody == watched \cup tracked

At(i, s) == req[i].step = s
Busy(i) == ~At(i, "idle")
Goto(i, s) == req' = [req EXCEPT ![i].step = s]

(* An answer that nobody waits for, or from which nothing follows, is gone *)
(* at once.                                                                *)
Answer(i, v) ==
    req' = [req EXCEPT ![i] =
              IF @.heard /\ (@.kind = "add" \/ v \in {"notfound", "listed"})
              THEN [@ EXCEPT !.step = "answered", !.verdict = v] ELSE NoRequest]

NewRequest(k, u, s, v) ==
    [kind |-> k, u |-> u, step |-> s, verdict |-> v, heard |-> TRUE,
     todo |-> {}, list |-> {}, of |-> {}, entry |-> "live", absent |-> {}]

(* Queries hold the Watcher's read lock from the look at appointments on.  *)
Readers == {i \in Ids : req[i].step \in {"tracker", "load", "iterate"}}

(* What a query is about.                                                  *)
Asked(k, u) ==
    CASE k = "add" -> {}
      [] k = "get" -> {u}
      [] k = "info" -> Appts

(* The requests when S is in custody no more.                              *)
Lapse(S) ==
    [i \in Ids |-> IF req[i].step \in {"idle", "answered"} THEN req[i]
                   ELSE [req[i] EXCEPT !.absent = @ \cup (S \cap Asked(req[i].kind, req[i].u))]]

(* The entry of the user without S, whose slots are given back             *)
(* (Cleaner.delete_gatekeeper_appointments; a deleted user is skipped).    *)
Freed(S) ==
    IF user = None THEN None
    ELSE [user EXCEPT !.slots = @ + Cardinality(S \cap user.appointments), !.appointments = @ \ S]

(* A call to bitcoind that is refused, or a tower that is full.            *)
Away == lost < MaxLost /\ lost' = lost + 1

Registered == user # None
Expired == height >= user.expiry

-----------------------------------------------------------------------------
(* The user's software.                                                    *)

(* The Inspector lets 2^32 through, which the uint32 field of the request  *)
(* to the InternalAPI then does not take.                                  *)
inspect(d) ==
    CASE d > 2 ^ DelayBits \/ d < MinToSelfDelay -> "invalid"
      [] d = 2 ^ DelayBits -> "error"
      [] OTHER -> "fine"

(* The plugin's hook sends a new appointment while a retry sends what is   *)
(* pending, or a user sends an update.  The API process answers what the   *)
(* Inspector refuses.                                                      *)
SendAdd(i, u) ==
    /\ At(i, "idle")
    /\ filed[u] # "invalid"
    /\ \/ \A j \in Ids : Busy(j) => ~(req[j].kind = "add" /\ req[j].u = u /\ req[j].heard)
       \/ "twice" \in Rare
    /\ req' = [req EXCEPT ![i] = IF inspect(Delay[u]) = "fine" THEN NewRequest("add", u, "lock", None)
                                 ELSE NewRequest("add", u, "answered", inspect(Delay[u]))]
    /\ UNCHANGED <<clockVars, user, outdated, custodyVars, writer, filed, lost, hist>>

(* The connection breaks or times out: the appointment waits for one more  *)
(* try.  The tower does not notice.                                        *)
TimeOut(i) ==
    /\ Busy(i) /\ req[i].kind = "add" /\ req[i].heard /\ lost < MaxLost
    /\ req[i].u \in tracked /\ filed[req[i].u] # "accepted" => "unheard" \in Rare
    /\ filed' = [filed EXCEPT ![req[i].u] = IF @ = "none" THEN "pending" ELSE @]
    /\ req' = [req EXCEPT ![i] = IF At(i, "answered") THEN NoRequest ELSE [@ EXCEPT !.heard = FALSE]]
    /\ lost' = lost + 1
    /\ UNCHANGED <<clockVars, user, outdated, custodyVars, writer, hist>>

(* add_appointment of the plugin: a refusal other than for the             *)
(* subscription is filed as invalid; what is refused for the subscription, *)
(* or for the time being, waits.  Any other answer is a None that raises   *)
(* in the hook, or in the retry, before anything is filed.                 *)
Filing(u, v) ==
    CASE v = "accepted" -> "accepted"
      [] v \in {"invalid", "triggered"} /\ filed[u] # "accepted" -> "invalid"
      [] v \in {"subscription", "unavailable"} /\ filed[u] = "none" -> "pending"
      [] OTHER -> filed[u]

Receive(i) ==
    /\ At(i, "answered")
    /\ filed' = IF req[i].kind = "add"
                THEN [filed EXCEPT ![req[i].u] = Filing(req[i].u, req[i].verdict)] ELSE filed
    /\ unheard' = {u \in unheard : filed'[u] # "accepted"}
    /\ req' = [req EXCEPT ![i] = NoRequest]
    /\ UNCHANGED <<clockVars, user, outdated, custodyVars, writer, lost, owed>>

-----------------------------------------------------------------------------
(* register: all of add_update_user is under the Gatekeeper's lock, and    *)
(* what is refused changes nothing.                                        *)

register ==
    /\ \E free \in 0..SubscriptionSlots :
          \/ /\ ~Registered
             /\ wAt >= gkAt \/ "lag" \in Rare
             /\ user' = [slots |-> free, expiry |-> height + SubscriptionDuration, appointments |-> {}]
          \/ /\ Registered
             /\ user.slots + Cardinality(user.appointments) + free <= MaxSlots
             /\ user' = [user EXCEPT !.slots = @ + free, !.expiry = height + SubscriptionDuration]
    /\ UNCHANGED <<clockVars, outdated, custodyVars, writer, req, filed, lost, hist>>

-----------------------------------------------------------------------------
(* add_appointment, under the Watcher's write lock.                        *)

(* Why Watcher.add_appointment refuses u before it charges for it, if it   *)
(* does.                                                                   *)
Refusal(u) ==
    CASE ~Registered \/ Expired -> "subscription"
      [] u \in tracked -> "triggered"
      [] OTHER -> None

(* Fault: the lock stays taken when the request is refused.                *)
EnterAndStay(i) ==
    /\ At(i, "lock") /\ writer = None /\ Readers = {}
    /\ writer' = i
    /\ IF Refusal(req[i].u) # None THEN Answer(i, Refusal(req[i].u)) ELSE Goto(i, "charge")
    /\ UNCHANGED <<clockVars, user, outdated, custodyVars, filed, lost, hist>>

Enter(i) ==
    /\ At(i, "lock") /\ writer = None /\ Readers = {}
    /\ \/ /\ Refusal(req[i].u) # None
          /\ Answer(i, Refusal(req[i].u))
          /\ UNCHANGED <<writer, lost>>
       \/ /\ Away /\ Answer(i, "unavailable")
          /\ UNCHANGED writer
       \/ /\ Refusal(req[i].u) = None
          /\ writer' = i /\ Goto(i, "charge")
          /\ UNCHANGED lost
    /\ UNCHANGED <<clockVars, user, outdated, custodyVars, filed, hist>>

(* Fault: the appointment is entered before the slots are counted.         *)
ChargeAnyway(i) ==
    LET u == req[i].u IN
    /\ At(i, "charge")
    /\ \/ /\ ~Registered
          /\ Answer(i, "unavailable") /\ writer' = None /\ UNCHANGED user
       \/ /\ Registered /\ u \notin user.appointments /\ user.slots = 0
          /\ user' = [user EXCEPT !.appointments = @ \cup {u}]
          /\ Answer(i, "subscription") /\ writer' = None
       \/ /\ Registered /\ u \notin user.appointments /\ user.slots > 0
          /\ user' = [user EXCEPT !.slots = @ - 1, !.appointments = @ \cup {u}]
          /\ Goto(i, "keep") /\ UNCHANGED writer
       \/ /\ Registered /\ u \in user.appointments
          /\ Goto(i, "keep") /\ UNCHANGED <<user, writer>>
    /\ UNCHANGED <<clockVars, outdated, custodyVars, filed, lost, hist>>

(* Gatekeeper.add_update_appointment.  By then the user may be deleted, a  *)
(* KeyError that gRPC turns into UNKNOWN.                                  *)
Charge(i) ==
    LET u == req[i].u IN
    /\ At(i, "charge")
    /\ \/ /\ ~Registered
          /\ Answer(i, "unavailable") /\ writer' = None /\ UNCHANGED user
       \/ /\ Registered /\ u \notin user.appointments /\ user.slots = 0
          /\ Answer(i, "subscription") /\ writer' = None /\ UNCHANGED user
       \/ /\ Registered /\ u \notin user.appointments /\ user.slots > 0
          /\ user' = [user EXCEPT !.slots = @ - 1, !.appointments = @ \cup {u}]
          /\ Goto(i, "keep") /\ UNCHANGED writer
       \/ /\ Registered /\ u \in user.appointments
          /\ Goto(i, "keep") /\ UNCHANGED <<user, writer>>
    /\ UNCHANGED <<clockVars, outdated, custodyVars, filed, lost, hist>>

(* The breach is not in the cache, or it is and the penalty is delivered,  *)
(* or it is and the penalty or the blob is no good.  Then the receipt,     *)
(* with the expiry of a user who may be deleted by now: None has none.     *)
Keep(i) ==
    LET u == req[i].u IN
    /\ At(i, "keep")
    /\ \/ watched' = watched \cup {u} /\ UNCHANGED tracked
       \/ /\ (req[i].heard /\ u \notin unheard) \/ "unheard" \in Rare
          /\ tracked' = tracked \cup {u} /\ UNCHANGED watched
       \/ UNCHANGED custodyVars
    /\ writer' = None
    /\ IF Registered
       THEN /\ Answer(i, "accepted")
            /\ unheard' = unheard \cup {u} /\ owed' = owed \cup ({u} \cap Custody')
       ELSE Answer(i, "unavailable") /\ UNCHANGED hist
    /\ UNCHANGED <<clockVars, user, outdated, filed, lost>>

-----------------------------------------------------------------------------
(* get_appointment and get_subscription_info.                              *)

(* authenticate_user and has_subscription_expired.  A query that is        *)
(* refused changes nothing; nor do queries change what others see, so one  *)
(* at a time will do.                                                      *)
Authenticate(i, k, u) ==
    /\ At(i, "idle") /\ \A j \in Ids : Busy(j) => req[j].kind = "add"
    /\ Registered /\ ~Expired
    /\ req' = [req EXCEPT ![i] = [NewRequest(k, u, "read", None) EXCEPT !.absent = Asked(k, u) \ Custody]]
    /\ UNCHANGED <<clockVars, user, outdated, custodyVars, writer, filed, lost, hist>>

Read(i) ==
    /\ At(i, "read") /\ req[i].kind = "get" /\ writer = None
    /\ IF req[i].u \in watched THEN Answer(i, "found") ELSE Goto(i, "tracker")
    /\ UNCHANGED <<clockVars, user, outdated, custodyVars, writer, filed, lost, hist>>

HasTracker(i) ==
    /\ At(i, "tracker")
    /\ IF req[i].u \in tracked THEN Goto(i, "load") ELSE Answer(i, "notfound")
    /\ UNCHANGED <<clockVars, user, outdated, custodyVars, writer, filed, lost, hist>>

(* The Responder may have ended the tracker by now: the None of            *)
(* load_responder_tracker raises in the InternalAPI, which is not found.   *)
LoadTracker(i) ==
    /\ At(i, "load")
    /\ Answer(i, IF req[i].u \in tracked THEN "found" ELSE "notfound")
    /\ UNCHANGED <<clockVars, user, outdated, custodyVars, writer, filed, lost, hist>>

(* get_subscription_info takes the user's entry without the lock.  By then *)
(* the user may be deleted: None has no appointments.                      *)
GetUserInfo(i) ==
    /\ At(i, "read") /\ req[i].kind = "info"
    /\ IF Registered THEN Goto(i, "info") ELSE Answer(i, "unavailable")
    /\ UNCHANGED <<clockVars, user, outdated, custodyVars, writer, filed, lost, hist>>

(* Under the lock it goes through the dict of the entry.                   *)
StartList(i) ==
    LET appointments == IF req[i].entry = "old" THEN req[i].of ELSE user.appointments IN
    /\ At(i, "info") /\ writer = None
    /\ req' = [req EXCEPT ![i].step = "iterate", ![i].todo = appointments, ![i].of = appointments]
    /\ UNCHANGED <<clockVars, user, outdated, custodyVars, writer, filed, lost, hist>>

(* Fault: what has a tracker is not listed.                                *)
ListWatched(i) ==
    /\ At(i, "iterate")
    /\ \/ req[i].entry = "changed" /\ Answer(i, "unavailable")
       \/ req[i].entry # "changed" /\ req[i].todo = {} /\ Answer(i, "listed")
       \/ /\ req[i].entry # "changed"
          /\ \E u \in req[i].todo :
                 req' = [req EXCEPT ![i].todo = @ \ {u}, ![i].list = @ \cup ({u} \cap watched)]
    /\ UNCHANGED <<clockVars, user, outdated, custodyVars, writer, filed, lost, hist>>

Listed(r, u) == [r EXCEPT !.todo = @ \ {u}, !.list = @ \cup {u}, !.u = None]

(* What is neither watched nor has a tracker is left out; a tracker is     *)
(* looked up again for its locator.  The Responder, which does not need    *)
(* the Watcher's lock, may have ended it by then, and None has no locator. *)
(* Or it has freed one of the appointments: the iteration raises.          *)
ListNext(i) ==
    /\ At(i, "iterate")
    /\ \/ req[i].entry = "changed" /\ Answer(i, "unavailable")
       \/ /\ req[i].entry # "changed" /\ req[i].u # None
          /\ \/ req[i].u \in tracked /\ req' = [req EXCEPT ![i] = Listed(@, @.u)]
             \/ req[i].u \notin tracked /\ Answer(i, "unavailable")
       \/ /\ req[i].entry # "changed" /\ req[i].u = None
          /\ \/ req[i].todo = {} /\ Answer(i, "listed")
             \/ \E u \in req[i].todo :
                   \/ u \in watched /\ req' = [req EXCEPT ![i] = Listed(@, u)]
                   \/ u \in tracked \ watched /\ req' = [req EXCEPT ![i].u = u]
                   \/ u \notin Custody /\ req' = [req EXCEPT ![i].todo = @ \ {u}]
    /\ UNCHANGED <<clockVars, user, outdated, custodyVars, writer, filed, lost, hist>>

-----------------------------------------------------------------------------
(* Blocks, and the threads of Gatekeeper, Watcher and Responder.           *)

NewBlock ==
    /\ height < MaxHeight /\ gkAt = height /\ wAt = height
    /\ height' = height + 1
    /\ UNCHANGED <<gkAt, wAt, user, outdated, custodyVars, writer, req, filed, lost, hist>>

(* get_outdated_users without the cache.                                   *)
FoundOutdated(h) == IF user # None /\ h = user.expiry + ExpiryDelta THEN user.appointments ELSE {}

(* Fault: at the expiry, without the grace time.                           *)
GetExpired(h) == IF user # None /\ h >= user.expiry THEN user.appointments ELSE FoundOutdated(h)

(* get_outdated_appointments.                                              *)
GetOutdated(h) == IF h \in 1..MaxHeight /\ outdated[h] # {} THEN outdated[h] ELSE FoundOutdated(h)

(* manage_subscription_expiry: the cache entry, then the user is deleted   *)
(* (here at once; what may come between is Gatekeeper's), and the tower    *)
(* released from the appointments.                                         *)
GatekeeperBlock ==
    LET h == gkAt + 1
        ends == Registered /\ h = user.expiry + ExpiryDelta
    IN  /\ gkAt < height
        /\ gkAt' = h
        /\ outdated' = [outdated EXCEPT ![h] = FoundOutdated(h)]
        /\ user' = IF ends THEN None ELSE user
        /\ owed' = IF ends THEN owed \ user.appointments ELSE owed
        /\ req' = [i \in Ids |->
                      CASE ends /\ At(i, "info") /\ req[i].entry = "live" ->
                               [req[i] EXCEPT !.entry = "old", !.of = user.appointments]
                        [] ends /\ At(i, "iterate") /\ req[i].entry = "live" -> [req[i] EXCEPT !.entry = "old"]
                        [] OTHER -> req[i]]
        /\ UNCHANGED <<height, wAt, custodyVars, writer, filed, lost, unheard>>

(* do_watch, under the write lock: what is outdated is deleted, and of the *)
(* rest any may be breached, some with a penalty that is delivered, some   *)
(* to be dropped.                                                          *)
WatchBlock ==
    /\ wAt < height /\ writer = None /\ Readers = {}
    /\ wAt' = wAt + 1
    /\ LET h == wAt + 1
           out == GetOutdated(h) \cap watched
       IN  \E delivered \in SUBSET (watched \ out) :
           \E dropped \in SUBSET (watched \ (out \cup delivered)) :
              /\ \A u \in delivered \cup dropped : u \notin unheard \/ "unheard" \in Rare
              /\ watched' = watched \ (out \cup delivered \cup dropped)
              /\ tracked' = tracked \cup delivered
              /\ user' = Freed(dropped)
              /\ req' = Lapse((out \cup dropped) \ tracked)
              /\ owed' = owed \ (dropped \cup
                     (IF user = None \/ user.expiry + ExpiryDelta <= h THEN out ELSE {}))
    /\ UNCHANGED <<height, gkAt, outdated, writer, filed, lost, unheard>>

(* A tracker is completed or outdated: memory and disk of the Responder,   *)
(* then the slots, all under its lock.                                     *)
EndTracker(u) ==
    /\ u \in tracked
    /\ (\A i \in Ids : Busy(i) => ~(req[i].kind = "add" /\ req[i].u = u)) \/ "unheard" \in Rare
    /\ tracked' = tracked \ {u}
    /\ user' = Freed({u})
    /\ LET freed == user # None /\ u \in user.appointments
       IN  req' = [i \in Ids |-> IF At(i, "iterate") /\ freed /\ req[i].entry = "live"
                                THEN [Lapse({u} \ watched)[i] EXCEPT !.entry = "changed"]
                                ELSE Lapse({u} \ watched)[i]]
    /\ owed' = owed \ {u}
    /\ UNCHANGED <<clockVars, outdated, watched, writer, filed, lost, unheard>>

-----------------------------------------------------------------------------
Init ==
    /\ height = 0 /\ gkAt = 0 /\ wAt = 0
    /\ user = None /\ outdated = [h \in 1..MaxHeight |-> {}]
    /\ watched = {} /\ tracked = {} /\ writer = None
    /\ req = [i \in Ids |-> NoRequest]
    /\ filed = [u \in Appts |-> "none"] /\ lost = 0
    /\ unheard = {} /\ owed = {}

(* What the server does with request i.                                    *)
Serve(i) ==
    \/ Charge(i) \/ Keep(i)
    \/ Read(i) \/ HasTracker(i) \/ LoadTracker(i)
    \/ GetUserInfo(i) \/ StartList(i) \/ ListNext(i)

Next ==
    \/ \E i \in Ids :
          \/ \E u \in Appts : SendAdd(i, u) \/ Authenticate(i, "get", u)
          \/ Authenticate(i, "info", None)
          \/ TimeOut(i) \/ Receive(i)
          \/ Enter(i) \/ Serve(i)
    \/ register
    \/ NewBlock \/ GatekeeperBlock \/ WatchBlock
    \/ \E u \in Appts : EndTracker(u)

Spec == Init /\ [][Next]_vars

(* Handlers that can go on do, answers arrive or connections break, and no *)
(* writer is passed over for ever by readers (RWLockWrite) or by other     *)
(* writers.                                                                *)
Fairness ==
    /\ \A i \in Ids : WF_vars(Serve(i) \/ Receive(i)) /\ SF_vars(Enter(i))
    /\ SF_vars(WatchBlock)

FairSpec == Spec /\ Fairness

-----------------------------------------------------------------------------
(* The state is of its type; and the user pays for nothing without a       *)
(* receipt: what takes slots of the user was accepted, or is about to be.  *)
PaidAreTaken ==
    /\ TypeOK
    /\ Registered => user.appointments \subseteq
                         unheard \cup {u \in Appts : filed[u] = "accepted"}
                                 \cup {req[i].u : i \in {j \in Ids : At(j, "keep")}}

(* What the user files is true of the tower: an appointment that has a     *)
(* receipt is watched or tracked until the tower is released from it (its  *)
(* subscription outdated, its penalty useless, its tracker ended), and     *)
(* what is filed as invalid never had a receipt.                           *)
FiledIsTrue ==
    /\ owed \subseteq Custody
    /\ \A u \in Appts : filed[u] = "invalid" => u \notin unheard

(* An appointment on its way from the Watcher to the Responder is never    *)
(* missed by a query: "not found" means that at some time of the request   *)
(* it was in neither, or the user not registered, and a list has all of    *)
(* the subscription's that were in custody throughout.                     *)
QueriesAreTrue ==
    \A i \in Ids : At(i, "answered") =>
        /\ req[i].verdict = "notfound" => req[i].u \in req[i].absent
        /\ req[i].verdict = "listed" => req[i].of \ req[i].absent \subseteq req[i].list

(* The Watcher's lock is always given back, whatever is refused, raised,   *)
(* deleted under a query or unheard of by the user: every addition is      *)
(* answered in the end, a query that holds the lock is too, and the        *)
(* Watcher comes to every block.                                           *)
Served ==
    /\ \A i \in Ids : (Busy(i) /\ (req[i].kind = "add" \/ i \in Readers)) ~> ~Busy(i)
    /\ wAt < height ~> wAt = height
=============================================================================
