------------------------------ MODULE WTClient ------------------------------
(***************************************************************************)
(* The client of the tower, a plugin of c-lightning: WTClient and the      *)
(* plugin's methods (src/watchtower-plugin/watchtower.py), its Retrier     *)
(* (retrier.py), TowerInfo and the database of towers.                     *)
(*                                                                         *)
(* Three kinds of threads meet here: the plugin's (hooks and commands, one *)
(* after another), manage_retry, and a thread of do_retry for each tower   *)
(* it takes from the queue.  They share the towers in memory, which are    *)
(* read without the lock, and the database, which is read and written      *)
(* under it.  Requests to a tower are made without the lock and may take   *)
(* any time.                                                               *)
(*                                                                         *)
(* All towers are registered.  A commitment that is revoked is one         *)
(* appointment, with the same id for every tower.                          *)
(***************************************************************************)
EXTENDS SequencesExt

CONSTANTS
    Towers, Appts,
    Retriers,     \* bound on the threads of do_retry
    MaxTries,     \* MAX_RETRIES
    MaxRestarts,  \* bound
    Answers,      \* what add_appointment may come to in a run
    None,
    Rare          \* the rare events a run includes

Outcomes ==
    {"accepted",     \* a receipt with the tower's signature
     "forged",       \* SignatureError
     "unreachable",  \* no connection, or 503
     "subscription", \* 400, no subscription or no slots
     "invalid",      \* 400, any other error code
     "unexpected"}   \* any other error: logged, and None is unpacked

ASSUME WTClientAssumption ==
    /\ MaxTries \in Nat \ {0} /\ MaxRestarts \in Nat
    /\ None \notin Towers \cup Appts
    /\ Answers \subseteq Outcomes
    /\ Rare \subseteq {"overlap",     \* a hook meets a pass over the same tower
                      "retry again", \* retrytower while the tower is being retried
                      "restart",     \* a restart with appointments still to be retried
                      "register",    \* registertower for a tower that is registered
                      "unknown"}     \* retrytower of a tower that is not registered

VARIABLES
    towers,  \* WTClient.towers, in memory
    db,      \* TowersDBM
    lock,    \* WTClient.lock: "free" between updates, or "lost"
    queue,   \* temp_unreachable_towers
    hook,    \* the on_commitment_revocation in progress
    retry,   \* the threads of do_retry
    revoked, \* appointments made
    handed,  \* history: what the hook has dealt with, by tower
    restarts

vars == <<towers, db, lock, queue, hook, retry, revoked, handed, restarts>>

Status == {"reachable", "temporarily unreachable", "unreachable",
           "subscription error", "misbehaving"}

(* TowerInfo, what is on disk; TowerSummary, what is in memory.            *)
TowerInfo == [status : Status, appointments : SUBSET Appts, pending : Seq(Appts),
              invalid : SUBSET Appts, proof : SUBSET Appts]
TowerSummary == [status : Status, pending : Seq(Appts)]

get_summary(i) == [status |-> i.status, pending |-> i.pending]

Fresh == [status |-> "reachable", appointments |-> {}, pending |-> <<>>,
          invalid |-> {}, proof |-> {}]

NoHook == [step |-> "idle", u |-> None, left |-> {}, t |-> None, answer |-> "none"]
NoRetry == [step |-> "idle", t |-> None, list |-> <<>>, tries |-> 0, answer |-> "none"]

TypeOK ==
    /\ towers \in [Towers -> TowerSummary] /\ db \in [Towers -> TowerInfo]
    /\ lock \in {"free", "lost"} /\ queue \in Seq(Towers)
    /\ hook \in [step : {"idle", "next", "post", "update"}, u : Appts \cup {None},
                 left : SUBSET Towers, t : Towers \cup {None},
                 answer : Outcomes \cup {"none", "not sent"}]
    /\ retry \in [Retriers -> [step : {"idle", "pass", "post", "update", "give up"},
                               t : Towers \cup {None}, list : Seq(Appts),
                               tries : 0..MaxTries, answer : Outcomes \cup {"none"}]]
    /\ revoked \subseteq Appts /\ handed \in [Towers -> SUBSET Appts]
    /\ restarts \in 0..MaxRestarts

-----------------------------------------------------------------------------
(* Who is busy with a tower.                                               *)

InPass(t) == \E r \in Retriers : retry[r].t = t /\ retry[r].step \in {"post", "update"}

Retrying(t) == {r \in Retriers : retry[r].t = t}

(* A hook that comes to the tower now meets a retry: a pass that will not  *)
(* see what the hook adds, or one that has delivered something before it   *)
(* backed off, so that the tower seems reachable.                          *)
Overlaps(t) ==
    InPass(t) \/ (Retrying(t) # {} /\ towers[t].status = "reachable")

BeingRetried(t) == Retrying(t) # {} \/ Contains(queue, t)

-----------------------------------------------------------------------------
(* Fault: only the row is changed.                                         *)
UpdateDiskOnly(t, info) ==
    /\ lock = "free"
    /\ db' = [db EXCEPT ![t] = info]
    /\ UNCHANGED <<towers, lock>>

(* update_tower_state: the row is loaded, changed, summarised and stored   *)
(* under the lock.                                                         *)

update_tower_state(t, info) ==
    /\ lock = "free"
    /\ db' = [db EXCEPT ![t] = info]
    /\ towers' = [towers EXCEPT ![t] = get_summary(info)]
    /\ UNCHANGED lock

(* What the hook has to tell.  An appointment that is not sent goes to the *)
(* pending ones, and so does one that the tower may take later.            *)
HookUpdate(i, u, answer) ==
    [i EXCEPT
        !.status = CASE answer = "forged" -> "misbehaving"
                     [] answer = "unreachable" -> "temporarily unreachable"
                     [] answer = "subscription" -> "subscription error"
                     [] answer = "invalid" -> "reachable"
                     [] OTHER -> @,
        !.appointments = IF answer = "accepted" THEN @ \cup {u} ELSE @,
        !.pending = IF answer \in {"not sent", "unreachable", "subscription"}
                    THEN Append(@, u) ELSE @,
        !.invalid = IF answer = "invalid" THEN @ \cup {u} ELSE @,
        !.proof = IF answer = "forged" THEN {u} ELSE @]

(* Faults: what is delivered stays pending; what the tower refuses for     *)
(* lack of a subscription does not.                                        *)
RetryUpdateKeeps(i, u, answer) ==
    [i EXCEPT !.status = "reachable", !.appointments = @ \cup {u}]

RetryUpdateDrops(i, u, answer) ==
    [i EXCEPT
        !.status = CASE answer \in {"accepted", "invalid"} -> "reachable"
                     [] answer = "forged" -> "misbehaving"
                     [] OTHER -> "subscription error",
        !.appointments = IF answer = "accepted" THEN @ \cup {u} ELSE @,
        !.pending = RemoveFirst(@, u),
        !.invalid = IF answer = "invalid" THEN @ \cup {u} ELSE @,
        !.proof = IF answer = "forged" THEN {u} ELSE @]

(* What a retry has to tell.                                               *)
RetryUpdate(i, u, answer) ==
    [i EXCEPT
        !.status = CASE answer \in {"accepted", "invalid"} -> "reachable"
                     [] answer = "forged" -> "misbehaving"
                     [] OTHER -> "subscription error",
        !.appointments = IF answer = "accepted" THEN @ \cup {u} ELSE @,
        !.pending = IF answer = "subscription" THEN @ ELSE RemoveFirst(@, u),
        !.invalid = IF answer = "invalid" THEN @ \cup {u} ELSE @,
        !.proof = IF answer = "forged" THEN {u} ELSE @]

-----------------------------------------------------------------------------
(* on_commitment_revocation.                                               *)

Revoke(u) ==
    /\ hook = NoHook /\ u \notin revoked
    /\ revoked' = revoked \cup {u}
    /\ hook' = [NoHook EXCEPT !.step = "next", !.u = u, !.left = Towers]
    /\ UNCHANGED <<towers, db, lock, queue, retry, handed, restarts>>

(* Fault: a misbehaving tower is one of those that cannot be reached.      *)
VisitAll(t) ==
    /\ hook.step = "next" /\ t \in hook.left
    /\ ~Overlaps(t) \/ "overlap" \in Rare
    /\ hook' = IF towers[t].status = "reachable"
               THEN [hook EXCEPT !.left = @ \ {t}, !.t = t, !.step = "post"]
               ELSE [hook EXCEPT !.left = @ \ {t}, !.t = t,
                                 !.step = "update", !.answer = "not sent"]
    /\ UNCHANGED <<towers, db, lock, queue, retry, revoked, handed, restarts>>

(* Look at the status of the next tower and decide what to do.             *)
Visit(t) ==
    /\ hook.step = "next" /\ t \in hook.left
    /\ ~Overlaps(t) \/ "overlap" \in Rare
    /\ hook' = CASE towers[t].status = "misbehaving" -> [hook EXCEPT !.left = @ \ {t}]
                 [] towers[t].status = "reachable" ->
                        [hook EXCEPT !.left = @ \ {t}, !.t = t, !.step = "post"]
                 [] OTHER -> [hook EXCEPT !.left = @ \ {t}, !.t = t,
                                          !.step = "update", !.answer = "not sent"]
    /\ UNCHANGED <<towers, db, lock, queue, retry, revoked, handed, restarts>>

HookAnswer ==
    /\ hook.step = "post"
    /\ \E a \in Answers : hook' = [hook EXCEPT !.step = "update", !.answer = a]
    /\ UNCHANGED <<towers, db, lock, queue, retry, revoked, handed, restarts>>

(* Fault: the tower goes to the Retrier whenever something is pending.     *)
TellAlways ==
    /\ hook.step = "update"
    /\ update_tower_state(hook.t, HookUpdate(db[hook.t], hook.u, hook.answer))
    /\ queue' = IF hook.answer \in {"unreachable", "not sent"}
                THEN Append(queue, hook.t) ELSE queue
    /\ handed' = [handed EXCEPT ![hook.t] = @ \cup {hook.u}]
    /\ hook' = IF hook.answer = "unexpected" THEN NoHook
               ELSE [hook EXCEPT !.step = "next", !.t = None, !.answer = "none"]
    /\ UNCHANGED <<retry, revoked, restarts>>

(* The update, and the tower goes to the Retrier when it was unreachable.  *)
(* After an unexpected answer the exception ends the loop over the towers. *)
Tell ==
    /\ hook.step = "update"
    /\ update_tower_state(hook.t, HookUpdate(db[hook.t], hook.u, hook.answer))
    /\ queue' = IF hook.answer = "unreachable" THEN Append(queue, hook.t) ELSE queue
    /\ handed' = [handed EXCEPT ![hook.t] = @ \cup {hook.u}]
    /\ hook' = IF hook.answer = "unexpected" THEN NoHook
               ELSE [hook EXCEPT !.step = "next", !.t = None, !.answer = "none"]
    /\ UNCHANGED <<retry, revoked, restarts>>

HookDone ==
    /\ hook.step = "next" /\ hook.left = {}
    /\ hook' = NoHook
    /\ UNCHANGED <<towers, db, lock, queue, retry, revoked, handed, restarts>>

-----------------------------------------------------------------------------
(* The commands.  They run in the plugin's thread, between two hooks.      *)

(* retrytower: the status changes in memory only.                          *)
RetryTower(t) ==
    /\ hook = NoHook /\ lock = "free"
    /\ towers[t].status \in {"unreachable", "subscription error"}
    /\ towers[t].pending # <<>>
    /\ ~BeingRetried(t) \/ "retry again" \in Rare
    /\ towers' = [towers EXCEPT ![t].status = "temporarily unreachable"]
    /\ queue' = Append(queue, t)
    /\ UNCHANGED <<db, lock, hook, retry, revoked, handed, restarts>>

(* Of a tower that is not there the status is read all the same, under the *)
(* lock, which nobody releases.                                            *)
RetryUnknown ==
    /\ hook = NoHook /\ lock = "free" /\ "unknown" \in Rare
    /\ lock' = "lost"
    /\ UNCHANGED <<towers, db, queue, hook, retry, revoked, handed, restarts>>

(* registertower starts the tower's record afresh.                         *)
Register(t) ==
    /\ hook = NoHook /\ "register" \in Rare
    /\ update_tower_state(t, Fresh)
    /\ UNCHANGED <<queue, hook, retry, revoked, handed, restarts>>

-----------------------------------------------------------------------------
(* The Retrier.                                                            *)

manage_retry(r) ==
    /\ queue # <<>> /\ retry[r] = NoRetry
    /\ queue' = Tail(queue)
    /\ retry' = [retry EXCEPT ![r] = [NoRetry EXCEPT !.step = "pass", !.t = Head(queue)]]
    /\ UNCHANGED <<towers, db, lock, hook, revoked, handed, restarts>>

(* A call of do_retry, the first or after backing off.  The list it goes   *)
(* through is the one in memory now: updates replace it, and the pass does *)
(* not see them.                                                           *)
Begin(r) ==
    LET list == towers[retry[r].t].pending
    IN  /\ retry[r].step = "pass"
        /\ hook.t # retry[r].t \/ "overlap" \in Rare
        /\ retry' = [retry EXCEPT ![r] =
               IF list = <<>> THEN NoRetry
               ELSE [retry[r] EXCEPT !.step = "post", !.list = list, !.tries = @ + 1]]
        /\ UNCHANGED <<towers, db, lock, queue, hook, revoked, handed, restarts>>

(* Unreachable: back off, or give up after the last try.  An unexpected    *)
(* answer ends the thread.                                                 *)
Answer(r) ==
    /\ retry[r].step = "post"
    /\ \E a \in Answers :
          retry' = [retry EXCEPT ![r] =
              CASE a = "unexpected" -> NoRetry
                [] a = "unreachable" ->
                       [@ EXCEPT !.step = IF retry[r].tries = MaxTries THEN "give up" ELSE "pass",
                                 !.list = <<>>]
                [] OTHER -> [@ EXCEPT !.step = "update", !.answer = a]]
    /\ UNCHANGED <<towers, db, lock, queue, hook, revoked, handed, restarts>>

(* The thread goes on to the next of its list, or ends: at its end, or     *)
(* when the tower misbehaves or has no subscription.                       *)
GoOn(r) ==
    IF retry[r].answer \in {"accepted", "invalid"} /\ Tail(retry[r].list) # <<>>
    THEN [retry[r] EXCEPT !.step = "post", !.list = Tail(@), !.answer = "none"]
    ELSE NoRetry

(* Removing what is not pending raises, and the lock is not released.      *)
Deliver(r) ==
    LET t == retry[r].t
        u == Head(retry[r].list)
    IN  /\ retry[r].step = "update" /\ lock = "free"
        /\ IF retry[r].answer = "subscription" \/ Contains(db[t].pending, u)
           THEN /\ update_tower_state(t, RetryUpdate(db[t], u, retry[r].answer))
                /\ retry' = [retry EXCEPT ![r] = GoOn(r)]
           ELSE /\ lock' = "lost"
                /\ retry' = [retry EXCEPT ![r] = NoRetry]
                /\ UNCHANGED <<towers, db>>
        /\ UNCHANGED <<queue, hook, revoked, handed, restarts>>

(* Fault: the tower is not flagged, and so is not one to be retried.       *)
GiveUpSilently(r) ==
    /\ retry[r].step = "give up"
    /\ retry' = [retry EXCEPT ![r] = NoRetry]
    /\ UNCHANGED <<towers, db, lock, queue, hook, revoked, handed, restarts>>

(* The last try: the tower is flagged.                                     *)
on_giveup(r) ==
    /\ retry[r].step = "give up"
    /\ update_tower_state(retry[r].t, [db[retry[r].t] EXCEPT !.status = "unreachable"])
    /\ retry' = [retry EXCEPT ![r] = NoRetry]
    /\ UNCHANGED <<queue, hook, revoked, handed, restarts>>

-----------------------------------------------------------------------------
(* What a restart finds is shown to the user and left alone.               *)
LeftAlone(i) ==
    i.pending = <<>> \/ i.status \in {"unreachable", "subscription error", "misbehaving"}

(* The plugin ends, wherever its threads are, and WTClient is made again.  *)
Restart ==
    /\ restarts < MaxRestarts
    /\ "restart" \in Rare \/ \A t \in Towers : LeftAlone(db[t])
    /\ restarts' = restarts + 1
    /\ towers' = [t \in Towers |-> get_summary(db[t])]
    /\ lock' = "free" /\ queue' = <<>>
    /\ hook' = NoHook /\ retry' = [r \in Retriers |-> NoRetry]
    /\ UNCHANGED <<db, revoked, handed>>

Init ==
    /\ db = [t \in Towers |-> Fresh]
    /\ towers = [t \in Towers |-> get_summary(Fresh)]
    /\ lock = "free" /\ queue = <<>>
    /\ hook = NoHook /\ retry = [r \in Retriers |-> NoRetry]
    /\ revoked = {} /\ handed = [t \in Towers |-> {}] /\ restarts = 0

HookThread == (\E t \in Towers : Visit(t)) \/ HookAnswer \/ Tell \/ HookDone

RetryThread(r) == Begin(r) \/ Answer(r) \/ Deliver(r) \/ on_giveup(r)

Next ==
    \/ \E u \in Appts : Revoke(u)
    \/ HookThread
    \/ \E t \in Towers : RetryTower(t) \/ Register(t)
    \/ RetryUnknown
    \/ \E r \in Retriers : manage_retry(r) \/ RetryThread(r)
    \/ Restart

Spec == Init /\ [][Next]_vars

(* Requests have timeouts and backing off ends.                            *)
Fairness ==
    /\ WF_vars(HookThread)
    /\ WF_vars(\E r \in Retriers : manage_retry(r))
    /\ \A r \in Retriers : WF_vars(RetryThread(r))

FairSpec == Spec /\ Fairness

-----------------------------------------------------------------------------
(* The state is of its type; and memory shows what is on disk, but for the *)
(* status that retrytower sets.                                            *)
MemoryIsDisk ==
    /\ TypeOK
    /\ \A t \in Towers :
          /\ towers[t].pending = db[t].pending
          /\ \/ towers[t].status = db[t].status
             \/ /\ towers[t].status = "temporarily unreachable"
                /\ db[t].status \in {"unreachable", "subscription error"}

(* The records on disk, seen as an outbox.  Whatever the threads do to     *)
(* each other's updates, no appointment is in two places, or waits twice,  *)
(* or overtakes another, or leaves the place where it was settled.         *)
Outbox == INSTANCE Outbox WITH
    pending <- [t \in Towers |-> db[t].pending],
    settled <- [t \in Towers |-> [v \in {"accepted", "invalid", "proof"} |->
                   CASE v = "accepted" -> db[t].appointments
                     [] v = "invalid" -> db[t].invalid
                     [] v = "proof" -> db[t].proof]]

OutboxSpec == Outbox!Spec

(* No revoked commitment is lost: what the hook has dealt with is, for     *)
(* every tower, accepted, pending, invalid or the proof of misbehaviour.   *)
(* That is so as long as hooks and commands come to a tower in turn and no *)
(* answer is "unexpected".  With "overlap" a proof is overwritten by       *)
(* another, with "register" the record is, and an "unexpected" answer is   *)
(* filed nowhere; what is left then is OutboxSpec.                         *)
RevokedAreKept ==
    \A t \in Towers : \A u \in handed[t] :
        \/ u \in db[t].appointments \cup db[t].invalid \cup db[t].proof
        \/ Contains(db[t].pending, u)

(* The lock of the client is never lost, so no thread waits for ever.      *)
LockIsReleased == lock = "free"

(* "Run in a different thread per tower": two of them would deliver, and   *)
(* remove, the same appointments.                                          *)
OneThreadPerTower ==
    \A t \in Towers :
        /\ \A r, s \in Retrying(t) : r = s
        /\ Contains(queue, t) => Retrying(t) = {}

(* The client goes on: retries take turns and the lock comes back.         *)
OneAtATime == OneThreadPerTower /\ LockIsReleased

(* A misbehaving tower is abandoned for good.                              *)
MisbehavingIsAbandoned ==
    [][\A t \in Towers : db[t].status = "misbehaving" => db'[t] = db[t]]_vars

(* Every pending appointment is sent through in the end, or the tower is   *)
(* flagged.                                                                *)
PendingAreSettled ==
    \A t \in Towers : \A u \in Appts :
        Contains(db[t].pending, u)
            ~> \/ ~Contains(db[t].pending, u)
               \/ towers[t].status \in {"unreachable", "subscription error", "misbehaving"}
=============================================================================
