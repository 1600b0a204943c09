---------------------------- MODULE RequestsProofs ----------------------------
(***************************************************************************)
(* What a user pays for is taken, and no query misses an appointment that  *)
(* is on its way from the Watcher to the Responder: for any number of      *)
(* appointments, requests and blocks, whatever answers are lost and        *)
(* whatever rare events a behaviour includes.  Without the two rare events *)
(* what the user files of the answers is true of the tower.                *)
(***************************************************************************)
EXTENDS Requests, FiniteSetTheorems, TLAPS

-----------------------------------------------------------------------------
(* The inductive invariant.                                                *)

Accepted == {u \in Appts : filed[u] = "accepted"}
Keeping == {req[i].u : i \in {j \in Ids : At(j, "keep")}}

Paid == Registered => user.appointments \subseteq unheard \cup Accepted \cup Keeping

(* What a user has never exceeds the bound, however slots are moved.       *)
Within == Registered => user.slots + Cardinality(user.appointments) <= MaxSlots

(* One writer, and no readers beside it.                                   *)
WriterAlone ==
    /\ \A i \in Ids : req[i].step \in {"charge", "keep"} => writer = i
    /\ Readers # {} => writer = None

Querying == {"read", "tracker", "load", "info", "iterate"}

(* A request r is of the kind its step is for, and a query knows of all    *)
(* that has been out of custody (watched, w, or tracked, t) since it was   *)
(* authenticated.                                                          *)
RequestOK(r, w, t) ==
    /\ r.step \in {"lock", "charge", "keep"} => r.kind = "add"
    /\ r.step \in {"tracker", "load"} => r.kind = "get" /\ r.u \notin w
    /\ r.step \in {"info", "iterate"} => r.kind = "info"
    /\ r.step = "read" => r.kind \in {"get", "info"}
    /\ r.step # "idle" /\ r.kind \in {"add", "get"} => r.u \in Appts
    /\ r.step \in Querying => Asked(r.kind, r.u) \ (w \cup t) \subseteq r.absent
    /\ r.step = "iterate" => (r.of \ r.todo) \ r.absent \subseteq r.list
    /\ r.step = "answered" /\ r.verdict = "notfound" => r.u \in r.absent
    /\ r.step = "answered" /\ r.verdict = "listed" => r.of \ r.absent \subseteq r.list

(* A list is begun with an entry of registered_users, or one that was.     *)
EntryOK(r, usr) ==
    /\ r.step = "read" => r.entry = "live"
    /\ r.step = "info" => r.entry = "old" \/ (r.entry = "live" /\ usr \in User)

EntriesOK == \A i \in Ids : EntryOK(req[i], user)

RequestInv ==
    /\ TypeOK /\ Within /\ Paid /\ WriterAlone /\ EntriesOK
    /\ \A i \in Ids : RequestOK(req[i], watched, tracked)

-----------------------------------------------------------------------------
(* Types.                                                                  *)

LEMMA ConstantTypes ==
    /\ MaxSlots \in Nat /\ MaxHeight \in Nat /\ MaxLost \in Nat
    /\ SubscriptionSlots \in Nat /\ SubscriptionDuration \in Nat /\ ExpiryDelta \in Nat
    /\ SubscriptionSlots <= MaxSlots
    /\ None \notin Ids /\ None \notin Appts /\ IsFiniteSet(Appts)
BY RequestsAssumption

LEMMA BusyIsRequest ==
    ASSUME TypeOK, NEW i \in Ids, req[i].step # "idle"
    PROVE  req[i] \in Request
BY DEF TypeOK, NoRequest

LEMMA IdleStep == NoRequest.step = "idle" /\ NoRequest \in Request \cup {NoRequest}
BY DEF NoRequest

LEMMA NoRequestOK == \A w, t : RequestOK(NoRequest, w, t)
BY IdleStep DEF RequestOK, Querying

(* A request that goes on.                                                 *)
LEMMA GotoOne ==
    ASSUME TypeOK, NEW i \in Ids, req[i] \in Request, NEW s \in Steps, Goto(i, s)
    PROVE  /\ req' \in [Ids -> Request \cup {NoRequest}]
           /\ \A j \in Ids : j # i => req'[j] = req[j]
           /\ req'[i] \in Request /\ req'[i].step = s
           /\ req'[i].kind = req[i].kind /\ req'[i].u = req[i].u
           /\ req'[i].verdict = req[i].verdict /\ req'[i].absent = req[i].absent
           /\ req'[i].todo = req[i].todo /\ req'[i].list = req[i].list /\ req'[i].of = req[i].of
           /\ req'[i].entry = req[i].entry
<1> DEFINE new == [req[i] EXCEPT !.step = s]
<1>1. /\ new \in Request /\ new.step = s
      /\ new.kind = req[i].kind /\ new.u = req[i].u
      /\ new.verdict = req[i].verdict /\ new.absent = req[i].absent
      /\ new.todo = req[i].todo /\ new.list = req[i].list /\ new.of = req[i].of
      /\ new.entry = req[i].entry
  BY DEF Request
<1>2. req \in [Ids -> Request \cup {NoRequest}] /\ req' = [req EXCEPT ![i] = new]
  BY DEF TypeOK, Goto
<1> HIDE DEF new
<1> QED BY <1>1, <1>2

(* A request that ends, or whose answer is on its way.                     *)
LEMMA AnswerOne ==
    ASSUME TypeOK, NEW i \in Ids, req[i] \in Request, NEW v \in Verdicts, Answer(i, v)
    PROVE  /\ req' \in [Ids -> Request \cup {NoRequest}]
           /\ \A j \in Ids : j # i => req'[j] = req[j]
           /\ \/ req'[i] = NoRequest
              \/ /\ req'[i].step = "answered" /\ req'[i].verdict = v
                 /\ req'[i].kind = req[i].kind /\ req'[i].u = req[i].u
                 /\ req'[i].absent = req[i].absent
                 /\ req'[i].list = req[i].list /\ req'[i].of = req[i].of
<1> DEFINE new == [req[i] EXCEPT !.step = "answered", !.verdict = v]
<1>1. /\ new \in Request /\ new.step = "answered" /\ new.verdict = v
      /\ new.kind = req[i].kind /\ new.u = req[i].u
      /\ new.absent = req[i].absent
      /\ new.list = req[i].list /\ new.of = req[i].of
  BY DEF Request, Steps
<1>2. /\ req \in [Ids -> Request \cup {NoRequest}]
      /\ req' = [req EXCEPT ![i] = new] \/ req' = [req EXCEPT ![i] = NoRequest]
  BY DEF TypeOK, Answer
<1> HIDE DEF new
<1> QED BY <1>1, <1>2

-----------------------------------------------------------------------------
(* What keeps each part of the invariant.                                  *)

(* The answer is as good as the query was.                                 *)
LEMMA AnswerOK ==
    ASSUME NEW r, NEW a, NEW w, NEW t, NEW v, RequestOK(r, w, t), r.step # "idle",
           a = NoRequest \/ (/\ a.step = "answered" /\ a.verdict = v
                             /\ a.kind = r.kind /\ a.u = r.u
                             /\ a.absent = r.absent /\ a.list = r.list /\ a.of = r.of),
           v = "notfound" => r.u \in r.absent,
           v = "listed" => r.of \ r.absent \subseteq r.list
    PROVE  RequestOK(a, w, t)
<1>1. CASE a = NoRequest
  BY <1>1, NoRequestOK
<1>2. CASE a.step = "answered" /\ a.verdict = v
  BY <1>2, IdleStep DEF RequestOK, Querying
<1> QED BY <1>1, <1>2

LEMMA OthersOK ==
    ASSUME RequestInv, NEW i \in Ids, UNCHANGED custodyVars,
           \A j \in Ids : j # i => req'[j] = req[j],
           RequestOK(req'[i], watched, tracked)
    PROVE  \A j \in Ids : RequestOK(req'[j], watched', tracked')
<1>1. watched' = watched /\ tracked' = tracked
  BY DEF custodyVars
<1>2. ASSUME NEW j \in Ids PROVE RequestOK(req'[j], watched, tracked)
  <2>1. RequestOK(req[j], watched, tracked)
    BY DEF RequestInv
  <2> QED BY <2>1
<1> QED BY <1>1, <1>2

LEMMA WriterKept ==
    ASSUME WriterAlone, NEW i \in Ids, \A j \in Ids : j # i => req'[j] = req[j],
           writer' = writer,
           req'[i].step \in {"charge", "keep"} => req[i].step \in {"charge", "keep"},
           req'[i].step \in {"tracker", "load", "iterate"} =>
               req[i].step \in {"tracker", "load", "iterate"} \/ writer = None
    PROVE  WriterAlone'
<1>1. \A j \in Ids : req'[j].step \in {"charge", "keep"} => req[j].step \in {"charge", "keep"}
  OBVIOUS
<1>2. ASSUME NEW j \in Ids, req'[j].step \in {"tracker", "load", "iterate"}
      PROVE  writer = None
  <2>1. req[j].step \in {"tracker", "load", "iterate"} \/ writer = None
    BY <1>2
  <2> QED BY <2>1 DEF WriterAlone, Readers
<1> QED BY <1>1, <1>2 DEF WriterAlone, Readers

LEMMA WriterLeaves ==
    ASSUME WriterAlone, NEW i \in Ids, \A j \in Ids : j # i => req'[j] = req[j],
           req[i].step \in {"charge", "keep"}, writer' = None,
           req'[i].step \notin {"charge", "keep"}
    PROVE  WriterAlone'
<1>1. writer = i
  BY DEF WriterAlone
<1>2. ASSUME NEW j \in Ids, req'[j].step \in {"charge", "keep"} PROVE FALSE
  BY <1>1, <1>2 DEF WriterAlone
<1> QED BY <1>2 DEF WriterAlone

LEMMA PaidKept ==
    ASSUME Paid, user' = None \/ (/\ user # None
                                  /\ user'.appointments \subseteq user.appointments),
           Accepted \subseteq Accepted', unheard \subseteq unheard' \cup Accepted',
           \A j \in Ids : At(j, "keep") =>
               req[j].u \in unheard' \/ (req'[j].step = "keep" /\ req'[j].u = req[j].u)
    PROVE  Paid'
<1>1. ASSUME NEW j \in Ids, At(j, "keep") PROVE req[j].u \in unheard' \cup Keeping'
  BY <1>1 DEF Keeping, At
<1>2. \A u \in Keeping : u \in unheard' \cup Keeping'
  BY <1>1 DEF Keeping
<1>3. CASE user' # None
  <2>1. user.appointments \subseteq unheard \cup Accepted \cup Keeping
    BY <1>3 DEF Paid, Registered
  <2>2. user.appointments \subseteq unheard' \cup Accepted' \cup Keeping'
    BY <1>2, <2>1
  <2> QED BY <1>3, <2>2 DEF Paid
<1>4. CASE user' = None
  BY <1>4 DEF Paid, Registered
<1> QED BY <1>3, <1>4

-----------------------------------------------------------------------------
(* Steps that leave the user, the custody and what is filed alone, and     *)
(* move one request that is not one to be kept.                            *)
LEMMA OneRequest ==
    ASSUME RequestInv, NEW i \in Ids, req[i].step # "keep",
           UNCHANGED <<clockVars, user, outdated, custodyVars, writer, unheard, owed>>,
           req' \in [Ids -> Request \cup {NoRequest}],
           \A j \in Ids : j # i => req'[j] = req[j],
           RequestOK(req'[i], watched, tracked), EntryOK(req'[i], user),
           req'[i].step \in {"charge", "keep"} => req[i].step \in {"charge", "keep"},
           req'[i].step \in {"tracker", "load", "iterate"} =>
               req[i].step \in {"tracker", "load", "iterate"} \/ writer = None,
           filed' \in [Appts -> {"none", "pending", "accepted", "invalid"}],
           Accepted \subseteq Accepted',
           lost' \in 0..MaxLost
    PROVE  RequestInv'
<1>1. TypeOK'
  BY DEF RequestInv, TypeOK, clockVars, custodyVars
<1>2. Within'
  BY DEF RequestInv, Within, Registered
<1>3. \A j \in Ids : At(j, "keep") => req'[j].step = "keep" /\ req'[j].u = req[j].u
  BY DEF At
<1>4. Paid'
  <2>1. CASE user = None
    BY <2>1 DEF Paid, Registered
  <2>2. CASE user # None
    BY <1>3, <2>2, PaidKept DEF RequestInv
  <2> QED BY <2>1, <2>2
<1>5. WriterAlone'
  BY WriterKept DEF RequestInv
<1>6. \A j \in Ids : RequestOK(req'[j], watched', tracked')
  BY OthersOK
<1>7. EntriesOK'
  BY DEF RequestInv, EntriesOK
<1> QED BY <1>1, <1>2, <1>4, <1>5, <1>6, <1>7 DEF RequestInv

LEMMA NewRequestType ==
    ASSUME NEW k \in Kinds, NEW u \in Appts \cup {None}, NEW s \in Steps,
           NEW v \in Verdicts \cup {None}
    PROVE  LET n == NewRequest(k, u, s, v)
           IN  /\ n \in Request /\ n.kind = k /\ n.u = u /\ n.step = s /\ n.verdict = v
               /\ [n EXCEPT !.absent = Asked(k, u) \ Custody].step = s
BY DEF NewRequest, Request, Entries

LEMMA SendAddStep ==
    ASSUME RequestInv, NEW i \in Ids, NEW u \in Appts, SendAdd(i, u)
    PROVE  RequestInv'
<1> DEFINE d == inspect(Delay[u])
           new == IF d = "fine" THEN NewRequest("add", u, "lock", None)
                  ELSE NewRequest("add", u, "answered", d)
<1>1. /\ req[i].step = "idle" /\ req' = [req EXCEPT ![i] = new]
      /\ UNCHANGED <<clockVars, user, outdated, custodyVars, writer, filed, lost, hist>>
  BY DEF SendAdd, At
<1>2. d \in {"invalid", "error", "fine"}
  BY DEF inspect
<1>3. /\ new \in Request /\ new.kind = "add" /\ new.u = u /\ new.step \in {"lock", "answered"}
      /\ new.step = "answered" => new.verdict = d
  <2> HIDE DEF d
  <2>1. CASE d = "fine"
    <3>1. new = NewRequest("add", u, "lock", None)
      BY <2>1
    <3>2. /\ "add" \in Kinds /\ u \in Appts \cup {None} /\ "lock" \in Steps
          /\ None \in Verdicts \cup {None}
      BY <1>2 DEF Kinds, Steps, Verdicts
    <3> HIDE DEF new
    <3>3. /\ new \in Request /\ new.kind = "add" /\ new.u = u
          /\ new.step = "lock" /\ new.verdict = None
      BY <3>1, <3>2, NewRequestType
    <3> QED BY <3>3
  <2>2. CASE d # "fine"
    <3>1. new = NewRequest("add", u, "answered", d)
      BY <2>2
    <3>2. /\ "add" \in Kinds /\ u \in Appts \cup {None} /\ "answered" \in Steps
          /\ d \in Verdicts \cup {None}
      BY <1>2, <2>2 DEF Kinds, Steps, Verdicts
    <3> HIDE DEF new
    <3>3. /\ new \in Request /\ new.kind = "add" /\ new.u = u
          /\ new.step = "answered" /\ new.verdict = d
      BY <3>1, <3>2, NewRequestType
    <3> QED BY <3>3
  <2> QED BY <2>1, <2>2
<1> HIDE DEF new
<1>4. RequestOK(new, watched, tracked)
  BY <1>2, <1>3 DEF RequestOK, Querying
<1>5. /\ req' \in [Ids -> Request \cup {NoRequest}] /\ req'[i] = new
      /\ \A j \in Ids : j # i => req'[j] = req[j]
  BY <1>1, <1>3 DEF RequestInv, TypeOK
<1>6. /\ filed \in [Appts -> {"none", "pending", "accepted", "invalid"}]
      /\ filed' \in [Appts -> {"none", "pending", "accepted", "invalid"}]
  BY <1>1 DEF RequestInv, TypeOK
<1>7. Accepted \subseteq Accepted'
  BY <1>1, <1>6 DEF Accepted
<1>8. lost' \in 0..MaxLost
  BY <1>1 DEF RequestInv, TypeOK
<1>9. EntryOK(new, user)
  BY <1>3 DEF EntryOK
<1> QED BY <1>1, <1>3, <1>4, <1>5, <1>6, <1>7, <1>8, <1>9, OneRequest DEF hist

LEMMA TimeOutStep ==
    ASSUME RequestInv, NEW i \in Ids, TimeOut(i)
    PROVE  RequestInv'
<1> DEFINE r == req[i]
           new == IF r.step = "answered" THEN NoRequest ELSE [r EXCEPT !.heard = FALSE]
<1>1. /\ r.step # "idle" /\ req' = [req EXCEPT ![i] = new]
      /\ r.kind = "add" /\ lost < MaxLost /\ lost' = lost + 1
      /\ filed' = [filed EXCEPT ![r.u] = IF filed[r.u] = "none" THEN "pending" ELSE filed[r.u]]
      /\ UNCHANGED <<clockVars, user, outdated, custodyVars, writer, hist>>
  BY DEF TimeOut, At, Busy
<1>2. r \in Request /\ RequestOK(r, watched, tracked)
  BY <1>1, BusyIsRequest DEF RequestInv
<1>3. \/ new = NoRequest
      \/ /\ new \in Request /\ new.step = r.step /\ new.kind = r.kind /\ new.u = r.u
         /\ new.absent = r.absent /\ new.todo = r.todo /\ new.list = r.list /\ new.of = r.of
         /\ new.verdict = r.verdict /\ new.entry = r.entry
  BY <1>2 DEF Request
<1> HIDE DEF new, r
<1>4. RequestOK(new, watched, tracked)
  BY <1>2, <1>3, NoRequestOK DEF RequestOK
<1>5. /\ req' \in [Ids -> Request \cup {NoRequest}] /\ req'[i] = new
      /\ \A j \in Ids : j # i => req'[j] = req[j]
  BY <1>1, <1>3 DEF RequestInv, TypeOK
<1>6. /\ lost' \in 0..MaxLost /\ filed \in [Appts -> {"none", "pending", "accepted", "invalid"}]
      /\ filed' \in [Appts -> {"none", "pending", "accepted", "invalid"}]
  <2>1. r.u \in Appts /\ lost \in 0..MaxLost
    BY <1>1, <1>2 DEF RequestOK, RequestInv, TypeOK
  <2>2. filed \in [Appts -> {"none", "pending", "accepted", "invalid"}]
    BY DEF RequestInv, TypeOK
  <2>3. (IF filed[r.u] = "none" THEN "pending" ELSE filed[r.u]) \in {"none", "pending", "accepted", "invalid"}
    BY <2>1, <2>2
  <2>4. lost' \in 0..MaxLost
    BY <1>1, <2>1, ConstantTypes
  <2> QED BY <1>1, <2>2, <2>3, <2>4
<1>7. Accepted' = Accepted
  BY <1>1, <1>6 DEF Accepted
<1>8. TypeOK'
  BY <1>1, <1>5, <1>6 DEF RequestInv, TypeOK, clockVars, custodyVars, hist
<1>9. WriterAlone'
  BY <1>1, <1>3, <1>5, WriterKept, IdleStep DEF RequestInv, r
<1>10. \A j \in Ids : RequestOK(req'[j], watched', tracked')
  BY <1>1, <1>4, <1>5, OthersOK
<1>11. Within'
  BY <1>1 DEF RequestInv, Within, Registered
<1>12. Paid'
  <2>1. ASSUME NEW j \in Ids, At(j, "keep") PROVE req'[j].step = "keep" /\ req'[j].u = req[j].u
    <3>1. CASE j # i
      BY <1>5, <2>1, <3>1 DEF At
    <3>2. CASE j = i
      BY <1>1, <1>5, <2>1, <3>2 DEF At, new, r, Request
    <3> QED BY <3>1, <3>2
  <2>2. CASE user = None
    BY <1>1, <2>2 DEF Paid, Registered
  <2>3. CASE user # None
    BY <1>1, <1>7, <2>1, <2>3, PaidKept DEF RequestInv, hist
  <2> QED BY <2>2, <2>3
<1>13. EntriesOK'
  <2>1. EntryOK(new, user)
    BY <1>3, IdleStep DEF RequestInv, EntriesOK, EntryOK, r
  <2> QED BY <1>1, <1>5, <2>1 DEF RequestInv, EntriesOK
<1> QED BY <1>8, <1>9, <1>10, <1>11, <1>12, <1>13 DEF RequestInv

LEMMA ReceiveStep ==
    ASSUME RequestInv, NEW i \in Ids, Receive(i)
    PROVE  RequestInv'
<1> DEFINE r == req[i]
<1>1. /\ r.step = "answered" /\ req' = [req EXCEPT ![i] = NoRequest]
      /\ filed' = IF r.kind = "add" THEN [filed EXCEPT ![r.u] = Filing(r.u, r.verdict)] ELSE filed
      /\ unheard' = {u \in unheard : filed'[u] # "accepted"}
      /\ UNCHANGED <<clockVars, user, outdated, custodyVars, writer, lost, owed>>
  BY DEF Receive, At
<1>2. r \in Request /\ RequestOK(r, watched, tracked)
  BY <1>1, BusyIsRequest DEF RequestInv
<1>3. /\ req' \in [Ids -> Request \cup {NoRequest}] /\ req'[i] = NoRequest
      /\ \A j \in Ids : j # i => req'[j] = req[j]
  BY <1>1 DEF RequestInv, TypeOK
<1>4. r.kind = "add" => r.u \in Appts
  BY <1>1, <1>2 DEF RequestOK
<1>5. filed \in [Appts -> {"none", "pending", "accepted", "invalid"}] /\ unheard \subseteq Appts
  BY DEF RequestInv, TypeOK
<1>6. r.kind = "add" => /\ Filing(r.u, r.verdict) \in {"none", "pending", "accepted", "invalid"}
                        /\ filed[r.u] = "accepted" => Filing(r.u, r.verdict) = "accepted"
  BY <1>4, <1>5 DEF Filing
<1> HIDE DEF r
<1>7. filed' \in [Appts -> {"none", "pending", "accepted", "invalid"}]
  BY <1>1, <1>4, <1>5, <1>6
<1>8. Accepted \subseteq Accepted'
  BY <1>1, <1>4, <1>5, <1>6 DEF Accepted
<1>9. unheard \subseteq unheard' \cup Accepted' /\ unheard' \subseteq Appts
  BY <1>1, <1>5 DEF Accepted
<1>10. TypeOK'
  BY <1>1, <1>3, <1>7, <1>9 DEF RequestInv, TypeOK, clockVars, custodyVars
<1>11. Within'
  BY <1>1 DEF RequestInv, Within, Registered
<1>12. WriterAlone'
  BY <1>1, <1>3, WriterKept, IdleStep DEF RequestInv
<1>13. \A j \in Ids : RequestOK(req'[j], watched', tracked')
  BY <1>1, <1>3, OthersOK, NoRequestOK
<1>14. Paid'
  <2>1. \A j \in Ids : At(j, "keep") => req'[j].step = "keep" /\ req'[j].u = req[j].u
    BY <1>1, <1>3 DEF At, r
  <2>2. CASE user = None
    BY <1>1, <2>2 DEF Paid, Registered
  <2>3. CASE user # None
    BY <1>1, <1>8, <1>9, <2>1, <2>3, PaidKept DEF RequestInv
  <2> QED BY <2>2, <2>3
<1>15. EntriesOK'
  <2>1. EntryOK(NoRequest, user)
    BY IdleStep DEF EntryOK
  <2> QED BY <1>1, <1>3, <2>1 DEF RequestInv, EntriesOK
<1> QED BY <1>10, <1>11, <1>12, <1>13, <1>14, <1>15 DEF RequestInv

-----------------------------------------------------------------------------
(* The queries.                                                            *)

LEMMA FiledAlone ==
    ASSUME RequestInv, UNCHANGED filed
    PROVE  /\ filed' \in [Appts -> {"none", "pending", "accepted", "invalid"}]
           /\ Accepted' = Accepted
BY DEF RequestInv, TypeOK, Accepted

(* An answer that concerns nobody's slots.                                 *)
LEMMA AnswerStep ==
    ASSUME RequestInv, NEW i \in Ids, NEW v \in Verdicts, Answer(i, v),
           req[i].step \notin {"idle", "keep"},
           v = "notfound" => req[i].u \in req[i].absent,
           v = "listed" => req[i].of \ req[i].absent \subseteq req[i].list,
           UNCHANGED <<clockVars, user, outdated, custodyVars, writer, filed, unheard, owed>>,
           lost' \in 0..MaxLost
    PROVE  RequestInv'
<1>1. req[i] \in Request /\ RequestOK(req[i], watched, tracked) /\ TypeOK
  BY BusyIsRequest DEF RequestInv
<1>2. /\ req' \in [Ids -> Request \cup {NoRequest}]
      /\ \A j \in Ids : j # i => req'[j] = req[j]
      /\ \/ req'[i] = NoRequest
         \/ /\ req'[i].step = "answered" /\ req'[i].verdict = v
            /\ req'[i].kind = req[i].kind /\ req'[i].u = req[i].u
            /\ req'[i].absent = req[i].absent
            /\ req'[i].list = req[i].list /\ req'[i].of = req[i].of
  BY <1>1, AnswerOne
<1>3. RequestOK(req'[i], watched, tracked)
  BY <1>1, <1>2, AnswerOK
<1>4. req'[i].step \in {"idle", "answered"}
  BY <1>2, IdleStep
<1>5. EntryOK(req'[i], user)
  BY <1>4 DEF EntryOK
<1> QED BY <1>2, <1>3, <1>4, <1>5, FiledAlone, OneRequest

(* A step of a query that only looks.                                      *)
LEMMA GotoStep ==
    ASSUME RequestInv, NEW i \in Ids, NEW s \in {"tracker", "load", "info"}, Goto(i, s),
           req[i].step \in {"read", "tracker"},
           s \in {"tracker", "load"} => req[i].kind = "get" /\ req[i].u \notin watched,
           s = "info" => req[i].kind = "info" /\ req[i].step = "read" /\ user \in User,
           s \in {"tracker", "load"} => writer = None \/ req[i].step = "tracker",
           UNCHANGED <<clockVars, user, outdated, custodyVars, writer, filed, lost, hist>>
    PROVE  RequestInv'
<1>1. req[i] \in Request /\ RequestOK(req[i], watched, tracked) /\ TypeOK
  BY BusyIsRequest DEF RequestInv
<1>2. /\ req' \in [Ids -> Request \cup {NoRequest}]
      /\ \A j \in Ids : j # i => req'[j] = req[j]
      /\ req'[i].step = s /\ req'[i].kind = req[i].kind /\ req'[i].u = req[i].u
      /\ req'[i].absent = req[i].absent /\ req'[i].entry = req[i].entry
  BY <1>1, GotoOne DEF Steps
<1>3. RequestOK(req'[i], watched, tracked)
  BY <1>1, <1>2 DEF RequestOK, Querying
<1>4. lost' \in 0..MaxLost
  BY DEF RequestInv, TypeOK
<1>5. EntryOK(req'[i], user)
  BY <1>2 DEF RequestInv, EntriesOK, EntryOK
<1> QED BY <1>2, <1>3, <1>4, <1>5, FiledAlone, OneRequest DEF hist

LEMMA AuthenticateStep ==
    ASSUME RequestInv, NEW i \in Ids, NEW k \in {"get", "info"}, NEW u,
           k = "get" => u \in Appts, k = "info" => u = None, Authenticate(i, k, u)
    PROVE  RequestInv'
<1> DEFINE new == [NewRequest(k, u, "read", None) EXCEPT !.absent = Asked(k, u) \ Custody]
<1>1. /\ req[i].step = "idle" /\ req' = [req EXCEPT ![i] = new]
      /\ UNCHANGED <<clockVars, user, outdated, custodyVars, writer, filed, lost, hist>>
  BY DEF Authenticate, At
<1>2. Asked(k, u) \subseteq Appts
  BY DEF Asked
<1>3. /\ new \in Request /\ new.kind = k /\ new.u = u /\ new.step = "read"
      /\ new.absent = Asked(k, u) \ (watched \cup tracked) /\ new.entry = "live"
  BY <1>2 DEF NewRequest, Request, Kinds, Steps, Entries, Custody
<1> HIDE DEF new
<1>4. RequestOK(new, watched, tracked)
  BY <1>3 DEF RequestOK, Querying
<1>5. /\ req' \in [Ids -> Request \cup {NoRequest}] /\ req'[i] = new
      /\ \A j \in Ids : j # i => req'[j] = req[j]
  BY <1>1, <1>3 DEF RequestInv, TypeOK
<1>6. lost' \in 0..MaxLost
  BY <1>1 DEF RequestInv, TypeOK
<1>7. EntryOK(new, user)
  BY <1>3 DEF EntryOK
<1> QED BY <1>1, <1>3, <1>4, <1>5, <1>6, <1>7, FiledAlone, OneRequest DEF hist

LEMMA GetStep ==
    ASSUME RequestInv, NEW i \in Ids, Read(i) \/ HasTracker(i) \/ LoadTracker(i)
    PROVE  RequestInv'
<1>1. lost \in 0..MaxLost /\ {"found", "notfound"} \subseteq Verdicts
  BY DEF RequestInv, TypeOK, Verdicts
<1>2. RequestOK(req[i], watched, tracked)
  BY DEF RequestInv
<1>3. CASE Read(i)
  <2>1. req[i].step = "read" /\ req[i].kind = "get" /\ writer = None
        /\ UNCHANGED <<clockVars, user, outdated, custodyVars, writer, filed, lost, hist>>
    BY <1>3 DEF Read, At
  <2>2. CASE req[i].u \in watched
    BY <1>1, <1>3, <2>1, <2>2, AnswerStep DEF Read, hist
  <2>3. CASE req[i].u \notin watched
    BY <1>3, <2>1, <2>3, GotoStep DEF Read
  <2> QED BY <2>2, <2>3
<1>4. CASE HasTracker(i)
  <2>1. req[i].step = "tracker"
        /\ UNCHANGED <<clockVars, user, outdated, custodyVars, writer, filed, lost, hist>>
    BY <1>4 DEF HasTracker, At
  <2>2. req[i].kind = "get" /\ req[i].u \notin watched /\ req[i].u \in Appts
    BY <1>2, <2>1 DEF RequestOK
  <2>3. CASE req[i].u \in tracked
    BY <1>4, <2>1, <2>2, <2>3, GotoStep DEF HasTracker
  <2>4. CASE req[i].u \notin tracked
    <3>1. req[i].u \in req[i].absent
      BY <1>2, <2>1, <2>2, <2>4 DEF RequestOK, Querying, Asked
    <3> QED BY <1>1, <1>4, <2>1, <2>4, <3>1, AnswerStep DEF HasTracker, hist
  <2> QED BY <2>3, <2>4
<1>5. CASE LoadTracker(i)
  <2>1. req[i].step = "load"
        /\ UNCHANGED <<clockVars, user, outdated, custodyVars, writer, filed, lost, hist>>
    BY <1>5 DEF LoadTracker, At
  <2>2. req[i].kind = "get" /\ req[i].u \notin watched /\ req[i].u \in Appts
    BY <1>2, <2>1 DEF RequestOK
  <2>3. req[i].u \notin tracked => req[i].u \in req[i].absent
    BY <1>2, <2>1, <2>2 DEF RequestOK, Querying, Asked
  <2> DEFINE v == IF req[i].u \in tracked THEN "found" ELSE "notfound"
  <2>4. v \in Verdicts /\ v # "listed" /\ (v = "notfound" => req[i].u \in req[i].absent)
    BY <1>1, <2>3
  <2>5. Answer(i, v)
    BY <1>5 DEF LoadTracker
  <2> HIDE DEF v
  <2> QED BY <1>1, <2>1, <2>4, <2>5, AnswerStep DEF hist
<1> QED BY <1>3, <1>4, <1>5

(* A list goes on, with one appointment more or without one that is in     *)
(* neither place, or is answered.                                          *)
LEMMA ListGoesOn ==
    ASSUME RequestInv, NEW i \in Ids, ListNext(i)
    PROVE  \/ Answer(i, "unavailable")
           \/ req[i].todo = {} /\ Answer(i, "listed")
           \/ \E new \in Request :
                 /\ req' = [req EXCEPT ![i] = new]
                 /\ new.step = "iterate" /\ new.kind = "info"
                 /\ new.of = req[i].of /\ new.absent = req[i].absent
                 /\ req[i].list \subseteq new.list
                 /\ (req[i].todo \ new.todo) \ req[i].absent \subseteq new.list
<1> DEFINE r == req[i]
           listed(u) == Listed(r, u)
           picked(u) == [r EXCEPT !.u = u]
           passed(u) == [r EXCEPT !.todo = r.todo \ {u}]
           goes(new) == /\ new \in Request /\ new.step = "iterate" /\ new.kind = "info"
                        /\ new.of = r.of /\ new.absent = r.absent /\ r.list \subseteq new.list
                        /\ (r.todo \ new.todo) \ r.absent \subseteq new.list
<1>1. r.step = "iterate" /\ RequestOK(r, watched, tracked) /\ req \in [Ids -> Request \cup {NoRequest}]
  BY DEF ListNext, At, RequestInv, TypeOK
<1>2. r \in Request /\ r.kind = "info" /\ r.todo \subseteq Appts /\ r.list \subseteq Appts /\ r.u \in Appts \cup {None}
  <2>1. r \in Request /\ r.kind = "info"
    BY <1>1, BusyIsRequest DEF RequestInv, RequestOK
  <2> QED BY <2>1 DEF Request
<1>3. \A u \in Appts : u \notin Custody => u \in r.absent
  BY <1>1, <1>2 DEF RequestOK, Querying, Asked, Custody
<1>4. \/ Answer(i, "unavailable")
      \/ r.todo = {} /\ Answer(i, "listed")
      \/ r.u # None /\ req' = [req EXCEPT ![i] = listed(r.u)]
      \/ \E u \in r.todo :
             \/ req' = [req EXCEPT ![i] = listed(u)]
             \/ req' = [req EXCEPT ![i] = picked(u)]
             \/ u \notin Custody /\ req' = [req EXCEPT ![i] = passed(u)]
  <2>1. /\ \A u : [req EXCEPT ![i].u = u] = [req EXCEPT ![i] = picked(u)]
        /\ \A u : [req EXCEPT ![i].todo = @ \ {u}] = [req EXCEPT ![i] = passed(u)]
    OBVIOUS
  <2>2. \/ Answer(i, "unavailable")
        \/ r.todo = {} /\ Answer(i, "listed")
        \/ r.u # None /\ req' = [req EXCEPT ![i] = listed(r.u)]
        \/ \E u \in r.todo :
               \/ req' = [req EXCEPT ![i] = listed(u)]
               \/ req' = [req EXCEPT ![i].u = u]
               \/ u \notin Custody /\ req' = [req EXCEPT ![i].todo = @ \ {u}]
    BY DEF ListNext
  <2> HIDE DEF picked, passed, listed
  <2> QED BY <2>1, <2>2
<1> HIDE DEF r
<1>5. ASSUME NEW u \in Appts PROVE goes(listed(u)) /\ goes(picked(u)) /\ (u \notin Custody => goes(passed(u)))
  <2>1. goes(listed(u))
    BY <1>1, <1>2, <1>5 DEF Request, Listed
  <2>2. goes(picked(u))
    BY <1>1, <1>2, <1>5 DEF Request
  <2>3. u \notin Custody => goes(passed(u))
    BY <1>1, <1>2, <1>3, <1>5 DEF Request
  <2> QED BY <2>1, <2>2, <2>3
<1>6. \A new : goes(new) /\ req' = [req EXCEPT ![i] = new] =>
          \E n \in Request : req' = [req EXCEPT ![i] = n] /\ goes(n)
  OBVIOUS
<1>7. \/ Answer(i, "unavailable")
      \/ r.todo = {} /\ Answer(i, "listed")
      \/ \E n \in Request : req' = [req EXCEPT ![i] = n] /\ goes(n)
  <2> HIDE DEF listed, picked, passed, goes
  <2>1. \A u \in r.todo : u \in Appts
    BY <1>2
  <2>2. r.u # None => r.u \in Appts
    BY <1>2
  <2> QED BY <1>4, <1>5, <1>6, <2>1, <2>2
<1> QED BY <1>7 DEF r

LEMMA InfoStep ==
    ASSUME RequestInv, NEW i \in Ids, GetUserInfo(i) \/ StartList(i) \/ ListNext(i)
    PROVE  RequestInv'
<1>1. lost \in 0..MaxLost /\ {"listed", "unavailable"} \subseteq Verdicts
  BY DEF RequestInv, TypeOK, Verdicts
<1>2. RequestOK(req[i], watched, tracked)
  BY DEF RequestInv
<1>3. CASE GetUserInfo(i)
  <2>1. /\ req[i].step = "read" /\ req[i].kind = "info"
        /\ UNCHANGED <<clockVars, user, outdated, custodyVars, writer, filed, lost, hist>>
    BY <1>3 DEF GetUserInfo, At
  <2>2. CASE Goto(i, "info") /\ Registered
    <3>1. user \in User
      BY <2>2 DEF RequestInv, TypeOK, Registered
    <3> QED BY <2>1, <2>2, <3>1, GotoStep
  <2>3. CASE Answer(i, "unavailable")
    BY <1>1, <2>1, <2>3, AnswerStep DEF hist
  <2> QED BY <1>3, <2>2, <2>3 DEF GetUserInfo
<1>4. CASE StartList(i)
  <2> DEFINE all == IF req[i].entry = "old" THEN req[i].of ELSE user.appointments
             new == [req[i] EXCEPT !.step = "iterate", !.todo = all, !.of = all]
  <2>1. /\ req[i].step = "info" /\ writer = None /\ req' = [req EXCEPT ![i] = new]
        /\ UNCHANGED <<clockVars, user, outdated, custodyVars, writer, filed, lost, hist>>
    BY <1>4 DEF StartList, At
  <2>2. req[i] \in Request /\ req[i].kind = "info"
    BY <1>2, <2>1, BusyIsRequest DEF RequestInv, RequestOK
  <2>3. all \subseteq Appts
    BY <2>1, <2>2 DEF RequestInv, EntriesOK, EntryOK, Request, User
  <2>4. /\ new \in Request /\ new.step = "iterate" /\ new.kind = "info" /\ new.u = req[i].u
        /\ new.todo = all /\ new.of = all /\ new.absent = req[i].absent
    <3> HIDE DEF all
    <3> QED BY <2>2, <2>3 DEF Request, Steps
  <2> HIDE DEF new, all
  <2>5. RequestOK(new, watched, tracked) /\ EntryOK(new, user)
    BY <1>2, <2>1, <2>2, <2>4 DEF RequestOK, Querying, EntryOK
  <2>6. /\ req' \in [Ids -> Request \cup {NoRequest}] /\ req'[i] = new
        /\ \A j \in Ids : j # i => req'[j] = req[j]
    BY <2>1, <2>4 DEF RequestInv, TypeOK
  <2> QED BY <1>1, <2>1, <2>4, <2>5, <2>6, FiledAlone, OneRequest DEF hist
<1>5. CASE ListNext(i)
  <2>1. /\ req[i].step = "iterate"
        /\ UNCHANGED <<clockVars, user, outdated, custodyVars, writer, filed, lost, hist>>
    BY <1>5 DEF ListNext, At
  <2>2. req[i] \in Request /\ req[i].kind = "info"
    BY <1>2, <2>1, BusyIsRequest DEF RequestInv, RequestOK
  <2>3. CASE Answer(i, "unavailable")
    BY <1>1, <2>1, <2>3, AnswerStep DEF hist
  <2>4. CASE req[i].todo = {} /\ Answer(i, "listed")
    <3>1. req[i].of \ req[i].absent \subseteq req[i].list
      BY <1>2, <2>1, <2>4 DEF RequestOK
    <3> QED BY <1>1, <2>1, <2>4, <3>1, AnswerStep DEF hist
  <2>5. ASSUME NEW new \in Request, req' = [req EXCEPT ![i] = new],
               new.step = "iterate", new.kind = "info",
               new.of = req[i].of, new.absent = req[i].absent, req[i].list \subseteq new.list,
               (req[i].todo \ new.todo) \ req[i].absent \subseteq new.list
        PROVE  RequestInv'
    <3>1. (new.of \ new.todo) \ new.absent \subseteq new.list
      BY <1>2, <2>1, <2>5 DEF RequestOK
    <3>2. RequestOK(new, watched, tracked) /\ EntryOK(new, user)
      BY <1>2, <2>1, <2>2, <2>5, <3>1 DEF RequestOK, Querying, EntryOK, Asked
    <3>3. /\ req' \in [Ids -> Request \cup {NoRequest}] /\ req'[i] = new
          /\ \A j \in Ids : j # i => req'[j] = req[j]
      BY <2>5 DEF RequestInv, TypeOK
    <3> QED BY <1>1, <2>1, <2>5, <3>2, <3>3, FiledAlone, OneRequest DEF hist
  <2> QED BY <1>5, <2>3, <2>4, <2>5, ListGoesOn
<1> QED BY <1>3, <1>4, <1>5

-----------------------------------------------------------------------------
(* add_appointment.                                                        *)

LEMMA EnterStep ==
    ASSUME RequestInv, NEW i \in Ids, Enter(i)
    PROVE  RequestInv'
<1>1. /\ req[i].step = "lock" /\ writer = None /\ Readers = {}
      /\ UNCHANGED <<clockVars, user, outdated, custodyVars, filed, hist>>
  BY DEF Enter, At
<1>2. /\ req[i] \in Request /\ RequestOK(req[i], watched, tracked) /\ TypeOK
      /\ lost \in 0..MaxLost
  BY <1>1, BusyIsRequest DEF RequestInv, TypeOK
<1>3. CASE /\ Refusal(req[i].u) # None
           /\ Answer(i, Refusal(req[i].u)) /\ UNCHANGED <<writer, lost>>
  <2>1. Refusal(req[i].u) \in {"subscription", "triggered"}
    BY <1>3 DEF Refusal
  <2> QED BY <1>1, <1>2, <1>3, <2>1, AnswerStep DEF Verdicts, hist
<1>4. CASE Away /\ Answer(i, "unavailable") /\ UNCHANGED writer
  <2>1. lost' \in 0..MaxLost
    BY <1>2, <1>4, ConstantTypes DEF Away
  <2> QED BY <1>1, <1>4, <2>1, AnswerStep DEF Verdicts, hist
<1>5. CASE writer' = i /\ Goto(i, "charge") /\ UNCHANGED lost
  <2>1. /\ req' \in [Ids -> Request \cup {NoRequest}]
        /\ \A j \in Ids : j # i => req'[j] = req[j]
        /\ req'[i].step = "charge" /\ req'[i].kind = req[i].kind /\ req'[i].u = req[i].u
    BY <1>2, <1>5, GotoOne DEF Steps
  <2>2. TypeOK'
    BY <1>1, <1>2, <1>5, <2>1 DEF TypeOK, clockVars, custodyVars, hist
  <2>3. RequestOK(req'[i], watched, tracked)
    BY <1>1, <1>2, <2>1 DEF RequestOK, Querying
  <2>4. \A j \in Ids : RequestOK(req'[j], watched', tracked')
    BY <1>1, <2>1, <2>3, OthersOK
  <2>5. WriterAlone'
    <3>1. \A j \in Ids : req[j].step \notin {"charge", "keep"}
      BY <1>1, ConstantTypes DEF RequestInv, WriterAlone
    <3>2. Readers' = {}
      BY <1>1, <2>1 DEF Readers
    <3> QED BY <1>5, <2>1, <3>1, <3>2 DEF WriterAlone
  <2>6. Within'
    BY <1>1 DEF RequestInv, Within, Registered
  <2>7. Paid'
    <3>1. \A j \in Ids : At(j, "keep") => req'[j].step = "keep" /\ req'[j].u = req[j].u
      BY <1>1, <2>1 DEF At
    <3>2. CASE user = None
      BY <1>1, <3>2 DEF Paid, Registered
    <3>3. CASE user # None
      BY <1>1, <3>1, <3>3, PaidKept, FiledAlone DEF RequestInv, hist
    <3> QED BY <3>2, <3>3
  <2>8. EntriesOK'
    <3>1. EntryOK(req'[i], user)
      BY <2>1 DEF EntryOK
    <3> QED BY <1>1, <2>1, <3>1 DEF RequestInv, EntriesOK
  <2> QED BY <2>2, <2>4, <2>5, <2>6, <2>7, <2>8 DEF RequestInv
<1> QED BY <1>3, <1>4, <1>5 DEF Enter

(* A request that is charged for, or not.                                  *)
LEMMA ChargeStep ==
    ASSUME RequestInv, NEW i \in Ids, Charge(i)
    PROVE  RequestInv'
<1> DEFINE u == req[i].u
<1>1. /\ req[i].step = "charge"
      /\ UNCHANGED <<clockVars, outdated, custodyVars, filed, lost, hist>>
  BY DEF Charge, At
<1>2. /\ req[i] \in Request /\ RequestOK(req[i], watched, tracked) /\ TypeOK /\ u \in Appts
      /\ u # None /\ writer = i
  BY <1>1, BusyIsRequest, ConstantTypes DEF RequestInv, RequestOK, WriterAlone
<1>3. CASE \E v \in Verdicts : /\ Answer(i, v) /\ v \notin {"notfound", "listed"}
                               /\ writer' = None /\ UNCHANGED user
  <2>1. PICK v \in Verdicts : /\ Answer(i, v) /\ v \notin {"notfound", "listed"}
                              /\ writer' = None /\ UNCHANGED user
    BY <1>3
  <2>2. /\ req' \in [Ids -> Request \cup {NoRequest}]
        /\ \A j \in Ids : j # i => req'[j] = req[j]
        /\ \/ req'[i] = NoRequest
           \/ /\ req'[i].step = "answered" /\ req'[i].verdict = v
              /\ req'[i].kind = req[i].kind /\ req'[i].u = req[i].u
              /\ req'[i].absent = req[i].absent
              /\ req'[i].list = req[i].list /\ req'[i].of = req[i].of
    BY <1>2, <2>1, AnswerOne
  <2>3. req'[i].step \in {"idle", "answered"}
    BY <2>2, IdleStep
  <2>4. RequestOK(req'[i], watched, tracked)
    BY <1>1, <1>2, <2>1, <2>2, AnswerOK
  <2>5. \A j \in Ids : RequestOK(req'[j], watched', tracked')
    BY <1>1, <2>2, <2>4, OthersOK
  <2>6. TypeOK'
    BY <1>1, <1>2, <2>1, <2>2 DEF TypeOK, clockVars, custodyVars, hist
  <2>7. WriterAlone'
    BY <1>1, <2>1, <2>2, <2>3, WriterLeaves DEF RequestInv
  <2>8. Within'
    BY <2>1 DEF RequestInv, Within, Registered
  <2>9. Paid'
    <3>1. \A j \in Ids : At(j, "keep") => req'[j].step = "keep" /\ req'[j].u = req[j].u
      BY <1>1, <2>2 DEF At
    <3>2. CASE user = None
      BY <2>1, <3>2 DEF Paid, Registered
    <3>3. CASE user # None
      BY <1>1, <2>1, <3>1, <3>3, PaidKept, FiledAlone DEF RequestInv, hist
    <3> QED BY <3>2, <3>3
  <2>10. EntriesOK'
    <3>1. EntryOK(req'[i], user)
      BY <2>3 DEF EntryOK
    <3> QED BY <2>1, <2>2, <3>1 DEF RequestInv, EntriesOK
  <2> QED BY <2>5, <2>6, <2>7, <2>8, <2>9, <2>10 DEF RequestInv
<1>4. CASE /\ Registered /\ Goto(i, "keep") /\ UNCHANGED writer
           /\ \/ u \in user.appointments /\ UNCHANGED user
              \/ /\ u \notin user.appointments /\ user.slots > 0
                 /\ user' = [user EXCEPT !.slots = @ - 1, !.appointments = @ \cup {u}]
  <2>1. /\ req' \in [Ids -> Request \cup {NoRequest}]
        /\ \A j \in Ids : j # i => req'[j] = req[j]
        /\ req'[i].step = "keep" /\ req'[i].kind = req[i].kind /\ req'[i].u = u
    BY <1>2, <1>4, GotoOne DEF Steps
  <2>2. /\ user \in User /\ user.slots \in Nat /\ IsFiniteSet(user.appointments)
        /\ user.slots + Cardinality(user.appointments) <= MaxSlots
        /\ Cardinality(user.appointments) \in Nat
    <3>1. user \in User
      BY <1>2, <1>4 DEF TypeOK, Registered
    <3>2. user.appointments \subseteq Appts /\ user.slots \in Nat
      BY <3>1, ConstantTypes DEF User
    <3>3. IsFiniteSet(user.appointments)
      BY <3>2, ConstantTypes, FS_Subset
    <3> QED BY <1>4, <3>1, <3>2, <3>3, FS_CardinalityType DEF RequestInv, Within
  <2>3. /\ user' \in User
        /\ user'.appointments = user.appointments \cup {u}
        /\ user'.slots + Cardinality(user'.appointments) <= MaxSlots
    <3>1. CASE u \in user.appointments /\ UNCHANGED user
      BY <2>2, <3>1
    <3>2. CASE /\ u \notin user.appointments /\ user.slots > 0
               /\ user' = [user EXCEPT !.slots = @ - 1, !.appointments = @ \cup {u}]
      <4> DEFINE left == user.slots - 1
                 all == user.appointments \cup {u}
                 new == [user EXCEPT !.slots = left, !.appointments = all]
      <4>5. left \in 0..MaxSlots /\ all \subseteq Appts
        BY <1>2, <2>2, <3>2, ConstantTypes DEF User
      <4>1. /\ new \in User /\ new.slots = user.slots - 1
            /\ new.appointments = user.appointments \cup {u}
        <5> HIDE DEF left, all
        <5>1. new \in User /\ new.slots = left /\ new.appointments = all
          BY <2>2, <4>5 DEF User
        <5> QED BY <5>1 DEF left, all
      <4>2. Cardinality(user.appointments \cup {u}) = Cardinality(user.appointments) + 1
        BY <2>2, <3>2, FS_AddElement
      <4> HIDE DEF new
      <4>3. user' = new
        BY <3>2 DEF new
      <4>4. new.slots + Cardinality(new.appointments) <= MaxSlots
        BY <2>2, <4>1, <4>2, ConstantTypes
      <4> QED BY <4>1, <4>3, <4>4
    <3> QED BY <1>4, <3>1, <3>2
  <2>4. TypeOK'
    BY <1>1, <1>2, <1>4, <2>1, <2>3 DEF TypeOK, clockVars, custodyVars, hist
  <2>5. Within'
    BY <2>3 DEF Within
  <2>6. RequestOK(req'[i], watched, tracked)
    BY <1>1, <1>2, <2>1 DEF RequestOK, Querying
  <2>7. \A j \in Ids : RequestOK(req'[j], watched', tracked')
    BY <1>1, <2>1, <2>6, OthersOK
  <2>8. WriterAlone'
    BY <1>1, <1>4, <2>1, WriterKept DEF RequestInv
  <2>9. Paid'
    <3>1. ASSUME NEW j \in Ids, At(j, "keep") PROVE req[j].u \in Keeping'
      <4>1. req'[j] = req[j]
        BY <1>1, <2>1, <3>1 DEF At
      <4> QED BY <3>1, <4>1 DEF Keeping, At
    <3>2. Keeping \subseteq Keeping'
      BY <3>1 DEF Keeping
    <3>3. u \in Keeping'
      BY <2>1 DEF Keeping, At
    <3>4. user.appointments \subseteq unheard \cup Accepted \cup Keeping
      BY <1>4 DEF RequestInv, Paid
    <3> QED BY <1>1, <2>3, <3>2, <3>3, <3>4, FiledAlone DEF Paid, hist
  <2>10. EntriesOK'
    <3>1. EntryOK(req'[i], user')
      BY <2>1 DEF EntryOK
    <3> QED BY <2>1, <2>3, <3>1 DEF RequestInv, EntriesOK, EntryOK
  <2> QED BY <2>4, <2>5, <2>7, <2>8, <2>9, <2>10 DEF RequestInv
<1>5. {"unavailable", "subscription"} \subseteq Verdicts
  BY DEF Verdicts
<1> QED BY <1>3, <1>4, <1>5 DEF Charge

LEMMA KeepStep ==
    ASSUME RequestInv, NEW i \in Ids, Keep(i)
    PROVE  RequestInv'
<1> DEFINE u == req[i].u
           v == IF Registered THEN "accepted" ELSE "unavailable"
<1>1. /\ req[i].step = "keep" /\ writer' = None
      /\ watched \subseteq watched' /\ tracked \subseteq tracked'
      /\ watched' \subseteq watched \cup {u} /\ tracked' \subseteq tracked \cup {u}
      /\ Answer(i, v) /\ v \in Verdicts
      /\ Registered => unheard' = unheard \cup {u} /\ owed' = owed \cup ({u} \cap Custody')
      /\ ~Registered => UNCHANGED hist
      /\ UNCHANGED <<clockVars, user, outdated, filed, lost>>
  BY DEF Keep, At, custodyVars, Verdicts
<1>2. /\ req[i] \in Request /\ RequestOK(req[i], watched, tracked) /\ TypeOK /\ u \in Appts
      /\ writer = i /\ writer # None
  BY <1>1, BusyIsRequest, ConstantTypes DEF RequestInv, RequestOK, WriterAlone
<1>3. /\ req' \in [Ids -> Request \cup {NoRequest}]
      /\ \A j \in Ids : j # i => req'[j] = req[j]
      /\ \/ req'[i] = NoRequest
         \/ /\ req'[i].step = "answered" /\ req'[i].verdict = v
            /\ req'[i].kind = req[i].kind /\ req'[i].u = req[i].u
            /\ req'[i].absent = req[i].absent
            /\ req'[i].list = req[i].list /\ req'[i].of = req[i].of
  BY <1>1, <1>2, AnswerOne
<1>4. req'[i].step \in {"idle", "answered"}
  BY <1>3, IdleStep
<1>5. unheard \subseteq unheard' /\ unheard' \subseteq Appts /\ owed' \subseteq Appts
  BY <1>1, <1>2 DEF TypeOK, hist
<1>6. TypeOK'
  BY <1>1, <1>2, <1>3, <1>5 DEF TypeOK, clockVars
<1>7. ASSUME NEW j \in Ids PROVE RequestOK(req'[j], watched', tracked')
  <2>1. CASE j = i
    <3>1. RequestOK(req[i], watched', tracked')
      BY <1>1, <1>2 DEF RequestOK, Querying
    <3>2. v \notin {"notfound", "listed"}
      OBVIOUS
    <3> HIDE DEF v
    <3> QED BY <1>1, <1>3, <2>1, <3>1, <3>2, AnswerOK
  <2>2. CASE j # i
    <3>1. j \notin Readers
      BY <1>2 DEF RequestInv, WriterAlone
    <3>2. req'[j] = req[j] /\ RequestOK(req[j], watched, tracked)
      BY <1>3, <2>2 DEF RequestInv
    <3>3. RequestOK(req[j], watched', tracked')
      BY <1>1, <3>1, <3>2 DEF RequestOK, Querying, Readers
    <3> QED BY <3>2, <3>3
  <2> QED BY <2>1, <2>2
<1>8. WriterAlone'
  BY <1>1, <1>3, <1>4, WriterLeaves DEF RequestInv
<1>9. Within'
  BY <1>1 DEF RequestInv, Within, Registered
<1>10. Paid'
  <2>1. CASE user = None
    BY <1>1, <2>1 DEF Paid, Registered
  <2>2. CASE user # None
    <3>1. u \in unheard'
      BY <1>1, <2>2 DEF Registered
    <3>2. \A j \in Ids : At(j, "keep") =>
              req[j].u \in unheard' \/ (req'[j].step = "keep" /\ req'[j].u = req[j].u)
      BY <1>3, <3>1 DEF At
    <3> QED BY <1>1, <1>5, <2>2, <3>2, PaidKept, FiledAlone DEF RequestInv
  <2> QED BY <2>1, <2>2
<1>11. EntriesOK'
  <2>1. EntryOK(req'[i], user)
    BY <1>4 DEF EntryOK
  <2> QED BY <1>1, <1>3, <2>1 DEF RequestInv, EntriesOK
<1> QED BY <1>6, <1>7, <1>8, <1>9, <1>10, <1>11 DEF RequestInv

-----------------------------------------------------------------------------
(* The user's entry and the blocks.                                        *)

LEMMA registerStep ==
    ASSUME RequestInv, register
    PROVE  RequestInv'
<1>1. UNCHANGED <<clockVars, outdated, custodyVars, writer, req, filed, lost, hist>>
  BY DEF register
<1>2. PICK free \in 0..SubscriptionSlots :
         \/ /\ ~Registered
            /\ user' = [slots |-> free, expiry |-> height + SubscriptionDuration, appointments |-> {}]
         \/ /\ Registered
            /\ user.slots + Cardinality(user.appointments) + free <= MaxSlots
            /\ user' = [user EXCEPT !.slots = user.slots + free,
                                    !.expiry = height + SubscriptionDuration]
  BY DEF register
<1>3. height + SubscriptionDuration \in Nat
  BY ConstantTypes DEF RequestInv, TypeOK
<1> DEFINE till == height + SubscriptionDuration
<1> HIDE DEF till
<1>4. /\ user' \in User
      /\ user'.slots + Cardinality(user'.appointments) <= MaxSlots
      /\ user'.appointments = {} \/ (user # None /\ user'.appointments = user.appointments)
  <2>1. CASE ~Registered /\ user' = [slots |-> free, expiry |-> till, appointments |-> {}]
    <3>1. free \in 0..MaxSlots /\ Cardinality({}) = 0
      BY ConstantTypes, FS_EmptySet
    <3> QED BY <1>3, <2>1, <3>1, ConstantTypes DEF User, till
  <2>2. CASE /\ Registered
             /\ user.slots + Cardinality(user.appointments) + free <= MaxSlots
             /\ user' = [user EXCEPT !.slots = user.slots + free, !.expiry = till]
    <3> DEFINE left == user.slots + free
               new == [user EXCEPT !.slots = left, !.expiry = till]
    <3>1. user \in User /\ user.slots \in Nat /\ user.appointments \subseteq Appts
      BY <2>2, ConstantTypes DEF RequestInv, TypeOK, Registered, User
    <3>2. Cardinality(user.appointments) \in Nat
      BY <3>1, ConstantTypes, FS_Subset, FS_CardinalityType
    <3>3. left \in 0..MaxSlots
      BY <2>2, <3>1, <3>2, ConstantTypes
    <3>4. till \in Nat
      BY <1>3 DEF till
    <3>5. new \in User /\ new.slots = left /\ new.appointments = user.appointments
      <4> HIDE DEF left
      <4> QED BY <3>1, <3>3, <3>4 DEF User
    <3>6. user' = new
      BY <2>2
    <3> HIDE DEF new
    <3>7. new.slots + Cardinality(new.appointments) <= MaxSlots
      BY <2>2, <3>1, <3>2, <3>5, ConstantTypes
    <3> QED BY <2>2, <3>5, <3>6, <3>7 DEF Registered
  <2> QED BY <1>2, <2>1, <2>2 DEF till
<1>5. TypeOK'
  BY <1>1, <1>4 DEF RequestInv, TypeOK, clockVars, custodyVars, hist
<1>6. Within'
  BY <1>4 DEF Within
<1>7. Paid'
  <2>1. CASE user'.appointments = {}
    BY <2>1 DEF Paid
  <2>2. CASE user # None /\ user'.appointments = user.appointments
    <3>1. \A j \in Ids : At(j, "keep") => req'[j].step = "keep" /\ req'[j].u = req[j].u
      BY <1>1 DEF At
    <3> QED BY <1>1, <2>2, <3>1, PaidKept, FiledAlone DEF RequestInv, hist
  <2> QED BY <1>4, <2>1, <2>2
<1>8. WriterAlone'
  BY <1>1 DEF RequestInv, WriterAlone, Readers
<1>9. \A j \in Ids : RequestOK(req'[j], watched', tracked')
  BY <1>1 DEF RequestInv, custodyVars
<1>10. EntriesOK'
  BY <1>1, <1>4 DEF RequestInv, EntriesOK, EntryOK
<1> QED BY <1>5, <1>6, <1>7, <1>8, <1>9, <1>10 DEF RequestInv

LEMMA NewBlockStep ==
    ASSUME RequestInv, NewBlock
    PROVE  RequestInv'
<1>1. /\ height < MaxHeight /\ gkAt = height /\ wAt = height /\ height' = height + 1
      /\ UNCHANGED <<gkAt, wAt, user, outdated, custodyVars, writer, req, filed, lost, hist>>
  BY DEF NewBlock
<1>2. height' \in 0..MaxHeight /\ gkAt' \in 0..height' /\ wAt' \in 0..height'
  BY <1>1, ConstantTypes DEF RequestInv, TypeOK
<1>3. TypeOK'
  BY <1>1, <1>2 DEF RequestInv, TypeOK, custodyVars, hist
<1>4. Within' /\ Paid' /\ WriterAlone' /\ EntriesOK'
  BY <1>1 DEF RequestInv, Within, Paid, WriterAlone, EntriesOK, Registered, Accepted, Keeping,
              At, Readers, hist
<1>5. \A j \in Ids : RequestOK(req'[j], watched', tracked')
  BY <1>1 DEF RequestInv, custodyVars
<1> QED BY <1>3, <1>4, <1>5 DEF RequestInv

(* Steps of the threads leave every request where it is.                   *)
LEMMA StepsAlone ==
    ASSUME RequestInv, UNCHANGED <<writer, filed, unheard>>,
           \A j \in Ids : /\ req'[j].step = req[j].step
                          /\ req[j].step = "keep" => req'[j].u = req[j].u,
           user' = user \/ user' = None \/
               (user # None /\ user'.appointments \subseteq user.appointments)
    PROVE  WriterAlone' /\ Paid'
<1>1. WriterAlone'
  BY DEF RequestInv, WriterAlone, Readers
<1>2. \A j \in Ids : At(j, "keep") => req'[j].step = "keep" /\ req'[j].u = req[j].u
  BY DEF At
<1>3. CASE user' = None
  BY <1>1, <1>3 DEF Paid, Registered
<1>4. CASE user' # None
  <2>1. user # None /\ user'.appointments \subseteq user.appointments
    BY <1>4
  <2> QED BY <1>1, <1>2, <2>1, PaidKept, FiledAlone DEF RequestInv
<1> QED BY <1>1, <1>3, <1>4

LEMMA GatekeeperBlockStep ==
    ASSUME RequestInv, GatekeeperBlock
    PROVE  RequestInv'
<1> DEFINE h == gkAt + 1
           ends == Registered /\ h = user.expiry + ExpiryDelta
           new(r) == CASE ends /\ r.step = "info" /\ r.entry = "live" ->
                              [r EXCEPT !.entry = "old", !.of = user.appointments]
                       [] ends /\ r.step = "iterate" /\ r.entry = "live" -> [r EXCEPT !.entry = "old"]
                       [] OTHER -> r
<1>1. /\ gkAt < height /\ gkAt' = h
      /\ outdated' = [outdated EXCEPT ![h] = FoundOutdated(h)]
      /\ user' = IF ends THEN None ELSE user
      /\ owed' = IF ends THEN owed \ user.appointments ELSE owed
      /\ req' = [i \in Ids |-> new(req[i])]
      /\ UNCHANGED <<height, wAt, custodyVars, writer, filed, lost, unheard>>
  BY DEF GatekeeperBlock, At
<1>2. TypeOK /\ user \in User \cup {None}
  BY DEF RequestInv, TypeOK
<1>3. FoundOutdated(h) \subseteq Appts
  BY <1>2 DEF FoundOutdated, User
<1>4. ends => user.appointments \subseteq Appts
  BY <1>2 DEF Registered, User
<1> HIDE DEF ends
<1>5. ASSUME NEW r, r \in Request \cup {NoRequest}
      PROVE  /\ new(r) \in Request \cup {NoRequest} /\ new(r).step = r.step
             /\ new(r).step # "idle" =>
                   /\ new(r).kind = r.kind /\ new(r).u = r.u /\ new(r).verdict = r.verdict
                   /\ new(r).absent = r.absent /\ new(r).todo = r.todo /\ new(r).list = r.list
             /\ new(r).of = r.of \/ r.step = "info"
             /\ new(r).step = "read" => new(r).entry = r.entry
             /\ new(r).step = "info" => new(r).entry = "old" \/ (new(r).entry = r.entry /\ (r.entry = "live" => ~ends))
  <2>1. CASE ends /\ r.step \in {"info", "iterate"} /\ r.entry = "live"
    <3>1. r \in Request
      BY <1>5, <2>1, IdleStep
    <3>2. "old" \in Entries
      BY DEF Entries
    <3> QED BY <1>4, <2>1, <3>1, <3>2 DEF Request
  <2>2. CASE ~(ends /\ r.step \in {"info", "iterate"} /\ r.entry = "live")
    <3>1. new(r) = r
      BY <2>2
    <3> HIDE DEF new
    <3> QED BY <1>5, <2>2, <3>1
  <2> QED BY <2>1, <2>2
<1> HIDE DEF new
<1>6. \A j \in Ids : req'[j] = new(req[j]) /\ req[j] \in Request \cup {NoRequest}
  BY <1>1, <1>2 DEF TypeOK
<1>7. TypeOK'
  <2>1. gkAt' \in 0..height' /\ height' \in 0..MaxHeight /\ wAt' \in 0..height' /\ h \in 1..MaxHeight
    BY <1>1, <1>2, ConstantTypes DEF TypeOK
  <2>2. outdated' \in [1..MaxHeight -> SUBSET Appts]
    BY <1>1, <1>2, <1>3, <2>1 DEF TypeOK
  <2>3. req' \in [Ids -> Request \cup {NoRequest}]
    BY <1>1, <1>5, <1>6
  <2> QED BY <1>1, <1>2, <2>1, <2>2, <2>3 DEF TypeOK, custodyVars
<1>8. Within'
  BY <1>1 DEF RequestInv, Within, Registered
<1>9. WriterAlone' /\ Paid'
  <2>1. \A j \in Ids : /\ req'[j].step = req[j].step
                       /\ req[j].step = "keep" => req'[j].u = req[j].u
    BY <1>5, <1>6
  <2> QED BY <1>1, <2>1, StepsAlone
<1>10. ASSUME NEW j \in Ids PROVE RequestOK(req'[j], watched', tracked')
  <2>1. /\ RequestOK(req[j], watched, tracked) /\ req'[j] = new(req[j])
        /\ req[j] \in Request \cup {NoRequest}
    BY <1>6 DEF RequestInv
  <2>2. RequestOK(req'[j], watched, tracked)
    BY <1>5, <2>1 DEF RequestOK, Querying
  <2> QED BY <1>1, <2>2 DEF custodyVars
<1>11. EntriesOK'
  <2> SUFFICES ASSUME NEW j \in Ids PROVE EntryOK(req'[j], user')
    BY DEF EntriesOK
  <2>1. /\ EntryOK(req[j], user) /\ req'[j] = new(req[j])
        /\ req[j] \in Request \cup {NoRequest}
    BY <1>6 DEF RequestInv, EntriesOK
  <2> QED BY <1>1, <1>5, <2>1 DEF EntryOK
<1> QED BY <1>7, <1>8, <1>9, <1>10, <1>11 DEF RequestInv

(* What the user gets back.                                                *)
LEMMA FreedEntry ==
    ASSUME RequestInv, NEW S \in SUBSET Appts
    PROVE  /\ Freed(S) \in User \cup {None}
           /\ user \in User => Freed(S) \in User
           /\ user = None => Freed(S) = None
           /\ user # None => /\ Freed(S).appointments \subseteq user.appointments
                             /\ Freed(S).slots + Cardinality(Freed(S).appointments) <= MaxSlots
<1>1. CASE user = None
  BY <1>1 DEF Freed
<1>2. CASE user # None
  <2> DEFINE A == user.appointments
             back == S \cap user.appointments
             slots == user.slots + Cardinality(back)
             rest == user.appointments \ S
             new == [user EXCEPT !.slots = slots, !.appointments = rest]
  <2>1. user \in User /\ user.slots \in Nat /\ A \subseteq Appts
    BY <1>2, ConstantTypes DEF RequestInv, TypeOK, User
  <2>2. user.slots + Cardinality(A) <= MaxSlots
    BY <1>2 DEF RequestInv, Within, Registered
  <2>3. IsFiniteSet(A) /\ IsFiniteSet(back) /\ IsFiniteSet(rest)
    BY <2>1, ConstantTypes, FS_Subset
  <2>4. Cardinality(rest) = Cardinality(A) - Cardinality(back)
    <3>1. Cardinality(A \ S) = Cardinality(A) - Cardinality(A \cap S)
      BY <2>3, FS_Difference
    <3>2. A \cap S = back
      OBVIOUS
    <3> QED BY <3>1, <3>2
  <2>5. Cardinality(A) \in Nat /\ Cardinality(back) \in Nat /\ Cardinality(rest) \in Nat
    BY <2>3, FS_CardinalityType
  <2>6. slots \in 0..MaxSlots /\ slots + Cardinality(rest) <= MaxSlots /\ rest \subseteq Appts
    BY <2>1, <2>2, <2>4, <2>5, ConstantTypes
  <2>7. Freed(S) = new
    BY <1>2 DEF Freed
  <2>8. new \in User /\ new.slots = slots /\ new.appointments = rest
    <3> HIDE DEF slots, rest
    <3> QED BY <2>1, <2>6 DEF User
  <2> HIDE DEF new
  <2> QED BY <1>2, <2>6, <2>7, <2>8
<1> QED BY <1>1, <1>2

(* A query takes note of what is in custody no more.                       *)
LapseOne(r, S) ==
    IF r.step \in {"idle", "answered"} THEN r
    ELSE [r EXCEPT !.absent = r.absent \cup (S \cap Asked(r.kind, r.u))]

LEMMA LapseIs == \A S : Lapse(S) = [i \in Ids |-> LapseOne(req[i], S)]
BY DEF Lapse, LapseOne

LEMMA LapseKeeps ==
    ASSUME NEW r \in Request \cup {NoRequest}, NEW S \in SUBSET Appts
    PROVE  LET l == LapseOne(r, S)
           IN  /\ l \in Request \cup {NoRequest} /\ l.step = r.step
               /\ l.step \in {"idle", "answered"} => l = r
               /\ l.step # "idle" =>
                     /\ l \in Request /\ r \in Request
                     /\ l.kind = r.kind /\ l.u = r.u /\ l.todo = r.todo /\ l.list = r.list
                     /\ l.of = r.of /\ l.entry = r.entry /\ r.absent \subseteq l.absent
                     /\ l.step # "answered" => l.absent = r.absent \cup (S \cap Asked(r.kind, r.u))
<1>1. CASE r.step \in {"idle", "answered"}
  BY <1>1, IdleStep DEF LapseOne
<1>2. CASE r.step \notin {"idle", "answered"}
  <2> DEFINE gone == r.absent \cup (S \cap Asked(r.kind, r.u))
  <2>1. r \in Request
    BY <1>2, IdleStep
  <2>2. gone \subseteq Appts
    BY <2>1 DEF Request
  <2>3. LapseOne(r, S) = [r EXCEPT !.absent = gone]
    BY <1>2 DEF LapseOne
  <2>4. r.absent \subseteq gone
    OBVIOUS
  <2> HIDE DEF gone
  <2>5. [r EXCEPT !.absent = gone] \in Request
    BY <2>1, <2>2 DEF Request
  <2> QED BY <1>2, <2>1, <2>3, <2>4, <2>5 DEF Request, gone
<1> QED BY <1>1, <1>2

LEMMA LapseOK ==
    ASSUME NEW r \in Request \cup {NoRequest}, NEW S \in SUBSET Appts,
           NEW w, NEW t, NEW w2, NEW t2, RequestOK(r, w, t), w2 \subseteq w,
           (w \cup t) \ (w2 \cup t2) \subseteq S
    PROVE  RequestOK(LapseOne(r, S), w2, t2)
<1> DEFINE l == LapseOne(r, S)
<1>1. /\ l.step = r.step
      /\ l.step \in {"idle", "answered"} => l = r
      /\ l.step # "idle" =>
            /\ l.kind = r.kind /\ l.u = r.u /\ l.todo = r.todo /\ l.list = r.list
            /\ l.of = r.of /\ r.absent \subseteq l.absent
            /\ l.step # "answered" => l.absent = r.absent \cup (S \cap Asked(r.kind, r.u))
  BY LapseKeeps
<1> HIDE DEF l
<1>2. RequestOK(l, w2, t2)
  BY <1>1 DEF RequestOK, Querying
<1> QED BY <1>2 DEF l

(* What leaves custody frees its slots, and every query takes note of it.  *)
LEMMA CustodyStep ==
    ASSUME RequestInv, NEW S \in SUBSET Appts, NEW F \in SUBSET Appts,
           user' = Freed(F), UNCHANGED <<outdated, writer, filed, lost, unheard>>,
           height' = height, gkAt' = gkAt, wAt' \in 0..height,
           watched' \subseteq watched, tracked' \subseteq Appts, owed' \subseteq owed,
           Custody \ Custody' \subseteq S,
           \A j \in Ids : \/ req'[j] = LapseOne(req[j], S)
                          \/ /\ req[j].step = "iterate"
                             /\ req'[j] = [LapseOne(req[j], S) EXCEPT !.entry = "changed"],
           req' \in [Ids -> Request \cup {NoRequest}]
    PROVE  RequestInv'
<1>1. TypeOK'
  BY FreedEntry DEF RequestInv, TypeOK
<1>2. Within'
  BY FreedEntry DEF Within, Registered
<1>3. ASSUME NEW j \in Ids
      PROVE  /\ RequestOK(req'[j], watched', tracked') /\ req'[j].step = req[j].step
             /\ EntryOK(req'[j], user')
             /\ req[j].step = "keep" => req'[j].u = req[j].u
  <2> DEFINE l == LapseOne(req[j], S)
  <2>1. /\ req[j] \in Request \cup {NoRequest} /\ RequestOK(req[j], watched, tracked)
        /\ EntryOK(req[j], user)
    BY DEF RequestInv, TypeOK, EntriesOK
  <2>2. RequestOK(l, watched', tracked')
    BY <2>1, LapseOK DEF Custody
  <2>3. /\ l.step = req[j].step
        /\ l.step # "idle" => l.u = req[j].u /\ l.entry = req[j].entry /\ l \in Request
    BY <2>1, LapseKeeps
  <2> HIDE DEF l
  <2>4. req'[j] = l \/ (req[j].step = "iterate" /\ req'[j] = [l EXCEPT !.entry = "changed"])
    BY DEF l
  <2>5. user \in User => user' \in User
    BY FreedEntry
  <2>6. EntryOK(l, user')
    <3>1. l.step \in {"read", "info"} => req[j].step = l.step /\ l.entry = req[j].entry
      BY <2>3
    <3> QED BY <2>1, <2>3, <2>5, <3>1 DEF EntryOK
  <2>7. CASE req'[j] = l
    BY <2>2, <2>3, <2>6, <2>7
  <2>8. CASE req[j].step = "iterate" /\ req'[j] = [l EXCEPT !.entry = "changed"]
    <3> DEFINE c == [l EXCEPT !.entry = "changed"]
    <3>1. l \in Request
      BY <2>3, <2>8
    <3>2. /\ c.step = l.step /\ c.kind = l.kind /\ c.u = l.u /\ c.absent = l.absent
          /\ c.todo = l.todo /\ c.list = l.list /\ c.of = l.of /\ c.verdict = l.verdict
      BY <3>1 DEF Request
    <3>3. l.step = "iterate"
      BY <2>3, <2>8
    <3> HIDE DEF c
    <3>4. RequestOK(c, watched', tracked')
      BY <2>2, <3>2, <3>3 DEF RequestOK, Querying
    <3>5. EntryOK(c, user')
      BY <3>2, <3>3 DEF EntryOK
    <3>6. req'[j] = c
      BY <2>8 DEF c
    <3> QED BY <2>8, <3>2, <3>3, <3>4, <3>5, <3>6
  <2> QED BY <2>4, <2>7, <2>8
<1>4. WriterAlone' /\ Paid'
  <2>1. user' = None \/ (user # None /\ user'.appointments \subseteq user.appointments)
    BY FreedEntry
  <2> QED BY <1>3, <2>1, StepsAlone
<1>5. EntriesOK'
  BY <1>3 DEF EntriesOK
<1> QED BY <1>1, <1>2, <1>3, <1>4, <1>5 DEF RequestInv

LEMMA LapseType ==
    ASSUME RequestInv, NEW S \in SUBSET Appts
    PROVE  /\ Lapse(S) \in [Ids -> Request \cup {NoRequest}]
           /\ \A j \in Ids : Lapse(S)[j] = LapseOne(req[j], S)
<1>1. \A j \in Ids : LapseOne(req[j], S) \in Request \cup {NoRequest}
  BY LapseKeeps DEF RequestInv, TypeOK
<1> QED BY <1>1, LapseIs

LEMMA WatchBlockStep ==
    ASSUME RequestInv, WatchBlock
    PROVE  RequestInv'
<1> DEFINE h == wAt + 1
           out == GetOutdated(h) \cap watched
<1>0. PICK delivered \in SUBSET (watched \ out) :
         \E dropped \in SUBSET (watched \ (out \cup delivered)) :
            /\ watched' = watched \ (out \cup delivered \cup dropped)
            /\ tracked' = tracked \cup delivered
            /\ user' = Freed(dropped)
            /\ req' = Lapse((out \cup dropped) \ tracked)
            /\ owed' \subseteq owed
  BY DEF WatchBlock
<1>1. PICK dropped \in SUBSET (watched \ (out \cup delivered)) :
         /\ watched' = watched \ (out \cup delivered \cup dropped)
         /\ tracked' = tracked \cup delivered
         /\ user' = Freed(dropped)
         /\ req' = Lapse((out \cup dropped) \ tracked)
         /\ owed' \subseteq owed
  BY <1>0
<1>2. /\ wAt < height /\ wAt' = h
      /\ UNCHANGED <<height, gkAt, outdated, writer, filed, lost, unheard>>
  BY DEF WatchBlock
<1>3. watched \subseteq Appts /\ tracked \subseteq Appts /\ wAt' \in 0..height
  BY <1>2, ConstantTypes DEF RequestInv, TypeOK
<1> DEFINE S == (out \cup dropped) \ tracked
<1>4. S \subseteq Appts /\ dropped \subseteq Appts /\ tracked' \subseteq Appts
  BY <1>1, <1>3
<1>5. Custody \ Custody' \subseteq S
  BY <1>1 DEF Custody
<1> HIDE DEF S, h, out
<1>6. /\ req' \in [Ids -> Request \cup {NoRequest}]
      /\ \A j \in Ids : req'[j] = LapseOne(req[j], S)
  BY <1>1, <1>4, LapseType DEF S
<1> QED BY <1>1, <1>2, <1>3, <1>4, <1>5, <1>6, CustodyStep

LEMMA EndTrackerStep ==
    ASSUME RequestInv, NEW u \in Appts, EndTracker(u)
    PROVE  RequestInv'
<1> DEFINE S == {u} \ watched
           freed == user # None /\ u \in user.appointments
           new(j) == IF req[j].step = "iterate" /\ freed /\ req[j].entry = "live"
                     THEN [Lapse(S)[j] EXCEPT !.entry = "changed"] ELSE Lapse(S)[j]
<1>1. /\ tracked' = tracked \ {u} /\ user' = Freed({u}) /\ owed' = owed \ {u}
      /\ req' = [j \in Ids |-> new(j)]
      /\ UNCHANGED <<clockVars, outdated, watched, writer, filed, lost, unheard>>
  BY DEF EndTracker, At
<1>2. S \subseteq Appts /\ {u} \subseteq Appts /\ tracked' \subseteq Appts /\ wAt' \in 0..height
  BY <1>1 DEF RequestInv, TypeOK, clockVars
<1>3. Custody \ Custody' \subseteq S
  BY <1>1 DEF Custody
<1> HIDE DEF S, freed
<1>4. ASSUME NEW j \in Ids
      PROVE  /\ \/ new(j) = LapseOne(req[j], S)
                \/ /\ req[j].step = "iterate"
                   /\ new(j) = [LapseOne(req[j], S) EXCEPT !.entry = "changed"]
             /\ new(j) \in Request \cup {NoRequest}
  <2> DEFINE l == LapseOne(req[j], S)
  <2>1. Lapse(S)[j] = l /\ req[j] \in Request \cup {NoRequest}
    BY <1>2, LapseType DEF RequestInv, TypeOK
  <2>2. l \in Request \cup {NoRequest} /\ (l.step # "idle" => l \in Request) /\ l.step = req[j].step
    BY <1>2, <2>1, LapseKeeps
  <2> HIDE DEF l
  <2>3. CASE new(j) = l
    BY <2>2, <2>3 DEF l
  <2>4. CASE req[j].step = "iterate" /\ new(j) = [l EXCEPT !.entry = "changed"]
    <3>1. [l EXCEPT !.entry = "changed"] \in Request
      BY <2>2, <2>4 DEF Request, Entries
    <3> QED BY <2>4, <3>1 DEF l
  <2> QED BY <2>1, <2>3, <2>4
<1> HIDE DEF new
<1>5. req' \in [Ids -> Request \cup {NoRequest}] /\ \A j \in Ids : req'[j] = new(j)
  BY <1>1, <1>4
<1> QED BY <1>1, <1>2, <1>3, <1>4, <1>5, CustodyStep DEF clockVars

-----------------------------------------------------------------------------
(* The theorems.                                                           *)

LEMMA InitRequests == Init => RequestInv
<1> SUFFICES ASSUME Init PROVE RequestInv
  OBVIOUS
<1>1. \A i \in Ids : req[i] = NoRequest
  BY DEF Init
<1>2. TypeOK
  BY ConstantTypes DEF Init, TypeOK
<1>3. Within /\ Paid
  BY DEF Init, Within, Paid, Registered
<1>4. WriterAlone /\ EntriesOK
  BY <1>1, IdleStep DEF Init, WriterAlone, Readers, EntriesOK, EntryOK
<1> QED BY <1>1, <1>2, <1>3, <1>4, NoRequestOK DEF RequestInv

LEMMA StepRequests == RequestInv /\ [Next]_vars => RequestInv'
<1> SUFFICES ASSUME RequestInv, [Next]_vars PROVE RequestInv'
  OBVIOUS
<1>1. CASE \E i \in Ids, u \in Appts : SendAdd(i, u) \/ Authenticate(i, "get", u)
  BY <1>1, SendAddStep, AuthenticateStep
<1>2. CASE \E i \in Ids : Authenticate(i, "info", None)
  BY <1>2, AuthenticateStep
<1>3. CASE \E i \in Ids : TimeOut(i) \/ Receive(i) \/ Enter(i) \/ Charge(i) \/ Keep(i)
  BY <1>3, TimeOutStep, ReceiveStep, EnterStep, ChargeStep, KeepStep
<1>4. CASE \E i \in Ids : \/ Read(i) \/ HasTracker(i) \/ LoadTracker(i)
                          \/ GetUserInfo(i) \/ StartList(i) \/ ListNext(i)
  BY <1>4, GetStep, InfoStep
<1>5. CASE register \/ NewBlock \/ GatekeeperBlock \/ WatchBlock
  BY <1>5, registerStep, NewBlockStep, GatekeeperBlockStep, WatchBlockStep
<1>6. CASE \E u \in Appts : EndTracker(u)
  BY <1>6, EndTrackerStep
<1>7. CASE UNCHANGED vars
  BY <1>7 DEF vars, clockVars, custodyVars, hist, RequestInv, TypeOK, Within, Paid, WriterAlone,
              EntriesOK, Registered, Accepted, Keeping, At, Readers
<1> QED BY <1>1, <1>2, <1>3, <1>4, <1>5, <1>6, <1>7 DEF Next, Serve

(* The requests are one writer, or readers, and each query knows of all    *)
(* that has left custody since it began, whatever the blocks do to both.   *)
THEOREM RequestInvariance == Spec => []RequestInv
<1> QED BY InitRequests, StepRequests, PTL DEF Spec

(* What takes slots of the user is accepted, or about to be, however many  *)
(* answers are lost and appointments sent again.                           *)
THEOREM PaidAreTakenHolds == Spec => []PaidAreTaken
<1>1. RequestInv => PaidAreTaken
  BY DEF RequestInv, Paid, PaidAreTaken, Accepted, Keeping
<1> QED BY <1>1, RequestInvariance, PTL

(* "Not found" and a list are true of the custody at some time of the      *)
(* request, for any number of appointments handed over meanwhile.          *)
THEOREM QueriesAreTrueHolds == Spec => []QueriesAreTrue
<1>1. RequestInv => QueriesAreTrue
  BY DEF RequestInv, RequestOK, QueriesAreTrue, At
<1> QED BY <1>1, RequestInvariance, PTL

-----------------------------------------------------------------------------
(* What the user files.                                                    *)

(* A user comes back only when the Watcher is where the Gatekeeper is, no  *)
(* breach is met with a receipt that is lost, and one appointment is not   *)
(* sent by two threads at a time.                                          *)
Sincere == Rare \cap {"lag", "unheard", "twice"} = {}

Adds(i) == Busy(i) /\ req[i].kind = "add"

(* The tower is still at it, or has answered v.                            *)
Asks(i, u) == Adds(i) /\ req[i].step # "answered" /\ req[i].u = u
Answers(i, u, v) == Adds(i) /\ req[i].step = "answered" /\ req[i].u = u /\ req[i].verdict = v

(* The user files u as invalid, or will.                                   *)
Refused(u) ==
    \/ filed[u] = "invalid"
    \/ filed[u] # "accepted" /\ \E i \in Ids : Answers(i, u, "invalid") \/ Answers(i, u, "triggered")

(* Nothing is outdated at a height the Watcher has yet to come to, unless  *)
(* the user is gone.                                                       *)
NotYet ==
    \A h \in 1..MaxHeight : (h > gkAt \/ (Registered /\ h > wAt)) => outdated[h] = {}

(* One answer is waited for at a time, for each appointment.               *)
OneHeard ==
    \A i, j \in Ids :
        Adds(i) /\ Adds(j) /\ req[i].heard /\ req[j].heard /\ req[i].u = req[j].u => i = j

AddOK(i) ==
    Adds(i) =>
        /\ req[i].step = "answered" => req[i].heard
        /\ req[i].step # "answered" => inspect(Delay[req[i].u]) = "fine"
        /\ req[i].step \in {"charge", "keep"} => req[i].u \notin tracked
        /\ req[i].step = "answered" /\ req[i].verdict = "invalid" => inspect(Delay[req[i].u]) = "invalid"

(* A receipt that is not heard of is one on its way, once the tower would  *)
(* refuse to give another; and who is refused has none and gets none.      *)
ReceiptOK(u) ==
    /\ u \in unheard => inspect(Delay[u]) = "fine"
    /\ u \in unheard \cap tracked /\ filed[u] # "accepted" => \E i \in Ids : Answers(i, u, "accepted")
    /\ Refused(u) => u \notin unheard /\ \A i \in Ids : Asks(i, u) => u \in tracked

FileInv ==
    /\ Sincere /\ NotYet /\ owed \subseteq Custody
    /\ OneHeard /\ \A i \in Ids : AddOK(i)
    /\ \A u \in Appts : ReceiptOK(u)

(* Who adds something.                                                     *)
LEMMA AddIs ==
    ASSUME RequestInv, NEW i \in Ids
    PROVE  /\ Adds(i) => /\ req[i] \in Request /\ req[i].u \in Appts /\ req[i].heard \in BOOLEAN
                         /\ req[i].step \in {"lock", "charge", "keep", "answered"}
           /\ req[i].step \in {"lock", "charge", "keep"} => Adds(i)
<1>1. RequestOK(req[i], watched, tracked)
  BY DEF RequestInv
<1>2. Adds(i) => req[i] \in Request /\ req[i].step # "idle" /\ req[i].kind = "add"
  BY BusyIsRequest DEF RequestInv, Adds, Busy, At
<1>3. req[i] \in Request => req[i].step \in Steps /\ req[i].heard \in BOOLEAN
  BY DEF Request
<1>4. req[i].step \in {"lock", "charge", "keep"} => Adds(i)
  BY <1>1 DEF RequestOK, Adds, Busy, At
<1> QED BY <1>1, <1>2, <1>3, <1>4 DEF RequestOK, Steps

(* The answer to who adds something.                                       *)
LEMMA AddAnswer ==
    ASSUME RequestInv, NEW i \in Ids, Adds(i), NEW v \in Verdicts, Answer(i, v)
    PROVE  /\ \A j \in Ids : j # i => req'[j] = req[j]
           /\ \/ ~req[i].heard /\ req'[i] = NoRequest
              \/ /\ req[i].heard /\ req'[i].heard /\ req'[i].step = "answered" /\ req'[i].verdict = v
                 /\ req'[i].kind = "add" /\ req'[i].u = req[i].u
<1> DEFINE new == [req[i] EXCEPT !.step = "answered", !.verdict = v]
<1>1. req[i] \in Request /\ req[i].kind = "add" /\ req[i].heard \in BOOLEAN
  BY AddIs DEF Adds
<1>2. /\ new.step = "answered" /\ new.verdict = v /\ new.kind = "add"
      /\ new.u = req[i].u /\ new.heard = req[i].heard
  BY <1>1 DEF Request
<1>3. /\ req \in [Ids -> Request \cup {NoRequest}]
      /\ req' = [req EXCEPT ![i] = IF req[i].heard THEN new ELSE NoRequest]
  BY <1>1 DEF RequestInv, TypeOK, Answer
<1> HIDE DEF new
<1> QED BY <1>1, <1>2, <1>3

LEMMA NotAdd == \A i \in Ids : (req[i] = NoRequest => ~Adds(i)) /\ (req'[i] = NoRequest => ~Adds(i)')
BY IdleStep DEF Adds, Busy, At

LEMMA OneHeardKept ==
    ASSUME OneHeard,
           \A j \in Ids : Adds(j)' /\ req'[j].heard =>
               Adds(j) /\ req[j].heard /\ req'[j].u = req[j].u
    PROVE  OneHeard'
BY DEF OneHeard

(* What nobody does anything about.                                        *)
LEMMA ReceiptKept ==
    ASSUME NEW u, ReceiptOK(u), filed'[u] = filed[u],
           u \in unheard' => u \in unheard, u \in tracked' <=> u \in tracked,
           \A j \in Ids : Asks(j, u)' => Asks(j, u),
           \A j \in Ids : \A v \in Verdicts : Answers(j, u, v)' <=> Answers(j, u, v)
    PROVE  ReceiptOK(u)'
<1>1. {"accepted", "invalid", "triggered"} \subseteq Verdicts
  BY DEF Verdicts
<1>2. \A j \in Ids : /\ Answers(j, u, "accepted")' <=> Answers(j, u, "accepted")
                     /\ Answers(j, u, "invalid")' <=> Answers(j, u, "invalid")
                     /\ Answers(j, u, "triggered")' <=> Answers(j, u, "triggered")
  BY <1>1
<1>3. Refused(u)' <=> Refused(u)
  BY <1>2 DEF Refused
<1>4. ASSUME u \in unheard' \cap tracked' /\ filed'[u] # "accepted"
      PROVE  \E i \in Ids : Answers(i, u, "accepted")'
  <2>1. PICK i \in Ids : Answers(i, u, "accepted")
    BY <1>4 DEF ReceiptOK
  <2> QED BY <1>2, <2>1
<1>5. Refused(u)' => u \notin unheard' /\ \A i \in Ids : Asks(i, u)' => u \in tracked'
  BY <1>3 DEF ReceiptOK
<1>6. u \in unheard' => inspect(Delay[u]) = "fine"
  BY DEF ReceiptOK
<1> QED BY <1>4, <1>5, <1>6 DEF ReceiptOK, inspect

(* Steps that leave the additions alone.                                   *)
LEMMA FileKept ==
    ASSUME RequestInv, FileInv, filed' = filed, unheard' \subseteq unheard,
           \A j \in Ids : /\ Adds(j)' <=> Adds(j)
                          /\ Adds(j) => /\ req'[j].step = req[j].step /\ req'[j].u = req[j].u
                                        /\ req'[j].verdict = req[j].verdict /\ req'[j].heard = req[j].heard,
           \A v \in tracked' \ tracked :
               v \notin unheard /\ \A j \in Ids : Adds(j) /\ req[j].step \in {"charge", "keep"} => req[j].u # v,
           \A v \in tracked \ tracked' : \A j \in Ids : Adds(j) => req[j].u # v,
           NotYet', (owed \subseteq Custody)'
    PROVE  FileInv'
<1>1. OneHeard'
  BY OneHeardKept DEF FileInv
<1>2. ASSUME NEW i \in Ids PROVE AddOK(i)'
  <2>1. AddOK(i)
    BY DEF FileInv
  <2>2. inspect(Delay[req[i].u])' = inspect(Delay[req'[i].u])
    BY DEF inspect
  <2> QED BY <2>1, <2>2 DEF AddOK
<1>3. ASSUME NEW u \in Appts PROVE ReceiptOK(u)'
  <2>1. ReceiptOK(u)
    BY <1>3 DEF FileInv
  <2>2. \A j \in Ids : /\ Asks(j, u)' <=> Asks(j, u)
                       /\ \A v : Answers(j, u, v)' <=> Answers(j, u, v)
    BY DEF Asks, Answers
  <2>3. Refused(u)' <=> Refused(u)
    BY <2>2 DEF Refused
  <2>4. ASSUME u \in unheard' \cap tracked' /\ filed'[u] # "accepted"
        PROVE  \E i \in Ids : Answers(i, u, "accepted")'
    <3>1. u \in tracked
      BY <2>4
    <3>2. PICK i \in Ids : Answers(i, u, "accepted")
      BY <2>1, <2>4, <3>1 DEF ReceiptOK
    <3> QED BY <2>2, <3>2
  <2>5. ASSUME NEW i \in Ids, Asks(i, u)', Refused(u)' PROVE u \in tracked'
    <3>1. u \in tracked /\ Adds(i) /\ req[i].u = u
      BY <2>1, <2>2, <2>3, <2>5 DEF ReceiptOK, Asks
    <3> QED BY <3>1
  <2>6. u \in unheard' => inspect(Delay[u]) = "fine"
    BY <2>1 DEF ReceiptOK
  <2>7. Refused(u)' => u \notin unheard'
    BY <2>1, <2>3 DEF ReceiptOK
  <2> QED BY <2>4, <2>5, <2>6, <2>7 DEF ReceiptOK, inspect
<1> QED BY <1>1, <1>2, <1>3 DEF FileInv, Sincere

(* Steps of one who adds u: what is left to show is what they do to u.     *)
LEMMA AddMoves ==
    ASSUME RequestInv, FileInv, NEW i \in Ids, NEW u \in Appts, Adds(i) => req[i].u = u,
           \A j \in Ids : j # i => req'[j] = req[j], Adds(i)' => req'[i].u = u,
           \A v \in Appts : v # u => /\ filed'[v] = filed[v] /\ (v \in unheard' => v \in unheard)
                                     /\ v \in tracked' <=> v \in tracked,
           u \in tracked' => \/ u \in tracked
                             \/ \A j \in Ids : j # i => req[j].step \notin {"charge", "keep"},
           OneHeard', AddOK(i)', ReceiptOK(u)', NotYet', (owed \subseteq Custody)'
    PROVE  FileInv'
<1>1. \A j \in Ids : j # i => (Adds(j)' <=> Adds(j))
  BY DEF Adds, Busy, At
<1>3. ASSUME NEW j \in Ids, j # i PROVE AddOK(j)'
  <2>1. AddOK(j)
    BY DEF FileInv
  <2>2. inspect(Delay[req[j].u])' = inspect(Delay[req'[j].u])
    BY DEF inspect
  <2>3. Adds(j) => req[j].u \in Appts
    BY AddIs
  <2>5. Adds(j) /\ req[j].step \in {"charge", "keep"} => req[j].u \notin tracked'
    BY <1>3, <2>1, <2>3 DEF AddOK
  <2> QED BY <1>1, <1>3, <2>1, <2>2, <2>5 DEF AddOK
<1>4. ASSUME NEW v \in Appts, v # u PROVE ReceiptOK(v)'
  <2>1. ReceiptOK(v)
    BY DEF FileInv
  <2>2. \A j \in Ids : /\ Asks(j, v)' => Asks(j, v)
                       /\ \A w \in Verdicts : Answers(j, v, w)' <=> Answers(j, v, w)
    BY <1>1, <1>4 DEF Asks, Answers
  <2> QED BY <1>4, <2>1, <2>2, ReceiptKept
<1> QED BY <1>3, <1>4 DEF FileInv, Sincere

-----------------------------------------------------------------------------
(* One lemma per action.                                                   *)

LEMMA OwedKept ==
    ASSUME FileInv, owed' = owed, watched \subseteq watched', tracked \subseteq tracked'
    PROVE  (owed \subseteq Custody)'
BY DEF FileInv, Custody

LEMMA NotYetKept ==
    ASSUME FileInv, UNCHANGED <<clockVars, outdated>>, user = None => user' = None
    PROVE  NotYet'
BY DEF FileInv, NotYet, clockVars, Registered

(* The tower goes on with an addition.                                     *)
LEMMA FileGoesOn ==
    ASSUME RequestInv, FileInv, NEW i \in Ids, Adds(i), req[i].step \in {"lock", "charge"},
           UNCHANGED <<filed, unheard, tracked>>, req[i].u \notin tracked,
           \A j \in Ids : j # i => req'[j] = req[j],
           req'[i].step \in {"charge", "keep"}, req'[i].kind = req[i].kind,
           req'[i].u = req[i].u, req'[i].heard = req[i].heard,
           NotYet', (owed \subseteq Custody)'
    PROVE  FileInv'
<1> DEFINE u == req[i].u
<1>1. u \in Appts /\ AddOK(i) /\ ReceiptOK(u)
  BY AddIs DEF FileInv
<1>2. \A j \in Ids : Adds(j)' <=> Adds(j)
  BY DEF Adds, Busy, At
<1>3. AddOK(i)'
  <2>1. inspect(Delay[req[i].u])' = inspect(Delay[req'[i].u])
    BY DEF inspect
  <2> QED BY <1>1, <2>1 DEF AddOK
<1>4. \A j \in Ids : /\ Asks(j, u)' <=> Asks(j, u)
                     /\ \A v : Answers(j, u, v)' <=> Answers(j, u, v)
  BY <1>2 DEF Asks, Answers
<1>5. Refused(u)' <=> Refused(u)
  BY <1>4 DEF Refused
<1>6. ReceiptOK(u)'
  BY <1>1, <1>4, <1>5 DEF ReceiptOK, inspect
<1>8. OneHeard'
  BY <1>2, OneHeardKept DEF FileInv
<1> QED BY <1>1, <1>3, <1>6, <1>8, AddMoves

(* Who is refused because of a tracker is told so, or has a receipt on its *)
(* way already.                                                            *)
LEMMA FileAnswers ==
    ASSUME RequestInv, FileInv, NEW i \in Ids, NEW u \in Appts, Adds(i), req[i].u = u,
           req[i].step \in {"lock", "charge"}, UNCHANGED <<filed, unheard, tracked>>,
           NEW v \in Verdicts, Answer(i, v), v \notin {"invalid", "accepted"},
           v = "triggered" => u \in tracked,
           NotYet', (owed \subseteq Custody)'
    PROVE  FileInv'
<1>1. AddOK(i) /\ ReceiptOK(u) /\ OneHeard
  BY DEF FileInv
<1>2. /\ \A j \in Ids : j # i => req'[j] = req[j]
      /\ \/ ~req[i].heard /\ req'[i] = NoRequest
         \/ /\ req[i].heard /\ req'[i].heard /\ req'[i].step = "answered" /\ req'[i].verdict = v
            /\ req'[i].kind = "add" /\ req'[i].u = u
  BY AddAnswer
<1>3. Adds(i)' => /\ req[i].heard /\ req'[i].heard /\ req'[i].step = "answered"
                  /\ req'[i].verdict = v /\ req'[i].u = u
  BY <1>2, NotAdd
<1>4. \A j \in Ids : j # i => (Adds(j)' <=> Adds(j))
  BY <1>2 DEF Adds, Busy, At
<1>5. AddOK(i)'
  BY <1>1, <1>3 DEF AddOK
<1>6. \A j \in Ids : Asks(j, u)' => Asks(j, u)
  BY <1>2, <1>3, <1>4 DEF Asks
<1>7. ReceiptOK(u)'
  <2>1. CASE Adds(i)' /\ v = "triggered"
    <3>1. \A j \in Ids : \A w : ~Answers(j, u, w)
      <4> SUFFICES ASSUME NEW j \in Ids, NEW w, Answers(j, u, w) PROVE FALSE
        OBVIOUS
      <4>1. Adds(j) /\ req[j].heard /\ req[j].step = "answered" /\ req[j].u = u
        BY DEF Answers, AddOK, FileInv
      <4> QED BY <1>1, <1>3, <2>1, <4>1 DEF OneHeard
    <3>2. u \in tracked /\ (filed[u] # "accepted" => u \notin unheard)
      BY <1>1, <2>1, <3>1 DEF ReceiptOK
    <3>3. Refused(u)' => filed[u] # "accepted"
      BY DEF Refused
    <3>4. u \in unheard => inspect(Delay[u]) = "fine"
      BY <1>1 DEF ReceiptOK
    <3> QED BY <3>2, <3>3, <3>4 DEF ReceiptOK, inspect
  <2>2. CASE ~Adds(i)' \/ v # "triggered"
    <3>1. \A j \in Ids : Answers(j, u, "accepted") => Answers(j, u, "accepted")'
      BY <1>2, <1>4 DEF Answers
    <3>2. \A j \in Ids : \A w \in {"invalid", "triggered"} : Answers(j, u, w)' => Answers(j, u, w)
      BY <1>2, <1>3, <1>4, <2>2 DEF Answers
    <3>3. Refused(u)' => Refused(u)
      BY <3>2 DEF Refused
    <3>4. (\E j \in Ids : Answers(j, u, "accepted")) => \E j \in Ids : Answers(j, u, "accepted")'
      BY <3>1
    <3> QED BY <1>1, <1>6, <3>3, <3>4 DEF ReceiptOK, inspect
  <2> QED BY <2>1, <2>2
<1>9. OneHeard'
  BY <1>1, <1>2, <1>3, <1>4, OneHeardKept
<1> QED BY <1>2, <1>3, <1>5, <1>7, <1>9, AddMoves

LEMMA EnterFiles ==
    ASSUME RequestInv, FileInv, NEW i \in Ids, Enter(i)
    PROVE  FileInv'
<1>1. /\ req[i].step = "lock" /\ Adds(i) /\ req[i].u \in Appts /\ req[i] \in Request
      /\ UNCHANGED <<clockVars, user, outdated, custodyVars, filed, hist>>
  BY AddIs DEF Enter, At
<1>2. PICK u \in Appts : u = req[i].u
  BY <1>1
<1>3. NotYet' /\ (owed \subseteq Custody)'
  BY <1>1, NotYetKept, OwedKept DEF custodyVars, hist
<1>4. ASSUME NEW v \in Verdicts, Answer(i, v), v \notin {"invalid", "accepted"}, v = "triggered" => u \in tracked
      PROVE  FileInv'
  BY <1>1, <1>2, <1>3, <1>4, FileAnswers DEF custodyVars, hist
<1>5. CASE Refusal(u) # None /\ Answer(i, Refusal(u))
  <2>1. Refusal(u) \in {"subscription", "triggered"} /\ (Refusal(u) = "triggered" => u \in tracked)
    BY <1>5 DEF Refusal
  <2> QED BY <1>4, <1>5, <2>1 DEF Verdicts
<1>6. CASE Answer(i, "unavailable")
  BY <1>4, <1>6 DEF Verdicts
<1>7. CASE Refusal(u) = None /\ Goto(i, "charge")
  <2>1. /\ \A j \in Ids : j # i => req'[j] = req[j]
        /\ req'[i].step = "charge" /\ req'[i].kind = req[i].kind /\ req'[i].u = req[i].u
    BY <1>1, <1>7, GotoOne DEF RequestInv, Steps
  <2>2. req'[i].heard = req[i].heard
    BY <1>1, <1>7 DEF Goto, RequestInv, TypeOK, Request
  <2>3. u \notin tracked
    <3>1. "subscription" # None /\ "triggered" # None
      BY VerdictsAssumption DEF Verdicts
    <3> QED BY <1>7, <3>1 DEF Refusal
  <2> QED BY <1>1, <1>2, <1>3, <2>1, <2>2, <2>3, FileGoesOn DEF custodyVars, hist
<1> QED BY <1>1, <1>2, <1>5, <1>6, <1>7 DEF Enter

LEMMA ChargeFiles ==
    ASSUME RequestInv, FileInv, NEW i \in Ids, Charge(i)
    PROVE  FileInv'
<1>1. /\ req[i].step = "charge" /\ Adds(i) /\ req[i].u \in Appts /\ req[i] \in Request
      /\ UNCHANGED <<clockVars, outdated, custodyVars, filed, hist>>
  BY AddIs DEF Charge, At
<1>2. PICK u \in Appts : u = req[i].u
  BY <1>1
<1>3. NotYet' /\ (owed \subseteq Custody)'
  <2>1. user = None => user' = None
    BY DEF Charge, Registered
  <2> QED BY <1>1, <2>1, NotYetKept, OwedKept DEF custodyVars, hist
<1>4. \/ Answer(i, "unavailable") \/ Answer(i, "subscription") \/ Goto(i, "keep")
  BY DEF Charge
<1>5. CASE Answer(i, "unavailable") \/ Answer(i, "subscription")
  BY <1>1, <1>2, <1>3, <1>5, FileAnswers DEF custodyVars, hist, Verdicts
<1>6. CASE Goto(i, "keep")
  <2>1. /\ \A j \in Ids : j # i => req'[j] = req[j]
        /\ req'[i].step = "keep" /\ req'[i].kind = req[i].kind /\ req'[i].u = req[i].u
    BY <1>1, <1>6, GotoOne DEF RequestInv, Steps
  <2>2. req'[i].heard = req[i].heard
    BY <1>1, <1>6 DEF Goto, RequestInv, TypeOK, Request
  <2>3. u \notin tracked
    BY <1>1, <1>2 DEF FileInv, AddOK
  <2> QED BY <1>1, <1>2, <1>3, <2>1, <2>2, <2>3, FileGoesOn DEF custodyVars, hist
<1> QED BY <1>4, <1>5, <1>6

(* Nobody who is refused gets a receipt, and a receipt for what has a      *)
(* tracker is on its way.                                                  *)
LEMMA KeepFiles ==
    ASSUME RequestInv, FileInv, NEW i \in Ids, Keep(i)
    PROVE  FileInv'
<1>1. /\ req[i].step = "keep" /\ Adds(i) /\ req[i].u \in Appts /\ req[i] \in Request
      /\ UNCHANGED <<clockVars, user, outdated, filed, lost>>
  BY AddIs DEF Keep, At
<1>2. PICK u \in Appts : u = req[i].u
  BY <1>1
<1>3. /\ watched \subseteq watched' /\ tracked \subseteq tracked'
      /\ tracked' = tracked \/ (tracked' = tracked \cup {u} /\ req[i].heard /\ u \notin unheard)
  <2>1. "unheard" \notin Rare
    BY DEF FileInv, Sincere
  <2> QED BY <1>2, <2>1 DEF Keep, custodyVars
<1>4. PICK v \in {"accepted", "unavailable"} :
         /\ Answer(i, v)
         /\ \/ v = "accepted" /\ unheard' = unheard \cup {u} /\ owed' = owed \cup ({u} \cap Custody')
            \/ v = "unavailable" /\ unheard' = unheard /\ owed' = owed
  BY <1>2 DEF Keep, hist
<1>5. NotYet'
  BY <1>1, NotYetKept
<1>6. (owed \subseteq Custody)'
  <2>1. owed \subseteq Custody /\ Custody \subseteq Custody'
    BY <1>3 DEF FileInv, Custody
  <2> QED BY <1>4, <2>1
<1>7. AddOK(i) /\ ReceiptOK(u) /\ OneHeard
  BY DEF FileInv
<1>8. inspect(Delay[u]) = "fine" /\ u \notin tracked /\ ~Refused(u)
  <2>1. inspect(Delay[u]) = "fine" /\ u \notin tracked
    BY <1>1, <1>2, <1>7 DEF AddOK
  <2>2. Asks(i, u)
    BY <1>1, <1>2 DEF Asks
  <2> QED BY <1>7, <2>1, <2>2 DEF ReceiptOK
<1>9. /\ \A j \in Ids : j # i => req'[j] = req[j]
      /\ \/ ~req[i].heard /\ req'[i] = NoRequest
         \/ /\ req[i].heard /\ req'[i].heard /\ req'[i].step = "answered" /\ req'[i].verdict = v
            /\ req'[i].kind = "add" /\ req'[i].u = u
  BY <1>1, <1>2, <1>4, AddAnswer DEF Verdicts
<1>10. Adds(i)' => /\ req[i].heard /\ req'[i].heard /\ req'[i].step = "answered"
                   /\ req'[i].verdict = v /\ req'[i].u = u
  BY <1>9, NotAdd
<1>11. \A j \in Ids : j # i => (Adds(j)' <=> Adds(j))
  BY <1>9 DEF Adds, Busy, At
<1>12. AddOK(i)'
  BY <1>1, <1>4, <1>8, <1>10 DEF AddOK
<1>13. ReceiptOK(u)'
  <2>1. ~Refused(u)'
    <3>1. \A j \in Ids : \A w \in {"invalid", "triggered"} : Answers(j, u, w)' => Answers(j, u, w)
      BY <1>4, <1>9, <1>10, <1>11 DEF Answers
    <3> QED BY <1>1, <1>8, <3>1 DEF Refused
  <2>2. ASSUME u \in unheard' \cap tracked' PROVE \E j \in Ids : Answers(j, u, "accepted")'
    <3>1. req[i].heard /\ v = "accepted"
      BY <1>3, <1>4, <1>8, <2>2
    <3>2. Adds(i)'
      BY <1>9, <3>1 DEF Adds, Busy, At
    <3> QED BY <1>9, <3>1, <3>2 DEF Answers
  <2>3. inspect(Delay[u])' = "fine"
    BY <1>8 DEF inspect
  <2> QED BY <2>1, <2>2, <2>3 DEF ReceiptOK
<1>14. \A j \in Ids : j # i => req[j].step \notin {"charge", "keep"}
  BY <1>1 DEF RequestInv, WriterAlone
<1>15. OneHeard'
  BY <1>1, <1>2, <1>7, <1>9, <1>10, <1>11, OneHeardKept
<1>16. \A w \in Appts : w # u => /\ filed'[w] = filed[w] /\ (w \in unheard' => w \in unheard)
                                 /\ w \in tracked' <=> w \in tracked
  BY <1>1, <1>3, <1>4
<1> QED BY <1>1, <1>2, <1>5, <1>6, <1>8, <1>9, <1>10, <1>12, <1>13, <1>14, <1>15, <1>16, AddMoves

LEMMA SendAddFiles ==
    ASSUME RequestInv, FileInv, NEW i \in Ids, NEW u \in Appts, SendAdd(i, u)
    PROVE  FileInv'
<1> DEFINE d == inspect(Delay[u])
           new == IF d = "fine" THEN NewRequest("add", u, "lock", None)
                  ELSE NewRequest("add", u, "answered", d)
<1>1. /\ req[i].step = "idle" /\ req' = [req EXCEPT ![i] = new]
      /\ filed[u] # "invalid"
      /\ UNCHANGED <<clockVars, user, outdated, custodyVars, writer, filed, lost, hist>>
  BY DEF SendAdd, At
<1>2. \A j \in Ids : Adds(j) /\ req[j].u = u => ~req[j].heard
  BY DEF SendAdd, Adds, FileInv, Sincere
<1>3. d \in {"invalid", "error", "fine"}
  BY DEF inspect
<1>4. /\ new.kind = "add" /\ new.u = u /\ new.heard
      /\ \/ new.step = "lock" /\ d = "fine"
         \/ new.step = "answered" /\ d # "fine" /\ new.verdict = d
  <2> HIDE DEF d
  <2> QED BY DEF NewRequest
<1> HIDE DEF new
<1>5. req'[i] = new /\ \A j \in Ids : j # i => req'[j] = req[j]
  BY <1>1 DEF RequestInv, TypeOK
<1>6. Adds(i)' /\ ~Adds(i) /\ \A j \in Ids : j # i => (Adds(j)' <=> Adds(j))
  BY <1>1, <1>4, <1>5 DEF Adds, Busy, At
<1>7. filed'[u] # "invalid" /\ filed' = filed
  BY <1>1
<1>8. OneHeard'
  BY <1>2, <1>4, <1>5, <1>6 DEF OneHeard, FileInv
<1>9. AddOK(i)'
  BY <1>4, <1>5, <1>7 DEF AddOK, inspect
<1>10. \A j \in Ids : \A w : ~Answers(j, u, w)
  BY <1>2 DEF Answers, FileInv, AddOK
<1>11. ReceiptOK(u) /\ \A j \in Ids : AddOK(j)
  BY DEF FileInv
<1>12. ReceiptOK(u)'
  <2>1. unheard' = unheard /\ tracked' = tracked
    BY <1>1 DEF hist, custodyVars
  <2>2. u \in unheard \cap tracked => filed[u] = "accepted"
    BY <1>10, <1>11 DEF ReceiptOK
  <2>3. ASSUME Refused(u)' PROVE u \notin unheard /\ \A j \in Ids : ~Asks(j, u)'
    <3>1. PICK j \in Ids : Answers(j, u, "invalid")' \/ Answers(j, u, "triggered")'
      BY <1>7, <2>3 DEF Refused
    <3>2. j = i
      BY <1>5, <1>6, <1>10, <3>1 DEF Answers
    <3>3. d = "invalid" /\ new.step = "answered"
      BY <1>3, <1>4, <1>5, <3>1, <3>2 DEF Answers
    <3>4. u \notin unheard
      BY <1>11, <3>3 DEF ReceiptOK
    <3>5. ASSUME NEW k \in Ids, Asks(k, u)' PROVE FALSE
      <4>1. k # i /\ Adds(k) /\ req[k].step # "answered" /\ req[k].u = u
        BY <1>5, <1>6, <3>3, <3>5 DEF Asks
      <4> QED BY <1>11, <3>3, <4>1 DEF AddOK
    <3> QED BY <3>4, <3>5
  <2>4. u \in unheard' => inspect(Delay[u])' = "fine"
    BY <1>11, <2>1 DEF ReceiptOK, inspect
  <2> QED BY <1>7, <2>1, <2>2, <2>3, <2>4 DEF ReceiptOK
<1>13. NotYet' /\ (owed \subseteq Custody)'
  BY <1>1, NotYetKept, OwedKept DEF custodyVars, hist
<1>14. tracked' = tracked /\ unheard' = unheard
  BY <1>1 DEF custodyVars, hist
<1> QED BY <1>4, <1>5, <1>6, <1>7, <1>8, <1>9, <1>12, <1>13, <1>14, AddMoves

(* No receipt is lost on its way that the tower would not give again.      *)
LEMMA TimeOutFiles ==
    ASSUME RequestInv, FileInv, NEW i \in Ids, TimeOut(i)
    PROVE  FileInv'
<1>1. /\ Adds(i) /\ req[i].u \in Appts /\ req[i] \in Request
      /\ filed' = [filed EXCEPT ![req[i].u] = IF filed[req[i].u] = "none" THEN "pending" ELSE filed[req[i].u]]
      /\ UNCHANGED <<clockVars, user, outdated, custodyVars, writer, hist>>
  BY AddIs DEF TimeOut, Adds
<1>2. PICK u \in Appts : u = req[i].u
  BY <1>1
<1>3. ~(u \in tracked /\ filed[u] # "accepted")
  BY <1>2 DEF TimeOut, FileInv, Sincere
<1> DEFINE new == [req[i] EXCEPT !.heard = FALSE]
<1>4. /\ ~new.heard /\ new.step = req[i].step /\ new.kind = req[i].kind
      /\ new.u = u /\ new.verdict = req[i].verdict
  BY <1>1, <1>2 DEF Request
<1>5. req' = [req EXCEPT ![i] = IF req[i].step = "answered" THEN NoRequest ELSE new]
  BY DEF TimeOut, At
<1> HIDE DEF new
<1>6. /\ \A j \in Ids : j # i => req'[j] = req[j]
      /\ req'[i] = NoRequest \/ (req'[i] = new /\ req[i].step # "answered")
  BY <1>5 DEF RequestInv, TypeOK
<1>7. Adds(i)' => req'[i] = new /\ req[i].step # "answered"
  BY <1>6, NotAdd
<1>8. \A j \in Ids : j # i => (Adds(j)' <=> Adds(j))
  BY <1>6 DEF Adds, Busy, At
<1>9. AddOK(i) /\ ReceiptOK(u) /\ OneHeard
  BY DEF FileInv
<1>10. OneHeard'
  BY <1>4, <1>6, <1>7, <1>8, <1>9, OneHeardKept
<1>11. AddOK(i)'
  BY <1>1, <1>2, <1>4, <1>7, <1>9 DEF AddOK, inspect, custodyVars
<1>12. /\ unheard' = unheard /\ tracked' = tracked
       /\ filed'[u] = "invalid" <=> filed[u] = "invalid"
       /\ filed'[u] = "accepted" <=> filed[u] = "accepted"
       /\ \A v \in Appts : v # u => filed'[v] = filed[v]
  BY <1>1, <1>2 DEF RequestInv, TypeOK, hist, custodyVars
<1>13. ReceiptOK(u)'
  <2>1. \A j \in Ids : Asks(j, u)' => Asks(j, u)
    BY <1>1, <1>2, <1>4, <1>6, <1>7, <1>8 DEF Asks
  <2>2. \A j \in Ids : \A w : Answers(j, u, w)' => Answers(j, u, w)
    BY <1>4, <1>6, <1>7, <1>8 DEF Answers
  <2>3. Refused(u)' => Refused(u)
    BY <1>12, <2>2 DEF Refused
  <2>4. u \in unheard \cap tracked => filed[u] = "accepted"
    BY <1>3
  <2> QED BY <1>9, <1>12, <2>1, <2>3, <2>4 DEF ReceiptOK, inspect
<1>14. NotYet' /\ (owed \subseteq Custody)'
  BY <1>1, NotYetKept, OwedKept DEF custodyVars, hist
<1> QED BY <1>2, <1>4, <1>6, <1>7, <1>10, <1>11, <1>12, <1>13, <1>14, AddMoves

(* Steps of those who only look.                                           *)
LEMMA LooksFile ==
    ASSUME RequestInv, FileInv, NEW i \in Ids, ~Adds(i), ~Adds(i)',
           \A j \in Ids : j # i => req'[j] = req[j], unheard' \subseteq unheard, owed' = owed,
           UNCHANGED <<clockVars, user, outdated, custodyVars, filed>>
    PROVE  FileInv'
<1>1. \A j \in Ids : /\ Adds(j)' <=> Adds(j)
                     /\ Adds(j) => /\ req'[j].step = req[j].step /\ req'[j].u = req[j].u
                                   /\ req'[j].verdict = req[j].verdict /\ req'[j].heard = req[j].heard
  BY DEF Adds, Busy, At
<1>2. NotYet' /\ (owed \subseteq Custody)'
  BY NotYetKept, OwedKept DEF custodyVars
<1>3. tracked' = tracked
  BY DEF custodyVars
<1> QED BY <1>1, <1>2, <1>3, FileKept

(* What is said to the user is what the user files.                        *)
LEMMA ReceiveFiles ==
    ASSUME RequestInv, FileInv, NEW i \in Ids, Receive(i)
    PROVE  FileInv'
<1>1. /\ req[i].step = "answered" /\ req' = [req EXCEPT ![i] = NoRequest]
      /\ unheard' \subseteq unheard /\ \A u \in unheard' : filed'[u] # "accepted"
      /\ UNCHANGED <<clockVars, user, outdated, custodyVars, writer, lost, owed>>
  BY DEF Receive, At
<1>2. req'[i] = NoRequest /\ ~Adds(i)' /\ \A j \in Ids : j # i => req'[j] = req[j]
  BY <1>1, NotAdd DEF RequestInv, TypeOK
<1>3. CASE req[i].kind # "add"
  <2>1. filed' = filed /\ ~Adds(i)
    BY <1>3 DEF Receive, Adds
  <2> QED BY <1>1, <1>2, <2>1, LooksFile
<1>4. CASE req[i].kind = "add"
  <2>1. Adds(i) /\ req[i].u \in Appts
    BY <1>1, <1>4, AddIs DEF Adds, Busy, At
  <2>2. PICK u \in Appts : u = req[i].u
    BY <2>1
  <2>3. filed' = [filed EXCEPT ![u] = Filing(u, req[i].verdict)]
    BY <1>4, <2>2 DEF Receive
  <2>4. filed'[u] = Filing(u, req[i].verdict) /\ \A v \in Appts : v # u => filed'[v] = filed[v]
    BY <2>3 DEF RequestInv, TypeOK
  <2>5. AddOK(i) /\ ReceiptOK(u) /\ OneHeard
    BY <2>1, <2>2 DEF FileInv, AddOK
  <2>6. \A j \in Ids : j # i => (Adds(j)' <=> Adds(j))
    BY <1>2 DEF Adds, Busy, At
  <2>7. OneHeard' /\ AddOK(i)'
    BY <1>2, <2>5, <2>6, OneHeardKept DEF AddOK
  <2>8. tracked' = tracked
    BY <1>1 DEF custodyVars
  <2>9. /\ \A j \in Ids : Asks(j, u)' => Asks(j, u)
        /\ \A j \in Ids : \A w : Answers(j, u, w)' => Answers(j, u, w)
    BY <1>2, <2>6 DEF Asks, Answers
  <2>10. Refused(u)' => Refused(u) /\ filed'[u] # "accepted"
    <3>1. CASE filed'[u] = "accepted"
      BY <3>1 DEF Refused
    <3>2. CASE filed'[u] = "invalid"
      <4>1. filed[u] = "invalid" \/ (filed[u] # "accepted" /\ req[i].verdict \in {"invalid", "triggered"})
        BY <2>4, <3>2 DEF Filing
      <4>2. \A w : req[i].verdict = w => Answers(i, u, w)
        BY <1>1, <2>1, <2>2 DEF Answers
      <4> QED BY <3>2, <4>1, <4>2 DEF Refused
    <3>3. CASE filed'[u] \notin {"accepted", "invalid"}
      <4>1. filed[u] # "invalid" /\ filed[u] # "accepted"
        BY <2>4, <3>3 DEF Filing
      <4> QED BY <2>9, <3>3, <4>1 DEF Refused
    <3> QED BY <3>1, <3>2, <3>3
  <2>11. u \in unheard \cap tracked => filed'[u] = "accepted"
    <3> SUFFICES ASSUME u \in unheard \cap tracked, filed'[u] # "accepted" PROVE FALSE
      OBVIOUS
    <3>1. filed[u] # "accepted" /\ req[i].verdict # "accepted"
      BY <2>4 DEF Filing
    <3>2. PICK j \in Ids : Answers(j, u, "accepted")
      BY <2>5, <3>1 DEF ReceiptOK
    <3>3. Adds(j) /\ req[j].heard /\ req[j].verdict = "accepted" /\ req[j].u = req[i].u
      BY <2>2, <3>2 DEF Answers, FileInv, AddOK
    <3>4. req[i].heard
      BY <1>1, <2>1, <2>5 DEF AddOK
    <3> QED BY <2>1, <2>5, <3>1, <3>3, <3>4 DEF OneHeard
  <2>12. ReceiptOK(u)'
    BY <1>1, <2>5, <2>8, <2>9, <2>10, <2>11 DEF ReceiptOK, inspect
  <2>13. NotYet' /\ (owed \subseteq Custody)'
    BY <1>1, NotYetKept, OwedKept DEF custodyVars
  <2> QED BY <1>1, <1>2, <2>2, <2>4, <2>7, <2>8, <2>12, <2>13, AddMoves
<1> QED BY <1>3, <1>4

LEMMA QueryFiles ==
    ASSUME RequestInv, FileInv, NEW i \in Ids,
           \/ \E k \in {"get", "info"}, u \in Appts \cup {None} : Authenticate(i, k, u)
           \/ Read(i) \/ HasTracker(i) \/ LoadTracker(i)
           \/ GetUserInfo(i) \/ StartList(i) \/ ListNext(i)
    PROVE  FileInv'
<1>1. UNCHANGED <<clockVars, user, outdated, custodyVars, writer, filed, lost, hist>>
  BY DEF Authenticate, Read, HasTracker, LoadTracker, GetUserInfo, StartList, ListNext
<1>2. req \in [Ids -> Request \cup {NoRequest}] /\ RequestOK(req[i], watched, tracked) /\ TypeOK
  BY DEF RequestInv, TypeOK
<1>3. CASE \E k \in {"get", "info"}, u \in Appts \cup {None} : Authenticate(i, k, u)
  <2>1. PICK k \in {"get", "info"}, u \in Appts \cup {None} : Authenticate(i, k, u)
    BY <1>3
  <2> DEFINE new == [NewRequest(k, u, "read", None) EXCEPT !.absent = Asked(k, u) \ Custody]
  <2>2. new.kind = k
    BY DEF NewRequest
  <2>3. req[i].step = "idle" /\ req' = [req EXCEPT ![i] = new]
    BY <2>1 DEF Authenticate, At
  <2> HIDE DEF new
  <2>4. req'[i] = new /\ \A j \in Ids : j # i => req'[j] = req[j]
    BY <1>2, <2>3
  <2>5. ~Adds(i) /\ ~Adds(i)'
    BY <2>2, <2>3, <2>4 DEF Adds, Busy, At
  <2> QED BY <1>1, <2>4, <2>5, LooksFile DEF hist
<1>4. CASE \/ Read(i) \/ HasTracker(i) \/ LoadTracker(i)
           \/ GetUserInfo(i) \/ StartList(i) \/ ListNext(i)
  <2>1. /\ req[i].kind \in {"get", "info"} /\ req[i] \in Request /\ ~Adds(i)
    <3>1. req[i].step \in Querying
      BY <1>4 DEF Read, HasTracker, LoadTracker, GetUserInfo, StartList, ListNext, At, Querying
    <3>2. req[i] \in Request
      BY <1>2, <3>1, BusyIsRequest DEF Querying
    <3> QED BY <1>2, <3>1, <3>2 DEF RequestOK, Querying, Adds
  <2>2. /\ \A j \in Ids : j # i => req'[j] = req[j]
        /\ req'[i] = NoRequest \/ req'[i].kind = req[i].kind
    <3>1. CASE \E v \in Verdicts : Answer(i, v)
      BY <1>2, <2>1, <3>1, AnswerOne
    <3>2. CASE \E s \in Steps : Goto(i, s)
      BY <1>2, <2>1, <3>2, GotoOne
    <3>3. CASE StartList(i)
      <4>1. PICK A : req' = [req EXCEPT ![i].step = "iterate", ![i].todo = A, ![i].of = A]
        BY <3>3 DEF StartList
      <4> DEFINE new == [req[i] EXCEPT !.step = "iterate", !.todo = A, !.of = A]
      <4>2. new.kind = req[i].kind
        BY <2>1 DEF Request
      <4>3. req' = [req EXCEPT ![i] = new]
        BY <4>1
      <4> HIDE DEF new
      <4> QED BY <1>2, <4>2, <4>3
    <3>4. CASE \E new \in Request : req' = [req EXCEPT ![i] = new] /\ new.kind = "info" /\ req[i].kind = "info"
      <4>1. PICK new \in Request : req' = [req EXCEPT ![i] = new] /\ new.kind = req[i].kind
        BY <3>4
      <4> QED BY <1>2, <4>1
    <3>5. \/ \E v \in Verdicts : Answer(i, v)
          \/ \E s \in Steps : Goto(i, s)
          \/ StartList(i)
          \/ \E new \in Request : req' = [req EXCEPT ![i] = new] /\ new.kind = "info" /\ req[i].kind = "info"
      <4>1. {"found", "notfound", "unavailable", "listed"} \subseteq Verdicts /\ {"tracker", "load", "info"} \subseteq Steps
        BY DEF Verdicts, Steps
      <4>2. CASE Read(i)
        BY <4>1, <4>2 DEF Read
      <4>3. CASE HasTracker(i)
        BY <4>1, <4>3 DEF HasTracker
      <4>4. CASE LoadTracker(i)
        BY <4>1, <4>4 DEF LoadTracker
      <4>5. CASE GetUserInfo(i)
        BY <4>1, <4>5 DEF GetUserInfo
      <4>6. CASE ListNext(i)
        <5>1. req[i].kind = "info"
          BY <1>2, <4>6 DEF ListNext, At, RequestOK
        <5> QED BY <4>1, <4>6, <5>1, ListGoesOn
      <4>7. CASE StartList(i)
        BY <4>7
      <4> QED BY <1>4, <4>2, <4>3, <4>4, <4>5, <4>6, <4>7, Zenon
    <3> QED BY <3>1, <3>2, <3>3, <3>4, <3>5
  <2>3. ~Adds(i)'
    <3>1. req'[i].kind = req[i].kind => ~Adds(i)'
      BY <2>1 DEF Adds
    <3> QED BY <2>2, <3>1, NotAdd
  <2> QED BY <1>1, <2>1, <2>2, <2>3, LooksFile DEF hist
<1> QED BY <1>3, <1>4

-----------------------------------------------------------------------------
(* Blocks.                                                                 *)

(* Blocks change nothing of an addition.                                   *)
LEMMA SameAdds ==
    ASSUME RequestInv,
           \A j \in Ids : \/ req'[j] = req[j]
                          \/ /\ req'[j].step = req[j].step
                             /\ req[j].step # "idle" =>
                                   /\ req'[j].kind = req[j].kind /\ req'[j].u = req[j].u
                                   /\ req'[j].verdict = req[j].verdict /\ req'[j].heard = req[j].heard
    PROVE  \A j \in Ids : /\ Adds(j)' <=> Adds(j)
                          /\ Adds(j) => /\ req'[j].step = req[j].step /\ req'[j].u = req[j].u
                                        /\ req'[j].verdict = req[j].verdict /\ req'[j].heard = req[j].heard
BY DEF Adds, Busy, At

LEMMA Heights ==
    ASSUME RequestInv
    PROVE  /\ height \in Nat /\ gkAt \in Nat /\ wAt \in Nat /\ gkAt <= height /\ wAt <= height
           /\ MaxHeight \in Nat /\ height <= MaxHeight
           /\ outdated \in [1..MaxHeight -> SUBSET Appts]
           /\ user # None => user.expiry \in Nat
BY ConstantTypes DEF RequestInv, TypeOK, User

LEMMA registerFiles ==
    ASSUME RequestInv, FileInv, register
    PROVE  FileInv'
<1>1. UNCHANGED <<clockVars, outdated, custodyVars, writer, req, filed, lost, hist>>
  BY DEF register
<1>2. Registered \/ wAt >= gkAt
  BY DEF register, FileInv, Sincere
<1>3. NotYet'
  <2> SUFFICES ASSUME NEW h \in 1..MaxHeight, h > gkAt \/ h > wAt PROVE outdated[h] = {}
    BY <1>1 DEF NotYet, clockVars
  <2> QED BY <1>2, Heights DEF FileInv, NotYet
<1>4. (owed \subseteq Custody)'
  BY <1>1, OwedKept DEF custodyVars, hist
<1>5. tracked' = tracked /\ unheard' = unheard
  BY <1>1 DEF custodyVars, hist
<1> QED BY <1>1, <1>3, <1>4, <1>5, SameAdds, FileKept

LEMMA NewBlockFiles ==
    ASSUME RequestInv, FileInv, NewBlock
    PROVE  FileInv'
<1>1. UNCHANGED <<gkAt, wAt, user, outdated, custodyVars, writer, req, filed, lost, hist>>
  BY DEF NewBlock
<1>2. NotYet'
  BY <1>1 DEF FileInv, NotYet, Registered
<1>3. (owed \subseteq Custody)'
  BY <1>1, OwedKept DEF custodyVars, hist
<1>4. tracked' = tracked /\ unheard' = unheard
  BY <1>1 DEF custodyVars, hist
<1> QED BY <1>1, <1>2, <1>3, <1>4, SameAdds, FileKept

(* What is outdated at a height is outdated because the user is gone.      *)
LEMMA GatekeeperBlockFiles ==
    ASSUME RequestInv, FileInv, GatekeeperBlock
    PROVE  FileInv'
<1> DEFINE h == gkAt + 1
           ends == Registered /\ h = user.expiry + ExpiryDelta
<1>1. /\ gkAt < height /\ gkAt' = h
      /\ outdated' = [outdated EXCEPT ![h] = FoundOutdated(h)]
      /\ user' = IF ends THEN None ELSE user
      /\ owed' \subseteq owed
      /\ UNCHANGED <<height, wAt, custodyVars, writer, filed, lost, unheard>>
  BY DEF GatekeeperBlock
<1>2. ASSUME NEW i \in Ids
      PROVE  \/ req'[i] = req[i]
             \/ /\ req'[i].step = req[i].step
                /\ req[i].step # "idle" =>
                      /\ req'[i].kind = req[i].kind /\ req'[i].u = req[i].u
                      /\ req'[i].verdict = req[i].verdict /\ req'[i].heard = req[i].heard
  <2>1. \/ req'[i] = req[i]
        \/ req[i].step = "info" /\ req'[i] = [req[i] EXCEPT !.entry = "old", !.of = user.appointments]
        \/ req[i].step = "iterate" /\ req'[i] = [req[i] EXCEPT !.entry = "old"]
    BY DEF GatekeeperBlock, At
  <2>2. req[i].step # "idle" => req[i] \in Request
    BY BusyIsRequest DEF RequestInv
  <2>3. CASE req[i].step = "info" /\ req'[i] = [req[i] EXCEPT !.entry = "old", !.of = user.appointments]
    BY <2>2, <2>3 DEF Request
  <2>4. CASE req[i].step = "iterate" /\ req'[i] = [req[i] EXCEPT !.entry = "old"]
    BY <2>2, <2>4 DEF Request
  <2> QED BY <2>1, <2>3, <2>4
<1>3. NotYet'
  <2> SUFFICES ASSUME NEW k \in 1..MaxHeight, k > gkAt' \/ (user' # None /\ k > wAt)
               PROVE  outdated'[k] = {}
    BY <1>1 DEF NotYet, Registered
  <2>1. CASE k = h
    <3>1. user' # None /\ ~ends
      BY <1>1, <2>1, Heights
    <3>2. FoundOutdated(h) = {}
      BY <3>1 DEF FoundOutdated, Registered
    <3> QED BY <1>1, <2>1, <3>2, Heights
  <2>2. CASE k # h
    <3>1. outdated'[k] = outdated[k]
      BY <1>1, <2>2, Heights
    <3>2. k > gkAt \/ (Registered /\ k > wAt)
      BY <1>1, Heights DEF Registered
    <3> QED BY <3>1, <3>2 DEF FileInv, NotYet
  <2> QED BY <2>1, <2>2
<1>4. (owed \subseteq Custody)'
  BY <1>1 DEF FileInv, Custody, custodyVars
<1>5. tracked' = tracked
  BY <1>1 DEF custodyVars
<1> QED BY <1>1, <1>2, <1>3, <1>4, <1>5, SameAdds, FileKept

LEMMA LapseSame ==
    ASSUME NEW r \in Request \cup {NoRequest}, NEW S
    PROVE  LET l == LapseOne(r, S)
           IN  l = r \/ (/\ l.step = r.step /\ l.kind = r.kind /\ l.u = r.u
                         /\ l.verdict = r.verdict /\ l.heard = r.heard)
<1>1. CASE r.step \in {"idle", "answered"}
  BY <1>1 DEF LapseOne
<1>2. CASE r.step \notin {"idle", "answered"}
  <2>1. r \in Request
    BY <1>2, IdleStep
  <2> QED BY <1>2, <2>1 DEF LapseOne, Request
<1> QED BY <1>1, <1>2

(* The tower is released from what the Watcher drops or finds outdated.    *)
LEMMA WatchBlockFiles ==
    ASSUME RequestInv, FileInv, WatchBlock
    PROVE  FileInv'
<1> DEFINE h == wAt + 1
           out == GetOutdated(h) \cap watched
           gone == IF user = None \/ user.expiry + ExpiryDelta <= h THEN out ELSE {}
<1>1. /\ wAt < height /\ writer = None /\ wAt' = h
      /\ UNCHANGED <<height, gkAt, outdated, writer, filed, lost, unheard>>
  BY DEF WatchBlock
<1>2. PICK delivered \in SUBSET watched, dropped \in SUBSET watched :
         /\ delivered \cap out = {} /\ \A u \in delivered : u \notin unheard
         /\ watched' = watched \ (out \cup delivered \cup dropped)
         /\ tracked' = tracked \cup delivered
         /\ user' = Freed(dropped)
         /\ req' = Lapse((out \cup dropped) \ tracked)
         /\ owed' = owed \ (dropped \cup gone)
  <2>1. "unheard" \notin Rare
    BY DEF FileInv, Sincere
  <2>2. \E delivered \in SUBSET (watched \ out) :
        \E dropped \in SUBSET (watched \ (out \cup delivered)) :
              /\ \A u \in delivered \cup dropped : u \notin unheard \/ "unheard" \in Rare
              /\ watched' = watched \ (out \cup delivered \cup dropped)
              /\ tracked' = tracked \cup delivered
              /\ user' = Freed(dropped)
              /\ req' = Lapse((out \cup dropped) \ tracked)
              /\ owed' = owed \ (dropped \cup gone)
    BY DEF WatchBlock
  <2> HIDE DEF gone, out
  <2> QED BY <2>1, <2>2
<1>3. NotYet'
  <2> SUFFICES ASSUME NEW k \in 1..MaxHeight, k > gkAt \/ (user' # None /\ k > h)
               PROVE  outdated[k] = {}
    BY <1>1 DEF NotYet, Registered
  <2>1. user' # None => user # None
    BY <1>2 DEF Freed
  <2> QED BY <2>1, Heights DEF FileInv, NotYet, Registered
<1>4. (owed \subseteq Custody)'
  <2> SUFFICES ASSUME NEW u \in owed, u \notin dropped, u \notin gone
               PROVE  u \in watched' \cup tracked'
    BY <1>2 DEF Custody
  <2>1. u \in watched \cup tracked
    BY DEF FileInv, Custody
  <2>2. u \notin out
    <3> SUFFICES ASSUME u \in out PROVE FALSE
      OBVIOUS
    <3>1. user # None /\ ~(user.expiry + ExpiryDelta <= h)
      OBVIOUS
    <3>2. h \in 1..MaxHeight => outdated[h] = {}
      BY <1>1, <3>1, Heights DEF FileInv, NotYet, Registered
    <3>3. h # user.expiry + ExpiryDelta
      BY <3>1, Heights, ConstantTypes
    <3>4. GetOutdated(h) = {}
      BY <3>2, <3>3 DEF GetOutdated, FoundOutdated
    <3> QED BY <3>4
  <2> HIDE DEF out, gone
  <2> QED BY <1>2, <2>1, <2>2
<1>5. ASSUME NEW j \in Ids
      PROVE  \/ req'[j] = req[j]
             \/ /\ req'[j].step = req[j].step
                /\ req[j].step # "idle" =>
                      /\ req'[j].kind = req[j].kind /\ req'[j].u = req[j].u
                      /\ req'[j].verdict = req[j].verdict /\ req'[j].heard = req[j].heard
  <2> HIDE DEF out
  <2>1. req'[j] = LapseOne(req[j], (out \cup dropped) \ tracked)
    BY <1>2, LapseIs
  <2>2. req[j] \in Request \cup {NoRequest}
    BY DEF RequestInv, TypeOK
  <2> QED BY <2>1, <2>2, LapseSame
<1>6. \A j \in Ids : req[j].step \notin {"charge", "keep"}
  BY <1>1, ConstantTypes DEF RequestInv, WriterAlone
<1> HIDE DEF out, gone
<1>7. \A v \in tracked' \ tracked :
         v \notin unheard /\ \A j \in Ids : Adds(j) /\ req[j].step \in {"charge", "keep"} => req[j].u # v
  BY <1>2, <1>6
<1>8. tracked \subseteq tracked' /\ unheard' = unheard /\ filed' = filed
  BY <1>1, <1>2
<1> QED BY <1>3, <1>4, <1>5, <1>7, <1>8, SameAdds, FileKept

(* A tracker ends when the user knows of it, and frees the tower.          *)
LEMMA EndTrackerFiles ==
    ASSUME RequestInv, FileInv, NEW u \in Appts, EndTracker(u)
    PROVE  FileInv'
<1> DEFINE freed == user # None /\ u \in user.appointments
           S == {u} \ watched
<1>1. /\ tracked' = tracked \ {u} /\ user' = Freed({u}) /\ owed' = owed \ {u}
      /\ UNCHANGED <<clockVars, outdated, watched, writer, filed, lost, unheard>>
  BY DEF EndTracker
<1>2. \A j \in Ids : Adds(j) => req[j].u # u
  BY DEF EndTracker, FileInv, Sincere, Adds
<1>3. ASSUME NEW j \in Ids
      PROVE  \/ req'[j] = req[j]
             \/ /\ req'[j].step = req[j].step
                /\ req[j].step # "idle" =>
                      /\ req'[j].kind = req[j].kind /\ req'[j].u = req[j].u
                      /\ req'[j].verdict = req[j].verdict /\ req'[j].heard = req[j].heard
  <2>1. \/ req'[j] = Lapse(S)[j]
        \/ req[j].step = "iterate" /\ req'[j] = [Lapse(S)[j] EXCEPT !.entry = "changed"]
    BY DEF EndTracker, At
  <2>2. req[j] \in Request \cup {NoRequest} /\ S \subseteq Appts
    BY DEF RequestInv, TypeOK
  <2> HIDE DEF S
  <2> DEFINE l == LapseOne(req[j], S)
  <2>3. Lapse(S)[j] = l
    BY LapseIs
  <2>4. l = req[j] \/ (/\ l.step = req[j].step /\ l.kind = req[j].kind /\ l.u = req[j].u
                       /\ l.verdict = req[j].verdict /\ l.heard = req[j].heard)
    BY <2>2, LapseSame
  <2>5. req[j].step = "iterate" => l \in Request
    BY <2>2, LapseKeeps
  <2> HIDE DEF l
  <2>6. CASE req[j].step = "iterate" /\ req'[j] = [l EXCEPT !.entry = "changed"]
    BY <2>4, <2>5, <2>6 DEF Request
  <2> QED BY <2>1, <2>3, <2>4, <2>6
<1>4. NotYet'
  <2>1. user = None => user' = None
    BY <1>1 DEF Freed
  <2> QED BY <1>1, <2>1, NotYetKept
<1>5. (owed \subseteq Custody)'
  BY <1>1 DEF FileInv, Custody
<1> QED BY <1>1, <1>2, <1>3, <1>4, <1>5, SameAdds, FileKept

LEMMA InitFiles == Sincere /\ Init => FileInv
<1> SUFFICES ASSUME Sincere, Init PROVE FileInv
  OBVIOUS
<1>1. \A i \in Ids : ~Adds(i)
  BY NotAdd DEF Init
<1>2. NotYet /\ owed \subseteq Custody
  BY DEF Init, NotYet
<1>3. OneHeard /\ \A i \in Ids : AddOK(i)
  BY <1>1 DEF OneHeard, AddOK
<1>4. \A u \in Appts : ReceiptOK(u)
  BY <1>1 DEF Init, ReceiptOK, Refused, Answers, Asks
<1> QED BY <1>2, <1>3, <1>4 DEF FileInv

LEMMA StepFiles == RequestInv /\ FileInv /\ [Next]_vars => FileInv'
<1> SUFFICES ASSUME RequestInv, FileInv, [Next]_vars PROVE FileInv'
  OBVIOUS
<1>1. CASE \E i \in Ids, u \in Appts : SendAdd(i, u)
  BY <1>1, SendAddFiles
<1>2. CASE \E i \in Ids : \/ \E u \in Appts : Authenticate(i, "get", u)
                          \/ Authenticate(i, "info", None)
                          \/ Read(i) \/ HasTracker(i) \/ LoadTracker(i)
                          \/ GetUserInfo(i) \/ StartList(i) \/ ListNext(i)
  BY <1>2, QueryFiles
<1>3. CASE \E i \in Ids : TimeOut(i) \/ Receive(i) \/ Enter(i) \/ Charge(i) \/ Keep(i)
  BY <1>3, TimeOutFiles, ReceiveFiles, EnterFiles, ChargeFiles, KeepFiles
<1>4. CASE register \/ NewBlock \/ GatekeeperBlock \/ WatchBlock
  BY <1>4, registerFiles, NewBlockFiles, GatekeeperBlockFiles, WatchBlockFiles
<1>5. CASE \E u \in Appts : EndTracker(u)
  BY <1>5, EndTrackerFiles
<1>6. CASE UNCHANGED vars
  <2>1. UNCHANGED <<clockVars, user, outdated, custodyVars, req, filed, unheard, owed, tracked>>
    BY <1>6 DEF vars, custodyVars, hist
  <2>2. NotYet' /\ (owed \subseteq Custody)'
    BY <2>1, NotYetKept, OwedKept DEF custodyVars
  <2> QED BY <2>1, <2>2, SameAdds, FileKept
<1> QED BY <1>1, <1>2, <1>3, <1>4, <1>5, <1>6 DEF Next, Serve

(* One addition at a time is waited for, a receipt for what is tracked is  *)
(* on its way, and who is refused has none and gets none.                  *)
THEOREM FileInvariance == Sincere /\ Spec => [](RequestInv /\ FileInv)
<1> QED BY InitRequests, StepRequests, InitFiles, StepFiles, PTL DEF Spec

(* What has a receipt is watched or tracked until the tower is released    *)
(* from it, and what is filed as invalid never had one.                    *)
THEOREM FiledIsTrueHolds == Sincere /\ Spec => []FiledIsTrue
<1>1. FileInv => FiledIsTrue
  BY DEF FileInv, FiledIsTrue, ReceiptOK, Refused
<1> QED BY <1>1, FileInvariance, PTL
=============================================================================
