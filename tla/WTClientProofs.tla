--------------------------- MODULE WTClientProofs ---------------------------
(***************************************************************************)
(* The client implements its outbox, for any number of towers,             *)
(* appointments and retry threads, and whatever hooks, commands, threads   *)
(* and restarts do to each other.                                          *)
(*                                                                         *)
(* What a pass over the pending appointments is about to deliver is a list *)
(* that was read some time ago.  The argument is that, of such a list,     *)
(* what is still pending is still pending in the same order and ahead of   *)
(* all else, so that what is delivered is the first of the pending ones.   *)
(***************************************************************************)
EXTENDS WTClient, SequenceTheorems, TLAPS

-----------------------------------------------------------------------------
(* The inductive invariant.                                                *)

(* Of the list l of a pass, what is in p is at its start, in order.        *)
InStep(l, p) ==
    \A i \in 1..Len(l), j \in 1..Len(p) :
        l[i] = p[j] => j <= i /\ \A m \in 1..j : p[m] = l[i - j + m]

(* A record holds what the hook has dealt with.                            *)
HeldAreHanded ==
    \A t \in Towers :
        /\ \A i \in 1..Len(db[t].pending) : db[t].pending[i] \in handed[t]
        /\ db[t].appointments \cup db[t].invalid \cup db[t].proof \subseteq handed[t]
        /\ handed[t] \subseteq revoked

WaitOnce ==
    \A t \in Towers : \A i, j \in 1..Len(db[t].pending) :
        db[t].pending[i] = db[t].pending[j] => i = j

(* The hook deals once with an appointment for each tower.                 *)
HookIsAhead ==
    /\ hook.step = "idle" => hook = NoHook
    /\ hook.step # "idle" => hook.u \in revoked
    /\ hook.step = "next" => hook.t = None
    /\ hook.step \in {"post", "update"} =>
          hook.t \in Towers /\ hook.t \notin hook.left /\ hook.u \notin handed[hook.t]
    /\ \A t \in hook.left : hook.u \notin handed[t]

PassInStep(r) ==
    /\ retry[r].step # "idle" => retry[r].t \in Towers
    /\ retry[r].step = "pass" => retry[r].tries < MaxTries
    /\ retry[r].step = "update" =>
          retry[r].answer \in {"accepted", "forged", "subscription", "invalid"}
    /\ retry[r].step \in {"post", "update"} =>
          /\ retry[r].list # <<>>
          /\ \A i \in 1..Len(retry[r].list) : retry[r].list[i] \in handed[retry[r].t]
          /\ InStep(retry[r].list, db[retry[r].t].pending)

PassesAreInStep == \A r \in Retriers : PassInStep(r)

ClientInv ==
    /\ MemoryIsDisk
    /\ HeldAreHanded
    /\ WaitOnce
    /\ HookIsAhead
    /\ PassesAreInStep

-----------------------------------------------------------------------------
(* Sequences.                                                              *)

(* Removing the first of a sequence leaves its tail.                       *)
LEMMA RemoveHead ==
    ASSUME NEW S, NEW s \in Seq(S), s # <<>>
    PROVE  RemoveFirst(s, Head(s)) = Tail(s)
<1>1. Len(s) \in Nat /\ Len(s) >= 1 /\ Head(s) = s[1]
  OBVIOUS
<1>2. \E i \in 1..Len(s) : s[i] = Head(s)
  BY <1>1
<1> DEFINE I == {i \in 1..Len(s) : s[i] = Head(s)}
<1>3. 1 \in I /\ \A y \in I : 1 =< y
  BY <1>1
<1>4. Min(I) = 1
  <2>1. \A x \in I : (\A y \in I : x =< y) => x = 1
    BY <1>3
  <2> HIDE DEF I
  <2> QED BY <1>3, <2>1 DEF Min
<1>5. RemoveFirst(s, Head(s)) = RemoveAt(s, Min(I))
  BY <1>2, <1>3 DEF RemoveFirst, SelectInSeq
<1>6. RemoveFirst(s, Head(s)) = SubSeq(s, 1, 0) \o SubSeq(s, 2, Len(s))
  <2>1. RemoveFirst(s, Head(s)) = RemoveAt(s, 1)
    BY <1>4, <1>5
  <2>2. RemoveAt(s, 1) = SubSeq(s, 1, 1 - 1) \o SubSeq(s, 1 + 1, Len(s))
    BY DEF RemoveAt
  <2>3. 1 - 1 = 0 /\ 1 + 1 = 2
    OBVIOUS
  <2> QED BY <2>1, <2>2, <2>3
<1>7. SubSeq(s, 1, 0) = <<>>
  BY SubSeqEmpty
<1>8. Tail(s) \in Seq(S) /\ SubSeq(s, 2, Len(s)) = Tail(s)
  BY HeadTailProperties, TailIsSubSeq
<1> QED BY <1>6, <1>7, <1>8, ConcatEmptySeq

(* The tail of a sequence, item by item.                                   *)
LEMMA TailItems ==
    ASSUME NEW S, NEW s \in Seq(S), s # <<>>
    PROVE  /\ Tail(s) \in Seq(S)
           /\ Len(s) \in Nat /\ Len(s) >= 1 /\ Len(Tail(s)) = Len(s) - 1
           /\ \A i \in 1..Len(Tail(s)) : i + 1 \in 1..Len(s) /\ Tail(s)[i] = s[i + 1]
           /\ Head(s) = s[1] /\ 1 \in 1..Len(s)
<1>1. Len(s) \in Nat /\ Len(s) >= 1 /\ Head(s) = s[1]
  OBVIOUS
<1> QED BY <1>1, HeadTailProperties

(* A list just read is in step.                                            *)
LEMMA InStepSelf ==
    ASSUME NEW p \in Seq(Appts), \A i, j \in 1..Len(p) : p[i] = p[j] => i = j
    PROVE  InStep(p, p)
<1>1. Len(p) \in Nat
  OBVIOUS
<1>2. ASSUME NEW i \in 1..Len(p), NEW j \in 1..Len(p), p[i] = p[j]
      PROVE  j <= i /\ \A m \in 1..j : p[m] = p[i - j + m]
  <2>1. i = j
    BY <1>2
  <2>2. \A m \in 1..j : i - j + m = m
    BY <1>1, <2>1
  <2> QED BY <1>1, <2>1, <2>2
<1> QED BY <1>2 DEF InStep

(* It stays in step when the first pending one is settled by others, when  *)
(* it is settled by the pass itself, and when another is postponed.        *)
LEMMA InStepTail ==
    ASSUME NEW l \in Seq(Appts), NEW p \in Seq(Appts), p # <<>>, InStep(l, p)
    PROVE  InStep(l, Tail(p))
<1>1. /\ Len(p) \in Nat /\ Len(l) \in Nat /\ Len(Tail(p)) = Len(p) - 1
      /\ \A i \in 1..Len(Tail(p)) : i + 1 \in 1..Len(p) /\ Tail(p)[i] = p[i + 1]
  BY TailItems
<1>2. ASSUME NEW i \in 1..Len(l), NEW j \in 1..Len(Tail(p)), l[i] = Tail(p)[j]
      PROVE  j <= i /\ \A m \in 1..j : Tail(p)[m] = l[i - j + m]
  <2>1. j + 1 \in 1..Len(p) /\ l[i] = p[j + 1]
    BY <1>1, <1>2
  <2>2. j + 1 <= i /\ \A m \in 1..j + 1 : p[m] = l[i - (j + 1) + m]
    BY <1>2, <2>1 DEF InStep
  <2>3. ASSUME NEW m \in 1..j
        PROVE  Tail(p)[m] = l[i - j + m]
    <3>1. m + 1 \in 1..j + 1 /\ m \in 1..Len(Tail(p)) /\ i - (j + 1) + (m + 1) = i - j + m
      BY <1>1
    <3>2. p[m + 1] = l[i - (j + 1) + (m + 1)]
      BY <2>2, <3>1
    <3> QED BY <1>1, <3>1, <3>2
  <2> QED BY <1>1, <2>2, <2>3
<1> QED BY <1>2 DEF InStep

LEMMA InStepTails ==
    ASSUME NEW l \in Seq(Appts), NEW p \in Seq(Appts), l # <<>>, p # <<>>, InStep(l, p)
    PROVE  InStep(Tail(l), Tail(p))
<1>1. /\ Len(p) \in Nat /\ Len(l) \in Nat
      /\ Len(Tail(p)) = Len(p) - 1 /\ Len(Tail(l)) = Len(l) - 1
      /\ \A i \in 1..Len(Tail(p)) : i + 1 \in 1..Len(p) /\ Tail(p)[i] = p[i + 1]
      /\ \A i \in 1..Len(Tail(l)) : i + 1 \in 1..Len(l) /\ Tail(l)[i] = l[i + 1]
  BY TailItems
<1>2. ASSUME NEW i \in 1..Len(Tail(l)), NEW j \in 1..Len(Tail(p)), Tail(l)[i] = Tail(p)[j]
      PROVE  j <= i /\ \A m \in 1..j : Tail(p)[m] = Tail(l)[i - j + m]
  <2>1. j + 1 \in 1..Len(p) /\ i + 1 \in 1..Len(l) /\ l[i + 1] = p[j + 1]
    BY <1>1, <1>2
  <2>2. j + 1 <= i + 1 /\ \A m \in 1..j + 1 : p[m] = l[(i + 1) - (j + 1) + m]
    BY <2>1 DEF InStep
  <2>3. ASSUME NEW m \in 1..j
        PROVE  Tail(p)[m] = Tail(l)[i - j + m]
    <3>1. /\ m + 1 \in 1..j + 1 /\ m \in 1..Len(Tail(p))
          /\ (i + 1) - (j + 1) + (m + 1) = (i - j + m) + 1
          /\ i - j + m \in 1..Len(Tail(l))
      BY <1>1, <2>2
    <3>2. p[m + 1] = l[(i - j + m) + 1]
      BY <2>2, <3>1
    <3>3. Tail(p)[m] = p[m + 1] /\ Tail(l)[i - j + m] = l[(i - j + m) + 1]
      BY <1>1, <3>1
    <3> QED BY <3>2, <3>3
  <2> QED BY <1>1, <2>2, <2>3
<1> QED BY <1>2 DEF InStep

LEMMA InStepAppend ==
    ASSUME NEW l \in Seq(Appts), NEW p \in Seq(Appts), InStep(l, p),
           NEW u \in Appts, \A i \in 1..Len(l) : l[i] # u
    PROVE  InStep(l, Append(p, u))
<1> DEFINE a == Append(p, u)
<1>1. /\ Len(p) \in Nat /\ Len(l) \in Nat /\ Len(a) = Len(p) + 1
      /\ \A i \in 1..Len(p) : a[i] = p[i]
      /\ a[Len(p) + 1] = u
  BY AppendProperties
<1>2. ASSUME NEW i \in 1..Len(l), NEW j \in 1..Len(a), l[i] = a[j]
      PROVE  j <= i /\ \A m \in 1..j : a[m] = l[i - j + m]
  <2> HIDE DEF a
  <2>1. j \in 1..Len(p)
    BY <1>1, <1>2
  <2>2. j <= i /\ \A m \in 1..j : p[m] = l[i - j + m]
    BY <1>1, <1>2, <2>1 DEF InStep
  <2>3. \A m \in 1..j : m \in 1..Len(p)
    BY <1>1, <2>1
  <2> QED BY <1>1, <2>2, <2>3
<1> QED BY <1>2 DEF InStep

(* What a pass is about to deliver, if it is pending, is the first of      *)
(* those.                                                                  *)
LEMMA InStepHead ==
    ASSUME NEW l \in Seq(Appts), NEW p \in Seq(Appts), l # <<>>, InStep(l, p),
           Contains(p, Head(l))
    PROVE  p # <<>> /\ Head(l) = Head(p)
<1>1. Len(l) \in Nat /\ 1 \in 1..Len(l) /\ Head(l) = l[1]
  BY TailItems
<1>2. PICK j \in 1..Len(p) : p[j] = l[1]
  BY <1>1 DEF Contains
<1>3. Len(p) \in Nat /\ j \in Nat
  BY <1>2
<1>4. j <= 1
  BY <1>1, <1>2 DEF InStep
<1>5. j = 1 /\ Len(p) >= 1
  BY <1>2, <1>3, <1>4
<1>6. p # <<>> /\ Head(p) = p[1]
  BY <1>5
<1> QED BY <1>1, <1>2, <1>5, <1>6

(* Nothing waits twice.                                                    *)
LEMMA OnceTail ==
    ASSUME NEW p \in Seq(Appts), p # <<>>, \A i, j \in 1..Len(p) : p[i] = p[j] => i = j
    PROVE  \A i, j \in 1..Len(Tail(p)) : Tail(p)[i] = Tail(p)[j] => i = j
<1>1. /\ Len(p) \in Nat
      /\ \A i \in 1..Len(Tail(p)) : i + 1 \in 1..Len(p) /\ Tail(p)[i] = p[i + 1]
  BY TailItems
<1>2. ASSUME NEW i \in 1..Len(Tail(p)), NEW j \in 1..Len(Tail(p)), Tail(p)[i] = Tail(p)[j]
      PROVE  i = j
  <2>1. i + 1 \in 1..Len(p) /\ j + 1 \in 1..Len(p) /\ p[i + 1] = p[j + 1]
    BY <1>1, <1>2
  <2>2. i + 1 = j + 1
    BY <2>1
  <2> QED BY <2>2
<1> QED BY <1>2

LEMMA OnceAppend ==
    ASSUME NEW p \in Seq(Appts), NEW u \in Appts, \A i \in 1..Len(p) : p[i] # u,
           \A i, j \in 1..Len(p) : p[i] = p[j] => i = j
    PROVE  \A i, j \in 1..Len(Append(p, u)) : Append(p, u)[i] = Append(p, u)[j] => i = j
<1>1. /\ Len(p) \in Nat /\ Len(Append(p, u)) = Len(p) + 1
      /\ \A i \in 1..Len(p) : Append(p, u)[i] = p[i]
      /\ Append(p, u)[Len(p) + 1] = u
  BY AppendProperties
<1>2. \A i \in 1..Len(Append(p, u)) : i \in 1..Len(p) \/ i = Len(p) + 1
  BY <1>1
<1> QED BY <1>1, <1>2

-----------------------------------------------------------------------------
(* Records.                                                                *)

LEMMA HookUpdateRecord ==
    ASSUME NEW i \in TowerInfo, NEW u \in Appts, NEW a \in Outcomes \cup {"none", "not sent"}
    PROVE  /\ HookUpdate(i, u, a) \in TowerInfo
           /\ HookUpdate(i, u, a).pending = IF a \in {"not sent", "unreachable", "subscription"}
                                            THEN Append(i.pending, u) ELSE i.pending
           /\ HookUpdate(i, u, a).appointments = IF a = "accepted" THEN i.appointments \cup {u}
                                                 ELSE i.appointments
           /\ HookUpdate(i, u, a).invalid = IF a = "invalid" THEN i.invalid \cup {u} ELSE i.invalid
           /\ HookUpdate(i, u, a).proof = IF a = "forged" THEN {u} ELSE i.proof
<1>1. Append(i.pending, u) \in Seq(Appts)
  BY AppendProperties DEF TowerInfo
<1> QED BY <1>1 DEF HookUpdate, TowerInfo, Status

(* A retry settles the first of the pending ones, or only says that there  *)
(* is no subscription.                                                     *)
LEMMA RetryUpdateRecord ==
    ASSUME NEW i \in TowerInfo, NEW u \in Appts,
           NEW a \in {"accepted", "forged", "subscription", "invalid"},
           a = "subscription" \/ (i.pending # <<>> /\ u = Head(i.pending))
    PROVE  /\ RetryUpdate(i, u, a) \in TowerInfo
           /\ RetryUpdate(i, u, a).pending = IF a = "subscription" THEN i.pending ELSE Tail(i.pending)
           /\ RetryUpdate(i, u, a).appointments = IF a = "accepted" THEN i.appointments \cup {u}
                                                  ELSE i.appointments
           /\ RetryUpdate(i, u, a).invalid = IF a = "invalid" THEN i.invalid \cup {u} ELSE i.invalid
           /\ RetryUpdate(i, u, a).proof = IF a = "forged" THEN {u} ELSE i.proof
<1>1. i.pending \in Seq(Appts)
  BY DEF TowerInfo
<1>2. a # "subscription" => RemoveFirst(i.pending, u) = Tail(i.pending) /\ Tail(i.pending) \in Seq(Appts)
  BY <1>1, RemoveHead, TailItems
<1> QED BY <1>1, <1>2 DEF RetryUpdate, TowerInfo, Status

LEMMA SummaryType ==
    ASSUME NEW i \in TowerInfo
    PROVE  /\ get_summary(i) \in TowerSummary
           /\ get_summary(i).pending = i.pending /\ get_summary(i).status = i.status
BY DEF get_summary, TowerInfo, TowerSummary

LEMMA FreshType == Fresh \in TowerInfo
BY DEF Fresh, TowerInfo, Status

RetryRecord == [step : {"idle", "pass", "post", "update", "give up"},
                t : Towers \cup {None}, list : Seq(Appts),
                tries : 0..MaxTries, answer : Outcomes \cup {"none"}]

LEMMA TriesType == MaxTries \in Nat \ {0}
BY WTClientAssumption

LEMMA NoRetryRecord == NoRetry \in RetryRecord
<1>1. 0 \in 0..MaxTries /\ <<>> \in Seq(Appts)
  BY TriesType
<1> QED BY <1>1 DEF NoRetry, RetryRecord

-----------------------------------------------------------------------------
(* Steps.                                                                  *)

(* A step that leaves the records alone needs to be looked at for its own  *)
(* thread only.                                                            *)
RecordsAlone == UNCHANGED <<db, handed>> /\ revoked \subseteq revoked'

LEMMA AloneKeeps ==
    ASSUME ClientInv, RecordsAlone
    PROVE  /\ HeldAreHanded' /\ WaitOnce'
           /\ UNCHANGED hook => HookIsAhead'
           /\ UNCHANGED retry => PassesAreInStep'
<1>1. HeldAreHanded'
  BY DEF ClientInv, HeldAreHanded, RecordsAlone
<1>2. WaitOnce'
  BY DEF ClientInv, WaitOnce, RecordsAlone
<1>3. UNCHANGED hook => HookIsAhead'
  BY DEF ClientInv, HookIsAhead, RecordsAlone, NoHook
<1>4. UNCHANGED retry => PassesAreInStep'
  BY DEF ClientInv, PassesAreInStep, PassInStep, RecordsAlone, InStep
<1> QED BY <1>1, <1>2, <1>3, <1>4

(* One that has a list to go through.                                      *)
LEMMA PassBegun ==
    ASSUME NEW r, NEW t \in Towers, NEW l,
           retry'[r].t = t, retry'[r].list = l, l # <<>>,
           \/ retry'[r].step = "post"
           \/ /\ retry'[r].step = "update"
              /\ retry'[r].answer \in {"accepted", "forged", "subscription", "invalid"},
           \A i \in 1..Len(l) : l[i] \in handed'[t],
           InStep(l, db'[t].pending)
    PROVE  PassInStep(r)'
<1>1. retry'[r].step \notin {"idle", "pass"}
  OBVIOUS
<1> QED BY <1>1 DEF PassInStep

(* A pass over a tower nothing happens to.                                 *)
LEMMA PassUntouched ==
    ASSUME NEW r, PassInStep(r), retry'[r] = retry[r],
           retry[r].step \in {"post", "update"} =>
               /\ db'[retry[r].t].pending = db[retry[r].t].pending
               /\ handed[retry[r].t] \subseteq handed'[retry[r].t]
    PROVE  PassInStep(r)'
<1>1. CASE retry[r].step \in {"post", "update"}
  <2> DEFINE t == retry[r].t
             l == retry[r].list
  <2>1. /\ t \in Towers /\ l # <<>>
        /\ retry[r].step = "update" =>
              retry[r].answer \in {"accepted", "forged", "subscription", "invalid"}
        /\ \A i \in 1..Len(l) : l[i] \in handed[t]
        /\ InStep(l, db[t].pending)
    BY <1>1 DEF PassInStep
  <2>2. (\A i \in 1..Len(l) : l[i] \in handed'[t]) /\ InStep(l, db'[t].pending)
    BY <1>1, <2>1
  <2> QED BY <1>1, <2>1, <2>2, PassBegun
<1>2. CASE retry[r].step \notin {"post", "update"}
  BY <1>2 DEF PassInStep
<1> QED BY <1>1, <1>2

LEMMA MemoryAlone ==
    ASSUME MemoryIsDisk, UNCHANGED <<towers, db>>, TypeOK'
    PROVE  MemoryIsDisk'
BY DEF MemoryIsDisk

(* An update of one record.                                                *)
LEMMA UpdateKeepsMemory ==
    ASSUME MemoryIsDisk, NEW t \in Towers, NEW i \in TowerInfo,
           update_tower_state(t, i), TypeOK'
    PROVE  MemoryIsDisk'
<1>1. get_summary(i).pending = i.pending /\ get_summary(i).status = i.status
  BY SummaryType
<1> QED BY <1>1 DEF MemoryIsDisk, update_tower_state, TypeOK

LEMMA RevokeStep ==
    ASSUME ClientInv, NEW u \in Appts, Revoke(u)
    PROVE  ClientInv'
<1>1. RecordsAlone /\ UNCHANGED retry
  BY DEF Revoke, RecordsAlone
<1>2. TypeOK'
  BY DEF ClientInv, MemoryIsDisk, TypeOK, Revoke, NoHook
<1>3. HookIsAhead'
  BY DEF ClientInv, HeldAreHanded, HookIsAhead, Revoke, NoHook
<1>4. MemoryIsDisk'
  BY <1>2, MemoryAlone DEF Revoke, ClientInv
<1> QED BY <1>1, <1>3, <1>4, AloneKeeps DEF ClientInv

LEMMA VisitStep ==
    ASSUME ClientInv, NEW t \in Towers, Visit(t)
    PROVE  ClientInv'
<1>1. RecordsAlone /\ UNCHANGED retry
  BY DEF Visit, RecordsAlone
<1>2. TypeOK'
  BY DEF ClientInv, MemoryIsDisk, TypeOK, Visit
<1>3. HookIsAhead'
  BY DEF ClientInv, MemoryIsDisk, TypeOK, HookIsAhead, Visit, NoHook
<1>4. MemoryIsDisk'
  BY <1>2, MemoryAlone DEF Visit, ClientInv
<1> QED BY <1>1, <1>3, <1>4, AloneKeeps DEF ClientInv

LEMMA HookAnswerStep ==
    ASSUME ClientInv, HookAnswer
    PROVE  ClientInv'
<1>1. RecordsAlone /\ UNCHANGED retry
  BY DEF HookAnswer, RecordsAlone
<1>2. TypeOK'
  <2>1. PICK a \in Answers : hook' = [hook EXCEPT !.step = "update", !.answer = a]
    BY DEF HookAnswer
  <2>2. a \in Outcomes
    BY WTClientAssumption
  <2>3. hook' \in [step : {"idle", "next", "post", "update"}, u : Appts \cup {None},
                   left : SUBSET Towers, t : Towers \cup {None},
                   answer : Outcomes \cup {"none", "not sent"}]
    BY <2>1, <2>2 DEF ClientInv, MemoryIsDisk, TypeOK
  <2> QED BY <2>3 DEF ClientInv, MemoryIsDisk, TypeOK, HookAnswer
<1>3. HookIsAhead'
  BY DEF ClientInv, MemoryIsDisk, TypeOK, HookIsAhead, HookAnswer, NoHook
<1>4. MemoryIsDisk'
  BY <1>2, MemoryAlone DEF HookAnswer, ClientInv
<1> QED BY <1>1, <1>3, <1>4, AloneKeeps DEF ClientInv

LEMMA HookDoneStep ==
    ASSUME ClientInv, HookDone
    PROVE  ClientInv'
<1>1. RecordsAlone /\ UNCHANGED retry
  BY DEF HookDone, RecordsAlone
<1>2. TypeOK'
  BY DEF ClientInv, MemoryIsDisk, TypeOK, HookDone, NoHook
<1>3. HookIsAhead'
  BY DEF ClientInv, HookIsAhead, HookDone, NoHook
<1>4. MemoryIsDisk'
  BY <1>2, MemoryAlone DEF HookDone, ClientInv
<1> QED BY <1>1, <1>3, <1>4, AloneKeeps DEF ClientInv

(* The hook deals with one tower.  What it adds to the pending ones is in  *)
(* no list of a pass.                                                      *)
LEMMA TellStep ==
    ASSUME ClientInv, Tell
    PROVE  ClientInv'
<1> DEFINE t == hook.t
           u == hook.u
           a == hook.answer
           new == HookUpdate(db[t], u, a)
<1>1. /\ t \in Towers /\ t \notin hook.left /\ u \in Appts /\ u \in revoked
      /\ u \notin handed[t] /\ db[t] \in TowerInfo /\ handed[t] \in SUBSET Appts
      /\ db[t].pending \in Seq(Appts) /\ a \in Outcomes \cup {"none", "not sent"}
  BY DEF ClientInv, MemoryIsDisk, TypeOK, HookIsAhead, Tell, TowerInfo
<1>2. /\ new \in TowerInfo
      /\ new.pending = IF a \in {"not sent", "unreachable", "subscription"}
                       THEN Append(db[t].pending, u) ELSE db[t].pending
      /\ new.appointments \subseteq db[t].appointments \cup {u}
      /\ new.invalid \subseteq db[t].invalid \cup {u}
      /\ new.proof \subseteq db[t].proof \cup {u}
  <2>1. /\ new \in TowerInfo
        /\ new.pending = IF a \in {"not sent", "unreachable", "subscription"}
                         THEN Append(db[t].pending, u) ELSE db[t].pending
        /\ new.appointments = IF a = "accepted" THEN db[t].appointments \cup {u}
                              ELSE db[t].appointments
        /\ new.invalid = IF a = "invalid" THEN db[t].invalid \cup {u} ELSE db[t].invalid
        /\ new.proof = IF a = "forged" THEN {u} ELSE db[t].proof
    <3> HIDE DEF t, u, a
    <3> QED BY <1>1, HookUpdateRecord
  <2> HIDE DEF new
  <2> QED BY <2>1
<1>3. get_summary(new) \in TowerSummary
  BY <1>2, SummaryType
<1>4. /\ update_tower_state(t, new)
      /\ handed' = [handed EXCEPT ![t] = @ \cup {u}]
      /\ hook' = IF a = "unexpected" THEN NoHook
                 ELSE [hook EXCEPT !.step = "next", !.t = None, !.answer = "none"]
      /\ queue' = IF a = "unreachable" THEN Append(queue, t) ELSE queue
      /\ hook.step = "update"
      /\ UNCHANGED <<retry, revoked, restarts>>
  BY DEF Tell
<1>5. /\ db' = [db EXCEPT ![t] = new] /\ towers' = [towers EXCEPT ![t] = get_summary(new)]
      /\ lock' = lock
  BY <1>4 DEF update_tower_state
<1>6. \A i \in 1..Len(db[t].pending) : db[t].pending[i] # u
  BY <1>1 DEF ClientInv, HeldAreHanded
<1> HIDE DEF new
<1>7. TypeOK'
  <2>1. db' \in [Towers -> TowerInfo] /\ towers' \in [Towers -> TowerSummary]
    BY <1>1, <1>2, <1>3, <1>5 DEF ClientInv, MemoryIsDisk, TypeOK
  <2>2. queue' \in Seq(Towers)
    BY <1>1, <1>4, AppendProperties DEF ClientInv, MemoryIsDisk, TypeOK
  <2>3. handed' \in [Towers -> SUBSET Appts]
    BY <1>1, <1>4 DEF ClientInv, MemoryIsDisk, TypeOK
  <2> QED BY <2>1, <2>2, <2>3, <1>4, <1>5 DEF ClientInv, MemoryIsDisk, TypeOK, NoHook
<1>8. MemoryIsDisk'
  BY <1>1, <1>2, <1>4, <1>7, UpdateKeepsMemory DEF ClientInv
<1>9. /\ db'[t] = new /\ handed'[t] = handed[t] \cup {u}
      /\ \A x \in Towers : x # t => db'[x] = db[x] /\ handed'[x] = handed[x]
  BY <1>1, <1>4, <1>5 DEF ClientInv, MemoryIsDisk, TypeOK
<1>10. HeldAreHanded'
  <2>1. ASSUME NEW i \in 1..Len(new.pending)
        PROVE  new.pending[i] \in handed[t] \cup {u}
    <3>1. \A j \in 1..Len(db[t].pending) : db[t].pending[j] \in handed[t]
      BY <1>1 DEF ClientInv, HeldAreHanded
    <3> DEFINE p == db[t].pending
               h == handed[t]
    <3>2. p \in Seq(Appts) /\ u \in Appts /\ \A j \in 1..Len(p) : p[j] \in h
      BY <1>1, <3>1
    <3>3. new.pending = Append(p, u) \/ new.pending = p
      BY <1>2
    <3> HIDE DEF p, h, u
    <3>4. \A j \in 1..Len(Append(p, u)) : Append(p, u)[j] \in h \cup {u}
      BY <3>2, AppendProperties
    <3>5. new.pending[i] \in h \cup {u}
      BY <3>2, <3>3, <3>4
    <3> QED BY <3>5 DEF h
  <2>2. new.appointments \cup new.invalid \cup new.proof \subseteq handed[t] \cup {u}
    BY <1>1, <1>2 DEF ClientInv, HeldAreHanded
  <2>3. handed[t] \cup {u} \subseteq revoked'
    BY <1>1, <1>4 DEF ClientInv, HeldAreHanded
  <2> QED BY <1>4, <1>9, <2>1, <2>2, <2>3 DEF ClientInv, HeldAreHanded
<1>11. WaitOnce'
  <2>1. \A i, j \in 1..Len(new.pending) : new.pending[i] = new.pending[j] => i = j
    BY <1>1, <1>2, <1>6, OnceAppend DEF ClientInv, WaitOnce
  <2> QED BY <1>9, <2>1 DEF ClientInv, WaitOnce
<1>12. HookIsAhead'
  BY <1>1, <1>4, <1>9 DEF ClientInv, MemoryIsDisk, TypeOK, HookIsAhead, NoHook
<1>13. PassesAreInStep'
  <2> SUFFICES ASSUME NEW r \in Retriers
               PROVE  PassInStep(r)'
    BY DEF PassesAreInStep
  <2>1. PassInStep(r) /\ retry'[r] = retry[r]
    BY <1>4 DEF ClientInv, PassesAreInStep
  <2>2. CASE retry[r].step \in {"post", "update"} /\ retry[r].t = t
    <3> DEFINE l == retry[r].list
    <3>1. /\ \A i \in 1..Len(l) : l[i] \in handed[t]
          /\ InStep(l, db[t].pending)
      BY <2>1, <2>2 DEF PassInStep
    <3>2. l # <<>> /\ l \in Seq(Appts)
      BY <2>1, <2>2 DEF PassInStep, ClientInv, MemoryIsDisk, TypeOK
    <3>3. retry[r].step = "update" =>
             retry[r].answer \in {"accepted", "forged", "subscription", "invalid"}
      BY <2>1 DEF PassInStep
    <3>4. InStep(l, Append(db[t].pending, u))
      BY <1>1, <3>1, <3>2, InStepAppend
    <3>5. InStep(l, db'[t].pending)
      BY <1>2, <1>9, <3>1, <3>4
    <3>6. \A i \in 1..Len(l) : l[i] \in handed'[t]
      BY <1>9, <3>1
    <3> HIDE DEF l
    <3>7. /\ retry'[r].step \in {"post", "update"}
          /\ retry'[r].t = t /\ retry'[r].list = l /\ retry'[r].answer = retry[r].answer
      BY <2>1, <2>2 DEF l
    <3>8. retry'[r].step = "update" =>
             retry'[r].answer \in {"accepted", "forged", "subscription", "invalid"}
      BY <2>1, <3>3
    <3> QED BY <1>1, <3>2, <3>5, <3>6, <3>7, <3>8, PassBegun
  <2>3. CASE ~(retry[r].step \in {"post", "update"} /\ retry[r].t = t)
    <3>1. retry[r].step \in {"post", "update"} =>
             db'[retry[r].t] = db[retry[r].t] /\ handed'[retry[r].t] = handed[retry[r].t]
      BY <1>9, <2>1, <2>3 DEF PassInStep
    <3> QED BY <2>1, <3>1, PassUntouched
  <2> QED BY <2>2, <2>3
<1> QED BY <1>8, <1>10, <1>11, <1>12, <1>13 DEF ClientInv

(* The commands.                                                           *)
LEMMA RetryTowerStep ==
    ASSUME ClientInv, NEW t \in Towers, RetryTower(t)
    PROVE  ClientInv'
<1>1. RecordsAlone /\ UNCHANGED <<retry, hook>>
  BY DEF RetryTower, RecordsAlone
<1>2. TypeOK'
  <2>1. towers' \in [Towers -> TowerSummary]
    <3>1. towers[t] \in TowerSummary
      BY DEF ClientInv, MemoryIsDisk, TypeOK
    <3>2. [towers[t] EXCEPT !.status = "temporarily unreachable"] \in TowerSummary
      BY <3>1 DEF TowerSummary, Status
    <3> QED BY <3>2 DEF ClientInv, MemoryIsDisk, TypeOK, RetryTower
  <2>2. queue' \in Seq(Towers)
    BY AppendProperties DEF ClientInv, MemoryIsDisk, TypeOK, RetryTower
  <2> QED BY <2>1, <2>2 DEF ClientInv, MemoryIsDisk, TypeOK, RetryTower
<1>3. MemoryIsDisk'
  <2>1. /\ towers'[t].status = "temporarily unreachable"
        /\ towers'[t].pending = towers[t].pending
        /\ \A x \in Towers : x # t => towers'[x] = towers[x]
        /\ db' = db
    <3>1. towers \in [Towers -> TowerSummary] /\ db' = db
          /\ towers' = [towers EXCEPT ![t].status = "temporarily unreachable"]
      BY DEF ClientInv, MemoryIsDisk, TypeOK, RetryTower
    <3>2. /\ towers'[t] = [towers[t] EXCEPT !.status = "temporarily unreachable"]
          /\ \A x \in Towers : x # t => towers'[x] = towers[x]
      BY <3>1
    <3> QED BY <3>1, <3>2 DEF TowerSummary
  <2>2. towers[t].status \in {"unreachable", "subscription error"}
    BY DEF RetryTower
  <2>3. db[t].status \in {"unreachable", "subscription error"}
    BY <2>2 DEF ClientInv, MemoryIsDisk
  <2>4. ASSUME NEW x \in Towers, x # t
        PROVE  towers'[x] = towers[x] /\ db'[x] = db[x]
    BY <2>1, <2>4
  <2> QED BY <1>2, <2>1, <2>3, <2>4 DEF ClientInv, MemoryIsDisk
<1> QED BY <1>1, <1>3, AloneKeeps DEF ClientInv

LEMMA RetryUnknownStep ==
    ASSUME ClientInv, RetryUnknown
    PROVE  ClientInv'
<1>1. RecordsAlone /\ UNCHANGED <<retry, hook>>
  BY DEF RetryUnknown, RecordsAlone
<1>2. TypeOK'
  BY DEF ClientInv, MemoryIsDisk, TypeOK, RetryUnknown
<1>3. MemoryIsDisk'
  BY <1>2, MemoryAlone DEF ClientInv, RetryUnknown
<1> QED BY <1>1, <1>3, AloneKeeps DEF ClientInv

(* Nothing is out of step with an empty record.                            *)
LEMMA RegisterStep ==
    ASSUME ClientInv, NEW t \in Towers, Register(t)
    PROVE  ClientInv'
<1>1. /\ update_tower_state(t, Fresh) /\ db' = [db EXCEPT ![t] = Fresh]
      /\ towers' = [towers EXCEPT ![t] = get_summary(Fresh)] /\ lock' = lock
      /\ UNCHANGED <<queue, hook, retry, revoked, handed, restarts>>
  BY DEF Register, update_tower_state
<1>2. Fresh \in TowerInfo /\ get_summary(Fresh) \in TowerSummary
  BY FreshType, SummaryType
<1>3. TypeOK'
  BY <1>1, <1>2 DEF ClientInv, MemoryIsDisk, TypeOK
<1>4. MemoryIsDisk'
  BY <1>1, <1>2, <1>3, UpdateKeepsMemory DEF ClientInv
<1>5. /\ db'[t] = Fresh /\ \A x \in Towers : x # t => db'[x] = db[x]
      /\ Fresh.pending = <<>> /\ Len(<<>>) = 0
      /\ Fresh.appointments = {} /\ Fresh.invalid = {} /\ Fresh.proof = {}
  BY <1>1 DEF ClientInv, MemoryIsDisk, TypeOK, Fresh
<1>6. HeldAreHanded'
  BY <1>1, <1>5 DEF ClientInv, HeldAreHanded
<1>7. WaitOnce'
  BY <1>1, <1>5 DEF ClientInv, WaitOnce
<1>8. HookIsAhead'
  BY <1>1 DEF ClientInv, HookIsAhead, NoHook
<1>9. PassesAreInStep'
  <2>1. \A l : InStep(l, <<>>)
    BY <1>5 DEF InStep
  <2> SUFFICES ASSUME NEW r \in Retriers
               PROVE  PassInStep(r)'
    BY DEF PassesAreInStep
  <2>2. PassInStep(r) /\ retry'[r] = retry[r] /\ handed' = handed
    BY <1>1 DEF ClientInv, PassesAreInStep
  <2>3. CASE retry[r].t = t
    BY <1>5, <2>1, <2>2, <2>3 DEF PassInStep, InStep
  <2>4. CASE retry[r].t # t
    <3>1. retry[r].step \in {"post", "update"} => db'[retry[r].t] = db[retry[r].t]
      BY <1>5, <2>2, <2>4 DEF PassInStep
    <3> QED BY <2>2, <3>1, PassUntouched
  <2> QED BY <2>3, <2>4
<1> QED BY <1>4, <1>6, <1>7, <1>8, <1>9 DEF ClientInv

(* The Retrier.                                                            *)
LEMMA manage_retryStep ==
    ASSUME ClientInv, NEW r \in Retriers, manage_retry(r)
    PROVE  ClientInv'
<1>1. /\ RecordsAlone /\ UNCHANGED hook /\ queue # <<>> /\ queue' = Tail(queue)
      /\ retry' = [retry EXCEPT ![r] = [NoRetry EXCEPT !.step = "pass", !.t = Head(queue)]]
      /\ UNCHANGED <<towers, db, lock, hook, revoked, handed, restarts>>
  BY DEF manage_retry, RecordsAlone
<1>2. Head(queue) \in Towers /\ queue' \in Seq(Towers)
  BY <1>1, HeadTailProperties DEF ClientInv, MemoryIsDisk, TypeOK
<1> DEFINE new == [NoRetry EXCEPT !.step = "pass", !.t = Head(queue)]
<1>3. new \in RetryRecord /\ new.step = "pass" /\ new.t = Head(queue) /\ new.tries = 0
  <2>1. NoRetry \in RetryRecord /\ NoRetry.tries = 0
    BY NoRetryRecord DEF NoRetry
  <2> QED BY <1>2, <2>1 DEF RetryRecord
<1>5. TypeOK'
  BY <1>1, <1>2, <1>3 DEF ClientInv, MemoryIsDisk, TypeOK, RetryRecord
<1>6. retry'[r] = new /\ \A s \in Retriers : s # r => retry'[s] = retry[s]
  BY <1>1 DEF ClientInv, MemoryIsDisk, TypeOK
<1>7. PassesAreInStep'
  <2> SUFFICES ASSUME NEW s \in Retriers
               PROVE  PassInStep(s)'
    BY DEF PassesAreInStep
  <2>1. CASE s = r
    <3>1. 0 < MaxTries
      BY TriesType
    <3> QED BY <1>2, <1>3, <1>6, <2>1, <3>1 DEF PassInStep
  <2>2. CASE s # r
    BY <1>1, <1>6, <2>2, PassUntouched DEF ClientInv, PassesAreInStep
  <2> QED BY <2>1, <2>2
<1>8. MemoryIsDisk'
  BY <1>1, <1>5, MemoryAlone DEF ClientInv
<1> QED BY <1>1, <1>7, <1>8, AloneKeeps DEF ClientInv

(* The list of a pass is what is pending when it begins.                   *)
LEMMA BeginStep ==
    ASSUME ClientInv, NEW r \in Retriers, Begin(r)
    PROVE  ClientInv'
<1> DEFINE t == retry[r].t
           list == towers[t].pending
           new == IF list = <<>> THEN NoRetry
                  ELSE [retry[r] EXCEPT !.step = "post", !.list = list, !.tries = @ + 1]
<1>1. /\ RecordsAlone /\ retry[r].step = "pass"
      /\ retry' = [retry EXCEPT ![r] = new]
      /\ UNCHANGED <<towers, db, lock, queue, hook, revoked, handed, restarts>>
  <2>1. RecordsAlone /\ retry[r].step = "pass"
    BY DEF Begin, RecordsAlone
  <2>2. retry' = [retry EXCEPT ![r] = new]
    BY DEF Begin
  <2>3. UNCHANGED <<towers, db, lock, queue, hook, revoked, handed, restarts>>
    BY DEF Begin
  <2> QED BY <2>1, <2>2, <2>3
<1>2. /\ t \in Towers /\ retry[r].tries < MaxTries /\ retry[r].tries \in 0..MaxTries
      /\ list = db[t].pending /\ list \in Seq(Appts) /\ MaxTries \in Nat
  BY <1>1, TriesType
     DEF ClientInv, MemoryIsDisk, TypeOK, TowerSummary, PassesAreInStep, PassInStep
<1>3. new \in RetryRecord
  <2>1. retry[r].tries + 1 \in 0..MaxTries
    BY <1>2
  <2>2. retry[r] \in RetryRecord
    BY DEF RetryRecord, ClientInv, MemoryIsDisk, TypeOK
  <2> HIDE DEF list
  <2> QED BY <1>2, <2>1, <2>2, NoRetryRecord DEF RetryRecord
<1> HIDE DEF new
<1>4. retry'[r] = new /\ \A s \in Retriers : s # r => retry'[s] = retry[s]
  BY <1>1 DEF ClientInv, MemoryIsDisk, TypeOK
<1>5. TypeOK'
  BY <1>1, <1>3 DEF ClientInv, MemoryIsDisk, TypeOK, RetryRecord
<1>6. MemoryIsDisk'
  BY <1>1, <1>5, MemoryAlone DEF ClientInv
<1>7. PassesAreInStep'
  <2> SUFFICES ASSUME NEW s \in Retriers
               PROVE  PassInStep(s)'
    BY DEF PassesAreInStep
  <2>1. CASE s = r /\ list = <<>>
    BY <1>4, <2>1 DEF new, NoRetry, PassInStep
  <2>2. CASE s = r /\ list # <<>>
    <3> DEFINE l == list
    <3>1. retry'[s].step = "post" /\ retry'[s].t = t /\ retry'[s].list = l
      <4>1. retry[r] \in RetryRecord
        BY DEF RetryRecord, ClientInv, MemoryIsDisk, TypeOK
      <4>2. new = [retry[r] EXCEPT !.step = "post", !.list = l, !.tries = @ + 1]
        BY <2>2 DEF new
      <4> HIDE DEF l
      <4> QED BY <1>4, <2>2, <4>1, <4>2 DEF RetryRecord
    <3>2. \A i \in 1..Len(list) : list[i] \in handed[t]
      BY <1>2 DEF ClientInv, HeldAreHanded
    <3>3. InStep(list, db[t].pending)
      BY <1>2, InStepSelf DEF ClientInv, WaitOnce
    <3>4. l # <<>> /\ (\A i \in 1..Len(l) : l[i] \in handed'[t]) /\ InStep(l, db'[t].pending)
      BY <1>1, <2>2, <3>2, <3>3
    <3> HIDE DEF l
    <3> QED BY <1>2, <3>1, <3>4, PassBegun
  <2>3. CASE s # r
    BY <1>1, <1>4, <2>3, PassUntouched DEF ClientInv, PassesAreInStep
  <2> QED BY <2>1, <2>2, <2>3
<1> QED BY <1>1, <1>6, <1>7, AloneKeeps DEF ClientInv

LEMMA AnswerStep ==
    ASSUME ClientInv, NEW r \in Retriers, Answer(r)
    PROVE  ClientInv'
<1>1. /\ RecordsAlone /\ retry[r].step = "post"
      /\ UNCHANGED <<towers, db, lock, queue, hook, revoked, handed, restarts>>
  BY DEF Answer, RecordsAlone
<1>2. PICK a \in Answers :
          retry' = [retry EXCEPT ![r] =
              CASE a = "unexpected" -> NoRetry
                [] a = "unreachable" ->
                       [@ EXCEPT !.step = IF retry[r].tries = MaxTries THEN "give up" ELSE "pass",
                                 !.list = <<>>]
                [] OTHER -> [@ EXCEPT !.step = "update", !.answer = a]]
  BY DEF Answer
<1> DEFINE new == CASE a = "unexpected" -> NoRetry
                    [] a = "unreachable" ->
                           [retry[r] EXCEPT
                               !.step = IF retry[r].tries = MaxTries THEN "give up" ELSE "pass",
                               !.list = <<>>]
                    [] OTHER -> [retry[r] EXCEPT !.step = "update", !.answer = a]
<1>3. retry'[r] = new /\ \A s \in Retriers : s # r => retry'[s] = retry[s]
  BY <1>2 DEF ClientInv, MemoryIsDisk, TypeOK
<1>4. a \in Outcomes /\ PassInStep(r)
  BY WTClientAssumption DEF ClientInv, PassesAreInStep
<1>5. retry[r] \in RetryRecord
  BY DEF RetryRecord, ClientInv, MemoryIsDisk, TypeOK
<1>6. new \in RetryRecord
  <2>1. <<>> \in Seq(Appts)
    OBVIOUS
  <2>2. \A x \in {"give up", "pass"} : [retry[r] EXCEPT !.step = x, !.list = <<>>] \in RetryRecord
    BY <1>5, <2>1 DEF RetryRecord
  <2>3. [retry[r] EXCEPT !.step = "update", !.answer = a] \in RetryRecord
    BY <1>4, <1>5 DEF RetryRecord
  <2> QED BY <2>2, <2>3, NoRetryRecord
<1>7. TypeOK'
  <2>1. retry' = [retry EXCEPT ![r] = new]
    BY <1>2
  <2> HIDE DEF new
  <2> QED BY <1>1, <1>6, <2>1 DEF ClientInv, MemoryIsDisk, TypeOK, RetryRecord
<1>8. MemoryIsDisk'
  BY <1>1, <1>7, MemoryAlone DEF ClientInv
<1>9. PassesAreInStep'
  <2> SUFFICES ASSUME NEW s \in Retriers
               PROVE  PassInStep(s)'
    BY DEF PassesAreInStep
  <2>1. CASE s = r /\ a = "unexpected"
    BY <1>3, <2>1 DEF NoRetry, PassInStep
  <2>2. CASE s = r /\ a = "unreachable"
    <3>1. /\ retry'[r].step = (IF retry[r].tries = MaxTries THEN "give up" ELSE "pass")
          /\ retry'[r].t = retry[r].t /\ retry'[r].tries = retry[r].tries
      BY <1>3, <1>5, <2>2 DEF RetryRecord
    <3>2. retry[r].tries \in 0..MaxTries /\ MaxTries \in Nat /\ retry[r].t \in Towers
      BY <1>1, <1>4, <1>5, TriesType DEF PassInStep, RetryRecord
    <3>3. retry'[r].step = "pass" => retry'[r].tries < MaxTries
      <4>1. retry[r].tries # MaxTries => retry[r].tries < MaxTries
        BY <3>2
      <4> HIDE DEF new
      <4> QED BY <3>1, <4>1
    <3> QED BY <2>2, <3>1, <3>2, <3>3 DEF PassInStep
  <2>3. CASE s = r /\ a \notin {"unexpected", "unreachable"}
    <3>1. /\ retry'[r].step = "update" /\ retry'[r].t = retry[r].t
          /\ retry'[r].list = retry[r].list /\ retry'[r].answer = a
      BY <1>3, <1>5, <2>3 DEF RetryRecord
    <3>2. a \in {"accepted", "forged", "subscription", "invalid"}
      BY <1>4, <2>3 DEF Outcomes
    <3>3. retry[r].t \in Towers
      BY <1>1, <1>4 DEF PassInStep
    <3>4. /\ retry[r].list # <<>>
          /\ \A i \in 1..Len(retry[r].list) : retry[r].list[i] \in handed'[retry[r].t]
          /\ InStep(retry[r].list, db'[retry[r].t].pending)
      BY <1>1, <1>4 DEF PassInStep
    <3> QED BY <2>3, <3>1, <3>2, <3>3, <3>4, PassBegun
  <2>4. CASE s # r
    BY <1>1, <1>3, <2>4, PassUntouched DEF ClientInv, PassesAreInStep
  <2> QED BY <2>1, <2>2, <2>3, <2>4
<1> QED BY <1>1, <1>8, <1>9, AloneKeeps DEF ClientInv

(* What a thread holds after a delivery.                                   *)
LEMMA GoOnRecord ==
    ASSUME ClientInv, NEW r \in Retriers, retry[r].step = "update"
    PROVE  /\ GoOn(r) \in RetryRecord
           /\ \/ GoOn(r) = NoRetry
              \/ /\ retry[r].answer \in {"accepted", "invalid"}
                 /\ Tail(retry[r].list) # <<>>
                 /\ GoOn(r).step = "post" /\ GoOn(r).t = retry[r].t
                 /\ GoOn(r).list = Tail(retry[r].list)
<1>1. retry[r] \in RetryRecord
  BY DEF ClientInv, MemoryIsDisk, TypeOK, RetryRecord
<1>2. retry[r].list # <<>>
  BY DEF ClientInv, PassesAreInStep, PassInStep
<1> DEFINE l == Tail(retry[r].list)
<1>3. l \in Seq(Appts)
  BY <1>1, <1>2, TailItems DEF RetryRecord
<1>4. \/ GoOn(r) = NoRetry
      \/ /\ retry[r].answer \in {"accepted", "invalid"} /\ l # <<>>
         /\ GoOn(r) = [retry[r] EXCEPT !.step = "post", !.list = l, !.answer = "none"]
  BY DEF GoOn
<1> HIDE DEF l
<1>5. CASE GoOn(r) = NoRetry
  BY <1>5, NoRetryRecord
<1>6. CASE /\ retry[r].answer \in {"accepted", "invalid"} /\ l # <<>>
           /\ GoOn(r) = [retry[r] EXCEPT !.step = "post", !.list = l, !.answer = "none"]
  <2>1. /\ GoOn(r) \in RetryRecord
        /\ GoOn(r).step = "post" /\ GoOn(r).t = retry[r].t /\ GoOn(r).list = l
    BY <1>1, <1>3, <1>6 DEF RetryRecord
  <2> QED BY <1>6, <2>1 DEF l
<1> QED BY <1>4, <1>5, <1>6

(* What is not pending any more, because of a new registration or of       *)
(* another thread, costs the lock.                                         *)
LEMMA LockLostStep ==
    ASSUME ClientInv, NEW r \in Retriers,
           retry' = [retry EXCEPT ![r] = NoRetry],
           lock' \in {"free", "lost"},
           UNCHANGED <<towers, db, queue, hook, revoked, handed, restarts>>
    PROVE  ClientInv'
<1>1. RecordsAlone
  BY DEF RecordsAlone
<1>2. TypeOK'
  BY NoRetryRecord DEF ClientInv, MemoryIsDisk, TypeOK, RetryRecord
<1>3. MemoryIsDisk'
  BY <1>2, MemoryAlone DEF ClientInv
<1>4. retry'[r] = NoRetry /\ \A s \in Retriers : s # r => retry'[s] = retry[s]
  BY DEF ClientInv, MemoryIsDisk, TypeOK
<1>5. PassesAreInStep'
  <2> SUFFICES ASSUME NEW s \in Retriers
               PROVE  PassInStep(s)'
    BY DEF PassesAreInStep
  <2>1. CASE s = r
    BY <1>4, <2>1 DEF NoRetry, PassInStep
  <2>2. CASE s # r
    BY <1>4, <2>2, PassUntouched DEF ClientInv, PassesAreInStep
  <2> QED BY <2>1, <2>2
<1> QED BY <1>1, <1>3, <1>5, AloneKeeps DEF ClientInv

(* A delivery takes the first of the pending ones, or says that there is   *)
(* no subscription.                                                        *)
LEMMA DeliveryRecord ==
    ASSUME ClientInv, NEW r \in Retriers, retry[r].step = "update",
           retry[r].answer = "subscription"
               \/ Contains(db[retry[r].t].pending, Head(retry[r].list))
    PROVE  /\ retry[r].t \in Towers
           /\ retry[r].list # <<>> /\ retry[r].list \in Seq(Appts)
           /\ Head(retry[r].list) \in Appts
           /\ Head(retry[r].list) \in handed[retry[r].t]
           /\ retry[r].answer \in {"accepted", "forged", "subscription", "invalid"}
           /\ db[retry[r].t] \in TowerInfo /\ db[retry[r].t].pending \in Seq(Appts)
           /\ InStep(retry[r].list, db[retry[r].t].pending)
           /\ \/ retry[r].answer = "subscription"
              \/ /\ db[retry[r].t].pending # <<>>
                 /\ Head(retry[r].list) = Head(db[retry[r].t].pending)
<1> DEFINE t == retry[r].t
           l == retry[r].list
           p == db[t].pending
<1>1. /\ t \in Towers /\ l # <<>> /\ l \in Seq(Appts)
      /\ retry[r].answer \in {"accepted", "forged", "subscription", "invalid"}
      /\ \A i \in 1..Len(l) : l[i] \in handed[t]
      /\ InStep(l, p)
  BY DEF ClientInv, MemoryIsDisk, TypeOK, PassesAreInStep, PassInStep
<1>2. db[t] \in TowerInfo /\ p \in Seq(Appts)
  BY <1>1 DEF ClientInv, MemoryIsDisk, TypeOK, TowerInfo
<1>3. 1 \in 1..Len(l) /\ Head(l) = l[1] /\ Head(l) \in Appts
  BY <1>1, TailItems
<1>4. retry[r].answer = "subscription" \/ (p # <<>> /\ Head(l) = Head(p))
  <2> HIDE DEF l, p
  <2>1. Contains(p, Head(l)) => p # <<>> /\ Head(l) = Head(p)
    BY <1>1, <1>2, InStepHead
  <2> QED BY <2>1 DEF l, p
<1> QED BY <1>1, <1>2, <1>3, <1>4

LEMMA SettleStep ==
    ASSUME ClientInv, NEW r \in Retriers, retry[r].step = "update",
           retry[r].answer = "subscription"
               \/ Contains(db[retry[r].t].pending, Head(retry[r].list)),
           Deliver(r)
    PROVE  ClientInv'
<1> DEFINE t == retry[r].t
           l == retry[r].list
           u == Head(l)
           p == db[t].pending
           a == retry[r].answer
           new == RetryUpdate(db[t], u, a)
<1>1. /\ t \in Towers /\ l # <<>> /\ l \in Seq(Appts) /\ u \in Appts /\ u \in handed[t]
      /\ a \in {"accepted", "forged", "subscription", "invalid"}
      /\ db[t] \in TowerInfo /\ p \in Seq(Appts) /\ InStep(l, p)
      /\ a = "subscription" \/ (p # <<>> /\ u = Head(p))
  BY DeliveryRecord
<1>2. /\ new \in TowerInfo
      /\ new.pending = IF a = "subscription" THEN p ELSE Tail(p)
      /\ new.appointments = IF a = "accepted" THEN db[t].appointments \cup {u}
                            ELSE db[t].appointments
      /\ new.invalid = IF a = "invalid" THEN db[t].invalid \cup {u} ELSE db[t].invalid
      /\ new.proof = IF a = "forged" THEN {u} ELSE db[t].proof
  <2> HIDE DEF t, u, a
  <2> QED BY <1>1, RetryUpdateRecord
<1>3. update_tower_state(t, new) /\ retry' = [retry EXCEPT ![r] = GoOn(r)]
      /\ UNCHANGED <<queue, hook, revoked, handed, restarts>>
  BY DEF Deliver
<1> HIDE DEF new
<1>4. /\ db' = [db EXCEPT ![t] = new] /\ towers' = [towers EXCEPT ![t] = get_summary(new)]
      /\ lock' = lock
  BY <1>3 DEF update_tower_state
<1>5. GoOn(r) \in RetryRecord /\ get_summary(new) \in TowerSummary
  BY <1>2, GoOnRecord, SummaryType
<1>6. TypeOK'
  BY <1>1, <1>2, <1>3, <1>4, <1>5 DEF ClientInv, MemoryIsDisk, TypeOK, RetryRecord
<1>7. MemoryIsDisk'
  BY <1>1, <1>2, <1>3, <1>6, UpdateKeepsMemory DEF ClientInv
<1>8. /\ db'[t] = new /\ \A x \in Towers : x # t => db'[x] = db[x]
      /\ retry'[r] = GoOn(r) /\ \A s \in Retriers : s # r => retry'[s] = retry[s]
      /\ handed' = handed /\ revoked' = revoked
  BY <1>1, <1>3, <1>4 DEF ClientInv, MemoryIsDisk, TypeOK
<1>9. HeldAreHanded'
  <2>1. \A i \in 1..Len(p) : p[i] \in handed[t]
    BY <1>1 DEF ClientInv, HeldAreHanded
  <2>2. \A i \in 1..Len(new.pending) : new.pending[i] \in handed[t]
    <3>1. CASE a = "subscription"
      BY <1>2, <2>1, <3>1
    <3>2. CASE a # "subscription"
      <4> DEFINE h == handed[t]
      <4>1. \A i \in 1..Len(p) : p[i] \in h
        BY <2>1
      <4> HIDE DEF p, h
      <4>2. \A i \in 1..Len(Tail(p)) : Tail(p)[i] \in h
        BY <1>1, <3>2, <4>1, TailItems
      <4> QED BY <1>2, <3>2, <4>2 DEF h
    <3> QED BY <3>1, <3>2
  <2>3. new.appointments \cup new.invalid \cup new.proof \subseteq handed[t]
    <3>1. db[t].appointments \cup db[t].invalid \cup db[t].proof \subseteq handed[t]
      BY <1>1 DEF ClientInv, HeldAreHanded
    <3> QED BY <1>1, <1>2, <3>1
  <2> QED BY <1>8, <2>2, <2>3 DEF ClientInv, HeldAreHanded
<1>10. WaitOnce'
  <2>1. \A i, j \in 1..Len(p) : p[i] = p[j] => i = j
    BY <1>1 DEF ClientInv, WaitOnce
  <2>2. \A i, j \in 1..Len(new.pending) : new.pending[i] = new.pending[j] => i = j
    <3> HIDE DEF p
    <3>1. a # "subscription" =>
             \A i, j \in 1..Len(Tail(p)) : Tail(p)[i] = Tail(p)[j] => i = j
      BY <1>1, <2>1, OnceTail
    <3> QED BY <1>2, <2>1, <3>1
  <2> QED BY <1>8, <2>2 DEF ClientInv, WaitOnce
<1>11. HookIsAhead'
  BY <1>3 DEF ClientInv, HookIsAhead, NoHook
<1>12. PassesAreInStep'
  <2> SUFFICES ASSUME NEW s \in Retriers
               PROVE  PassInStep(s)'
    BY DEF PassesAreInStep
  <2>1. CASE s = r /\ GoOn(r) = NoRetry
    BY <1>8, <2>1 DEF NoRetry, PassInStep
  <2>2. CASE s = r /\ GoOn(r) # NoRetry
    <3>1. /\ a \in {"accepted", "invalid"} /\ Tail(l) # <<>>
          /\ GoOn(r).step = "post" /\ GoOn(r).t = t /\ GoOn(r).list = Tail(l)
      BY <2>2, GoOnRecord
    <3>2. \A i \in 1..Len(l) : l[i] \in handed[t]
      BY DEF ClientInv, PassesAreInStep, PassInStep
    <3>3. \A i \in 1..Len(Tail(l)) : Tail(l)[i] \in handed'[t]
      <4> DEFINE h == handed[t]
      <4>1. \A i \in 1..Len(l) : l[i] \in h
        BY <3>2
      <4> HIDE DEF l, h
      <4>2. \A i \in 1..Len(Tail(l)) : Tail(l)[i] \in h
        BY <1>1, <4>1, TailItems
      <4> QED BY <1>8, <4>2 DEF h
    <3>4. InStep(Tail(l), db'[t].pending)
      <4>1. p # <<>> /\ db'[t].pending = Tail(p)
        BY <1>1, <1>2, <1>8, <3>1
      <4> HIDE DEF l, p
      <4> QED BY <1>1, <4>1, InStepTails
    <3> QED BY <1>1, <1>8, <2>2, <3>1, <3>3, <3>4, PassBegun
  <2>3. CASE s # r /\ retry[s].step \in {"post", "update"} /\ retry[s].t = t
    <3> DEFINE k == retry[s].list
    <3>1. /\ k # <<>> /\ k \in Seq(Appts) /\ InStep(k, p)
          /\ \A i \in 1..Len(k) : k[i] \in handed[t]
          /\ retry[s].step = "update" =>
                retry[s].answer \in {"accepted", "forged", "subscription", "invalid"}
      BY <2>3 DEF ClientInv, MemoryIsDisk, TypeOK, PassesAreInStep, PassInStep
    <3>2. InStep(k, db'[t].pending)
      <4>1. \/ db'[t].pending = p
            \/ p # <<>> /\ db'[t].pending = Tail(p)
        BY <1>1, <1>2, <1>8
      <4> HIDE DEF k, p
      <4> QED BY <1>1, <3>1, <4>1, InStepTail
    <3> QED BY <1>1, <1>8, <2>3, <3>1, <3>2, PassBegun
  <2>4. CASE s # r /\ ~(retry[s].step \in {"post", "update"} /\ retry[s].t = t)
    <3>1. retry[s].step \in {"post", "update"} => db'[retry[s].t] = db[retry[s].t]
      BY <1>8, <2>4 DEF ClientInv, PassesAreInStep, PassInStep
    <3> QED BY <1>8, <2>4, <3>1, PassUntouched DEF ClientInv, PassesAreInStep
  <2> QED BY <2>1, <2>2, <2>3, <2>4
<1> QED BY <1>7, <1>9, <1>10, <1>11, <1>12 DEF ClientInv

LEMMA DeliverStep ==
    ASSUME ClientInv, NEW r \in Retriers, Deliver(r)
    PROVE  ClientInv'
<1>1. retry[r].step = "update"
  BY DEF Deliver
<1>2. CASE retry[r].answer = "subscription"
              \/ Contains(db[retry[r].t].pending, Head(retry[r].list))
  BY <1>1, <1>2, SettleStep
<1>3. CASE ~(retry[r].answer = "subscription"
               \/ Contains(db[retry[r].t].pending, Head(retry[r].list)))
  <2>1. /\ retry' = [retry EXCEPT ![r] = NoRetry] /\ lock' = "lost"
        /\ UNCHANGED <<towers, db, queue, hook, revoked, handed, restarts>>
    BY <1>3 DEF Deliver
  <2> QED BY <2>1, LockLostStep
<1> QED BY <1>2, <1>3

(* Only the status is changed.                                             *)
LEMMA on_giveupStep ==
    ASSUME ClientInv, NEW r \in Retriers, on_giveup(r)
    PROVE  ClientInv'
<1> DEFINE t == retry[r].t
           new == [db[t] EXCEPT !.status = "unreachable"]
<1>1. t \in Towers /\ db[t] \in TowerInfo
  BY DEF ClientInv, MemoryIsDisk, TypeOK, PassesAreInStep, PassInStep, on_giveup
<1>2. /\ new \in TowerInfo /\ new.pending = db[t].pending
      /\ new.appointments = db[t].appointments /\ new.invalid = db[t].invalid
      /\ new.proof = db[t].proof
  BY <1>1 DEF TowerInfo, Status
<1>3. update_tower_state(t, new) /\ retry' = [retry EXCEPT ![r] = NoRetry]
      /\ UNCHANGED <<queue, hook, revoked, handed, restarts>>
  BY DEF on_giveup
<1> HIDE DEF new
<1>4. /\ db' = [db EXCEPT ![t] = new] /\ towers' = [towers EXCEPT ![t] = get_summary(new)]
      /\ lock' = lock
  BY <1>3 DEF update_tower_state
<1>5. get_summary(new) \in TowerSummary
  BY <1>2, SummaryType
<1>6. TypeOK'
  BY <1>1, <1>2, <1>3, <1>4, <1>5, NoRetryRecord
     DEF ClientInv, MemoryIsDisk, TypeOK, RetryRecord
<1>7. MemoryIsDisk'
  BY <1>1, <1>2, <1>3, <1>6, UpdateKeepsMemory DEF ClientInv
<1>8. /\ \A x \in Towers : /\ db'[x].pending = db[x].pending
                          /\ db'[x].appointments = db[x].appointments
                          /\ db'[x].invalid = db[x].invalid /\ db'[x].proof = db[x].proof
      /\ retry'[r] = NoRetry /\ \A s \in Retriers : s # r => retry'[s] = retry[s]
      /\ handed' = handed /\ revoked' = revoked
  BY <1>1, <1>2, <1>3, <1>4 DEF ClientInv, MemoryIsDisk, TypeOK
<1>9. HeldAreHanded' /\ WaitOnce'
  BY <1>8 DEF ClientInv, HeldAreHanded, WaitOnce
<1>10. HookIsAhead'
  BY <1>3 DEF ClientInv, HookIsAhead, NoHook
<1>11. PassesAreInStep'
  <2> SUFFICES ASSUME NEW s \in Retriers
               PROVE  PassInStep(s)'
    BY DEF PassesAreInStep
  <2>1. CASE s = r
    BY <1>8, <2>1 DEF NoRetry, PassInStep
  <2>2. CASE s # r
    <3>1. PassInStep(s) /\ (retry[s].step # "idle" => retry[s].t \in Towers)
      BY DEF ClientInv, PassesAreInStep, PassInStep
    <3> QED BY <1>8, <2>2, <3>1, PassUntouched
  <2> QED BY <2>1, <2>2
<1> QED BY <1>7, <1>9, <1>10, <1>11 DEF ClientInv

LEMMA RestartStep ==
    ASSUME ClientInv, Restart
    PROVE  ClientInv'
<1>1. RecordsAlone
  BY DEF Restart, RecordsAlone
<1>2. TypeOK'
  <2>1. towers' \in [Towers -> TowerSummary]
    BY SummaryType DEF ClientInv, MemoryIsDisk, TypeOK, Restart
  <2>2. retry' \in [Retriers -> RetryRecord]
    BY NoRetryRecord DEF Restart
  <2>3. restarts' \in 0..MaxRestarts
    <3>1. MaxRestarts \in Nat
      BY WTClientAssumption
    <3>2. restarts \in 0..MaxRestarts /\ restarts < MaxRestarts /\ restarts' = restarts + 1
      BY DEF ClientInv, MemoryIsDisk, TypeOK, Restart
    <3> QED BY <3>1, <3>2
  <2>4. queue' \in Seq(Towers) /\ lock' \in {"free", "lost"}
    BY DEF Restart
  <2> QED BY <2>1, <2>2, <2>3, <2>4
         DEF ClientInv, MemoryIsDisk, TypeOK, Restart, RetryRecord, NoHook
<1>3. MemoryIsDisk'
  <2>1. \A t \in Towers : towers'[t] = get_summary(db[t]) /\ db' = db /\ db[t] \in TowerInfo
    BY DEF ClientInv, MemoryIsDisk, TypeOK, Restart
  <2> QED BY <1>2, <2>1, SummaryType DEF MemoryIsDisk
<1>4. HookIsAhead'
  BY DEF HookIsAhead, NoHook, Restart
<1>5. PassesAreInStep'
  BY DEF PassesAreInStep, PassInStep, NoRetry, Restart
<1> QED BY <1>1, <1>3, <1>4, <1>5, AloneKeeps DEF ClientInv

LEMMA InitInv == Init => ClientInv
<1> SUFFICES ASSUME Init PROVE ClientInv
  OBVIOUS
<1>1. Fresh \in TowerInfo /\ get_summary(Fresh) \in TowerSummary
  BY FreshType, SummaryType
<1>2. TypeOK
  <2>1. restarts \in 0..MaxRestarts
    <3>1. MaxRestarts \in Nat
      BY WTClientAssumption
    <3> QED BY <3>1 DEF Init
  <2>2. retry \in [Retriers -> RetryRecord]
    BY NoRetryRecord DEF Init
  <2>3. queue \in Seq(Towers)
    BY DEF Init
  <2> QED BY <1>1, <2>1, <2>2, <2>3 DEF Init, TypeOK, RetryRecord, NoHook
<1>3. MemoryIsDisk
  BY <1>1, <1>2, SummaryType DEF Init, MemoryIsDisk
<1>4. HeldAreHanded /\ WaitOnce
  <2>1. /\ Fresh.pending = <<>> /\ Len(<<>>) = 0 /\ Fresh.appointments = {}
        /\ Fresh.invalid = {} /\ Fresh.proof = {}
    BY DEF Fresh
  <2> QED BY <2>1 DEF Init, HeldAreHanded, WaitOnce
<1>5. HookIsAhead
  BY DEF Init, HookIsAhead, NoHook
<1>6. PassesAreInStep
  BY DEF Init, PassesAreInStep, PassInStep, NoRetry
<1> QED BY <1>3, <1>4, <1>5, <1>6 DEF ClientInv

LEMMA StepInv == ClientInv /\ [Next]_vars => ClientInv'
<1> SUFFICES ASSUME ClientInv, [Next]_vars PROVE ClientInv'
  OBVIOUS
<1>1. ASSUME NEW u \in Appts, Revoke(u) PROVE ClientInv'
  BY <1>1, RevokeStep
<1>2. CASE HookThread
  BY <1>2, VisitStep, HookAnswerStep, TellStep, HookDoneStep DEF HookThread
<1>3. ASSUME NEW t \in Towers, RetryTower(t) \/ Register(t) PROVE ClientInv'
  BY <1>3, RetryTowerStep, RegisterStep
<1>4. CASE RetryUnknown
  BY <1>4, RetryUnknownStep
<1>5. ASSUME NEW r \in Retriers, manage_retry(r) \/ RetryThread(r) PROVE ClientInv'
  BY <1>5, manage_retryStep, BeginStep, AnswerStep, DeliverStep, on_giveupStep DEF RetryThread
<1>6. CASE Restart
  BY <1>6, RestartStep
<1>7. CASE UNCHANGED vars
  <2>1. RecordsAlone /\ UNCHANGED <<hook, retry>>
    BY <1>7 DEF vars, RecordsAlone
  <2>2. TypeOK'
    BY <1>7 DEF vars, ClientInv, MemoryIsDisk, TypeOK
  <2>3. MemoryIsDisk'
    BY <1>7, <2>2, MemoryAlone DEF vars, ClientInv
  <2> QED BY <2>1, <2>3, AloneKeeps DEF ClientInv
<1> QED BY <1>1, <1>2, <1>3, <1>4, <1>5, <1>6, <1>7 DEF Next

(* The threads of the client keep the lists they go through in step with   *)
(* the pending appointments, and its records those of the commitments the  *)
(* hook has dealt with.                                                    *)
THEOREM ClientInvariance == Spec => []ClientInv
<1> QED BY InitInv, StepInv, PTL DEF Spec

(* TowerInfo and TowerSummary agree, in every state, for any number of     *)
(* towers, appointments and threads.                                       *)
THEOREM MemoryIsDiskHolds == Spec => []MemoryIsDisk
<1>1. ClientInv => MemoryIsDisk
  BY DEF ClientInv
<1> QED BY <1>1, ClientInvariance, PTL

-----------------------------------------------------------------------------
(* The client implements its outbox.                                       *)

Pending == [t \in Towers |-> db[t].pending]

Settled == [t \in Towers |-> [v \in {"accepted", "invalid", "proof"} |->
               CASE v = "accepted" -> db[t].appointments
                 [] v = "invalid" -> db[t].invalid
                 [] v = "proof" -> db[t].proof]]

(* What the outbox sees of a step.                                         *)
LEMMA SeesNothing ==
    ASSUME \A t \in Towers : /\ db'[t].pending = db[t].pending
                             /\ db'[t].appointments = db[t].appointments
                             /\ db'[t].invalid = db[t].invalid
                             /\ db'[t].proof = db[t].proof
    PROVE  UNCHANGED Outbox!vars
<1>1. Pending' = Pending
  BY DEF Pending
<1>2. Settled' = Settled
  BY DEF Settled
<1> QED BY <1>1, <1>2 DEF Outbox!vars, Pending, Settled

(* What an outbox holds for a tower the hook has dealt with.               *)
LEMMA OutboxHeld ==
    ASSUME ClientInv, NEW t \in Towers
    PROVE  Outbox!Held(t) \subseteq handed[t]
<1>1. db[t].pending \in Seq(Appts)
  BY DEF ClientInv, MemoryIsDisk, TypeOK, TowerInfo
<1>2. Outbox!Range(Pending[t]) \subseteq handed[t]
  <2>1. DOMAIN db[t].pending = 1..Len(db[t].pending)
    BY <1>1
  <2> QED BY <2>1 DEF Pending, Outbox!Range, ClientInv, HeldAreHanded
<1>3. \A v \in {"accepted", "invalid", "proof"} : Settled[t][v] \subseteq handed[t]
  BY DEF Settled, ClientInv, HeldAreHanded
<1>4. Outbox!Held(t) = Outbox!Range(Pending[t])
                          \cup UNION {Settled[t][v] : v \in {"accepted", "invalid", "proof"}}
  BY DEF Outbox!Held, Outbox!Verdicts, Pending, Settled
<1> QED BY <1>2, <1>3, <1>4

LEMMA SeesPostponed ==
    ASSUME ClientInv, NEW t \in Towers, NEW u \in Appts, u \notin handed[t],
           \A x \in Towers : x # t => db'[x] = db[x],
           db'[t].pending = Append(db[t].pending, u),
           db'[t].appointments = db[t].appointments,
           db'[t].invalid = db[t].invalid, db'[t].proof = db[t].proof
    PROVE  Outbox!Next
<1>1. u \notin Outbox!Held(t)
  BY OutboxHeld
<1>2. Pending' = [Pending EXCEPT ![t] = Append(@, u)]
  BY DEF Pending
<1>3. Settled' = Settled
  BY DEF Settled
<1>4. Outbox!Postpone(t, u)
  BY <1>1, <1>2, <1>3 DEF Outbox!Postpone, Pending, Settled
<1> QED BY <1>4 DEF Outbox!Next

LEMMA SeesSettled ==
    ASSUME ClientInv, NEW t \in Towers, NEW u \in Appts,
           NEW v \in {"accepted", "invalid", "proof"},
           \A x \in Towers : x # t => db'[x] = db[x],
           \/ u \notin handed[t] /\ db'[t].pending = db[t].pending
           \/ /\ db[t].pending # <<>> /\ u = Head(db[t].pending)
              /\ db'[t].pending = Tail(db[t].pending),
           db'[t].appointments = IF v = "accepted" THEN db[t].appointments \cup {u}
                                 ELSE db[t].appointments,
           db'[t].invalid = IF v = "invalid" THEN db[t].invalid \cup {u} ELSE db[t].invalid,
           db'[t].proof = IF v = "proof" THEN {u} ELSE db[t].proof
    PROVE  Outbox!Next
<1>1. \/ u \notin Outbox!Held(t) /\ Pending' = Pending
      \/ /\ Pending[t] # <<>> /\ u = Head(Pending[t])
         /\ Pending' = [Pending EXCEPT ![t] = Tail(@)]
  BY OutboxHeld DEF Pending
<1>2. Settled' = [Settled EXCEPT ![t][v] = IF v = "proof" THEN {u} ELSE @ \cup {u}]
  <2> DEFINE new == [Settled[t] EXCEPT ![v] = IF v = "proof" THEN {u} ELSE @ \cup {u}]
  <2>1. Settled'[t] = new
    BY DEF Settled
  <2>2. \A x \in Towers : x # t => Settled'[x] = Settled[x]
    BY DEF Settled
  <2>3. Settled = [x \in Towers |-> Settled[x]] /\ Settled' = [x \in Towers |-> Settled'[x]]
    BY DEF Settled
  <2> QED BY <2>1, <2>2, <2>3
<1>3. Outbox!Settle(t, u, v)
  BY <1>1, <1>2 DEF Outbox!Settle, Pending, Settled
<1> QED BY <1>3 DEF Outbox!Next, Outbox!Verdicts

LEMMA SeesRenewed ==
    ASSUME NEW t \in Towers,
           \A x \in Towers : x # t => db'[x] = db[x], db'[t] = Fresh
    PROVE  Outbox!Next
<1> DEFINE none == [v \in {"accepted", "invalid", "proof"} |-> {}]
<1>0. /\ db'[t].pending = <<>> /\ db'[t].appointments = {}
      /\ db'[t].invalid = {} /\ db'[t].proof = {}
  BY DEF Fresh
<1>1. Pending' = [Pending EXCEPT ![t] = <<>>]
  <2>1. Pending'[t] = <<>> /\ \A x \in Towers : x # t => Pending'[x] = Pending[x]
    BY <1>0 DEF Pending
  <2>2. Pending = [x \in Towers |-> Pending[x]] /\ Pending' = [x \in Towers |-> Pending'[x]]
    BY DEF Pending
  <2> QED BY <2>1, <2>2
<1>2. Settled' = [Settled EXCEPT ![t] = none]
  <2>1. Settled'[t] = none /\ \A x \in Towers : x # t => Settled'[x] = Settled[x]
    BY <1>0 DEF Settled
  <2>2. Settled = [x \in Towers |-> Settled[x]] /\ Settled' = [x \in Towers |-> Settled'[x]]
    BY DEF Settled
  <2> QED BY <2>1, <2>2
<1>3. Outbox!Renew(t)
  BY <1>1, <1>2 DEF Outbox!Renew, Outbox!Nothing, Outbox!Verdicts, Pending, Settled
<1> QED BY <1>3 DEF Outbox!Next

LEMMA OutboxInit == Init => Outbox!Init
<1> SUFFICES ASSUME Init PROVE Outbox!Init
  OBVIOUS
<1>1. \A t \in Towers : /\ db[t].pending = <<>> /\ db[t].appointments = {}
                        /\ db[t].invalid = {} /\ db[t].proof = {}
  BY DEF Init, Fresh
<1>2. Pending = [t \in Towers |-> <<>>]
  BY <1>1 DEF Pending
<1>3. Settled = [t \in Towers |-> [v \in {"accepted", "invalid", "proof"} |-> {}]]
  BY <1>1 DEF Settled
<1> QED BY <1>2, <1>3 DEF Outbox!Init, Outbox!Nothing, Outbox!Verdicts, Pending, Settled

(* The hook postpones, settles or, after an unexpected answer, does        *)
(* nothing for the tower.                                                  *)
LEMMA TellIsOutbox ==
    ASSUME ClientInv, Tell
    PROVE  Outbox!Next \/ UNCHANGED Outbox!vars
<1> DEFINE t == hook.t
           u == hook.u
           a == hook.answer
           new == HookUpdate(db[t], u, a)
<1>1. /\ t \in Towers /\ u \in Appts /\ u \notin handed[t] /\ db[t] \in TowerInfo
      /\ a \in Outcomes \cup {"none", "not sent"}
  BY DEF ClientInv, MemoryIsDisk, TypeOK, HookIsAhead, Tell
<1>2. /\ new.pending = IF a \in {"not sent", "unreachable", "subscription"}
                       THEN Append(db[t].pending, u) ELSE db[t].pending
      /\ new.appointments = IF a = "accepted" THEN db[t].appointments \cup {u}
                            ELSE db[t].appointments
      /\ new.invalid = IF a = "invalid" THEN db[t].invalid \cup {u} ELSE db[t].invalid
      /\ new.proof = IF a = "forged" THEN {u} ELSE db[t].proof
  <2> DEFINE i == db[t]
  <2>1. i \in TowerInfo /\ u \in Appts /\ a \in Outcomes \cup {"none", "not sent"}
    BY <1>1
  <2> HIDE DEF i, t, u, a
  <2>2. /\ HookUpdate(i, u, a).pending = IF a \in {"not sent", "unreachable", "subscription"}
                                         THEN Append(i.pending, u) ELSE i.pending
        /\ HookUpdate(i, u, a).appointments = IF a = "accepted" THEN i.appointments \cup {u}
                                              ELSE i.appointments
        /\ HookUpdate(i, u, a).invalid = IF a = "invalid" THEN i.invalid \cup {u} ELSE i.invalid
        /\ HookUpdate(i, u, a).proof = IF a = "forged" THEN {u} ELSE i.proof
    BY <2>1, HookUpdateRecord
  <2> QED BY <2>2 DEF i
<1>3. db' = [db EXCEPT ![t] = new]
  BY DEF Tell, update_tower_state
<1> HIDE DEF new
<1>4. db'[t] = new /\ \A x \in Towers : x # t => db'[x] = db[x]
  <2>1. db \in [Towers -> TowerInfo]
    BY DEF ClientInv, MemoryIsDisk, TypeOK
  <2> HIDE DEF t
  <2> QED BY <1>1, <1>3, <2>1
<1>5. CASE a \in {"not sent", "unreachable", "subscription"}
  BY <1>1, <1>2, <1>4, <1>5, SeesPostponed
<1>6. CASE a = "accepted"
  BY <1>1, <1>2, <1>4, <1>6, SeesSettled
<1>7. CASE a = "invalid"
  BY <1>1, <1>2, <1>4, <1>7, SeesSettled
<1>8. CASE a = "forged"
  <2>1. "proof" \in {"accepted", "invalid", "proof"}
    OBVIOUS
  <2> QED BY <1>1, <1>2, <1>4, <1>8, <2>1, SeesSettled
<1>9. CASE a \in {"none", "unexpected"}
  BY <1>1, <1>2, <1>4, <1>9, SeesNothing
<1> QED BY <1>1, <1>5, <1>6, <1>7, <1>8, <1>9 DEF Outcomes

(* A retry settles the first of the pending ones or only sets the status.  *)
LEMMA DeliverIsOutbox ==
    ASSUME ClientInv, NEW r \in Retriers, Deliver(r)
    PROVE  Outbox!Next \/ UNCHANGED Outbox!vars
<1> DEFINE t == retry[r].t
           u == Head(retry[r].list)
           a == retry[r].answer
           new == RetryUpdate(db[t], u, a)
<1>1. CASE ~(a = "subscription" \/ Contains(db[t].pending, u))
  <2>1. db' = db
    BY <1>1 DEF Deliver
  <2> QED BY <2>1, SeesNothing
<1>2. CASE a = "subscription" \/ Contains(db[t].pending, u)
  <2>1. retry[r].step = "update"
    BY DEF Deliver
  <2>2. /\ t \in Towers /\ u \in Appts /\ db[t] \in TowerInfo
        /\ a \in {"accepted", "forged", "subscription", "invalid"}
        /\ a = "subscription" \/ (db[t].pending # <<>> /\ u = Head(db[t].pending))
    BY <1>2, <2>1, DeliveryRecord
  <2>3. /\ new.pending = IF a = "subscription" THEN db[t].pending ELSE Tail(db[t].pending)
        /\ new.appointments = IF a = "accepted" THEN db[t].appointments \cup {u}
                              ELSE db[t].appointments
        /\ new.invalid = IF a = "invalid" THEN db[t].invalid \cup {u} ELSE db[t].invalid
        /\ new.proof = IF a = "forged" THEN {u} ELSE db[t].proof
    <3> HIDE DEF t, u, a
    <3> QED BY <2>2, RetryUpdateRecord
  <2>4. db' = [db EXCEPT ![t] = new]
    BY <1>2 DEF Deliver, update_tower_state
  <2> HIDE DEF new
  <2>5. db'[t] = new /\ \A x \in Towers : x # t => db'[x] = db[x]
    BY <2>2, <2>4 DEF ClientInv, MemoryIsDisk, TypeOK
  <2>6. CASE a = "subscription"
    BY <2>2, <2>3, <2>5, <2>6, SeesNothing
  <2>7. CASE a = "accepted"
    BY <2>2, <2>3, <2>5, <2>7, SeesSettled
  <2>8. CASE a = "invalid"
    BY <2>2, <2>3, <2>5, <2>8, SeesSettled
  <2>9. CASE a = "forged"
    <3>1. "proof" \in {"accepted", "invalid", "proof"}
      OBVIOUS
    <3> QED BY <2>2, <2>3, <2>5, <2>9, <3>1, SeesSettled
  <2> QED BY <2>2, <2>6, <2>7, <2>8, <2>9
<1> QED BY <1>1, <1>2

LEMMA on_giveupIsOutbox ==
    ASSUME ClientInv, NEW r \in Retriers, on_giveup(r)
    PROVE  UNCHANGED Outbox!vars
<1>1. retry[r].t \in Towers
  BY DEF ClientInv, PassesAreInStep, PassInStep, on_giveup
<1>2. \A x \in Towers : db[x] \in TowerInfo
  BY DEF ClientInv, MemoryIsDisk, TypeOK
<1>3. db' = [db EXCEPT ![retry[r].t] = [db[retry[r].t] EXCEPT !.status = "unreachable"]]
  BY DEF on_giveup, update_tower_state
<1>4. \A x \in Towers : /\ db'[x].pending = db[x].pending
                        /\ db'[x].appointments = db[x].appointments
                        /\ db'[x].invalid = db[x].invalid /\ db'[x].proof = db[x].proof
  BY <1>1, <1>2, <1>3 DEF ClientInv, MemoryIsDisk, TypeOK, TowerInfo
<1> QED BY <1>4, SeesNothing

LEMMA OutboxStep == ClientInv /\ [Next]_vars => [Outbox!Next]_Outbox!vars
<1> SUFFICES ASSUME ClientInv, [Next]_vars
             PROVE  Outbox!Next \/ UNCHANGED Outbox!vars
  OBVIOUS
<1>1. ASSUME db' = db PROVE UNCHANGED Outbox!vars
  BY <1>1, SeesNothing
<1>2. CASE Tell
  BY <1>2, TellIsOutbox
<1>3. ASSUME NEW r \in Retriers, Deliver(r) PROVE Outbox!Next \/ UNCHANGED Outbox!vars
  BY <1>3, DeliverIsOutbox
<1>4. ASSUME NEW r \in Retriers, on_giveup(r) PROVE UNCHANGED Outbox!vars
  BY <1>4, on_giveupIsOutbox
<1>5. ASSUME NEW t \in Towers, Register(t) PROVE Outbox!Next
  <2>1. db' = [db EXCEPT ![t] = Fresh]
    BY <1>5 DEF Register, update_tower_state
  <2>2. db'[t] = Fresh /\ \A x \in Towers : x # t => db'[x] = db[x]
    BY <2>1 DEF ClientInv, MemoryIsDisk, TypeOK
  <2> QED BY <2>2, SeesRenewed
<1>6. ASSUME NEW u \in Appts, Revoke(u) PROVE UNCHANGED Outbox!vars
  BY <1>1, <1>6 DEF Revoke
<1>7. ASSUME NEW t \in Towers, Visit(t) \/ RetryTower(t) PROVE UNCHANGED Outbox!vars
  BY <1>1, <1>7 DEF Visit, RetryTower
<1>8. CASE HookAnswer \/ HookDone \/ RetryUnknown \/ Restart
  BY <1>1, <1>8 DEF HookAnswer, HookDone, RetryUnknown, Restart
<1>9. ASSUME NEW r \in Retriers, manage_retry(r) \/ Begin(r) \/ Answer(r)
      PROVE  UNCHANGED Outbox!vars
  BY <1>1, <1>9 DEF manage_retry, Begin, Answer
<1>10. CASE UNCHANGED vars
  BY <1>1, <1>10 DEF vars
<1> QED BY <1>2, <1>3, <1>4, <1>5, <1>6, <1>7, <1>8, <1>9, <1>10
        DEF Next, HookThread, RetryThread

(* Whatever hooks, commands, retries and restarts do to each other's       *)
(* updates, an appointment is dealt with once for each tower, stays where  *)
(* it was put, and is delivered in the order of the revocations.           *)
THEOREM ImplementsOutbox == Spec => OutboxSpec
<1>1. ClientInv /\ ClientInv' /\ [Next]_vars => [Outbox!Next]_Outbox!vars
  BY OutboxStep
<1> QED BY <1>1, OutboxInit, ClientInvariance, PTL DEF Spec, OutboxSpec, Outbox!Spec

-----------------------------------------------------------------------------
(***************************************************************************)
(* What the client promises when the threads of a tower take turns: that   *)
(* one retry at a time goes through a tower, that the lock comes back,     *)
(* that a misbehaving tower is left alone and that no revoked commitment   *)
(* is lost.                                                                *)
(*                                                                         *)
(* The turns are not kept by the lock, which guards single updates.  They  *)
(* follow from what the status of a tower says of queue and threads.       *)
(***************************************************************************)

(* Nobody comes to a tower out of turn, and commands name the towers they  *)
(* are meant for.                                                          *)
TakeTurns == Rare \cap {"overlap", "retry again", "register", "unknown"} = {}

(* No answer ends a hook or a retry half way.                              *)
AnswersAreKnown == "unexpected" \notin Answers

-----------------------------------------------------------------------------
(* The inductive invariants.                                               *)

QueuedOnce == \A i, j \in 1..Len(queue) : queue[i] = queue[j] => i = j

(* A tower in the queue cannot be sent to.                                 *)
QueuedAreDown ==
    \A t \in Towers : Contains(queue, t) => db[t].status \notin {"reachable", "misbehaving"}

(* A tower has one thread, which leaves nothing in the queue, and goes     *)
(* through all that is pending.                                            *)
ThreadAlone(r) ==
    retry[r].t # None =>
        /\ \A s \in Retriers : retry[s].t = retry[r].t => s = r
        /\ ~Contains(queue, retry[r].t)
        /\ db[retry[r].t].status # "misbehaving"
        /\ retry[r].step \in {"post", "update"} => retry[r].list = db[retry[r].t].pending

NotSent == hook.step = "update" /\ hook.answer = "not sent"

(* A hook that sends has the tower for itself, and one that does not meets *)
(* a thread between two passes at the most.                                *)
HookTurn ==
    hook.step \in {"post", "update"} =>
        /\ db[hook.t].status # "misbehaving"
        /\ Contains(queue, hook.t) => NotSent
        /\ \A r \in Retriers : retry[r].t = hook.t =>
               NotSent /\ retry[r].step \notin {"post", "update"}

TurnInv ==
    /\ TakeTurns /\ lock = "free"
    /\ QueuedOnce /\ QueuedAreDown
    /\ \A r \in Retriers : ThreadAlone(r)
    /\ HookTurn

(* The outcomes that an update makes something of.                         *)
Told == {"accepted", "forged", "unreachable", "subscription", "invalid", "not sent"}

(* A proof is had of a misbehaving tower only; and what the hook knows it  *)
(* finds a place for.                                                      *)
KeptInv ==
    /\ AnswersAreKnown
    /\ RevokedAreKept
    /\ \A t \in Towers : db[t].proof # {} => db[t].status = "misbehaving"
    /\ hook.step = "update" => hook.answer \in Told

-----------------------------------------------------------------------------
(* The queue.                                                              *)

LEMMA OnceInAppend ==
    ASSUME NEW S, NEW q \in Seq(S), NEW e \in S, ~Contains(q, e),
           \A i, j \in 1..Len(q) : q[i] = q[j] => i = j
    PROVE  /\ \A i, j \in 1..Len(Append(q, e)) : Append(q, e)[i] = Append(q, e)[j] => i = j
           /\ \A x : Contains(Append(q, e), x) <=> Contains(q, x) \/ x = e
<1> DEFINE a == Append(q, e)
<1>1. /\ Len(q) \in Nat /\ Len(a) = Len(q) + 1
      /\ \A i \in 1..Len(q) : a[i] = q[i]
      /\ a[Len(q) + 1] = e
  BY AppendProperties
<1>2. \A i \in 1..Len(q) : q[i] # e
  BY DEF Contains
<1> HIDE DEF a
<1>3. \A i \in 1..Len(a) : i \in 1..Len(q) \/ i = Len(q) + 1
  BY <1>1
<1>4. \A i, j \in 1..Len(a) : a[i] = a[j] => i = j
  BY <1>1, <1>2, <1>3
<1>5. Len(q) + 1 \in 1..Len(a) /\ \A i \in 1..Len(q) : i \in 1..Len(a)
  BY <1>1
<1>6. ASSUME NEW x PROVE Contains(a, x) <=> Contains(q, x) \/ x = e
  BY <1>1, <1>3, <1>5 DEF Contains
<1> QED BY <1>4, <1>6 DEF a

LEMMA OnceInTail ==
    ASSUME NEW S, NEW q \in Seq(S), q # <<>>,
           \A i, j \in 1..Len(q) : q[i] = q[j] => i = j
    PROVE  /\ \A i, j \in 1..Len(Tail(q)) : Tail(q)[i] = Tail(q)[j] => i = j
           /\ Contains(q, Head(q)) /\ ~Contains(Tail(q), Head(q))
           /\ \A x : Contains(Tail(q), x) => Contains(q, x)
<1> DEFINE b == Tail(q)
<1>1. /\ Len(q) \in Nat /\ Head(q) = q[1] /\ 1 \in 1..Len(q)
      /\ \A i \in 1..Len(b) : i + 1 \in 1..Len(q) /\ b[i] = q[i + 1]
  BY TailItems
<1>2. Len(b) \in Nat
  BY TailItems
<1> HIDE DEF b
<1>3. ASSUME NEW i \in 1..Len(b), NEW j \in 1..Len(b), b[i] = b[j]
      PROVE  i = j
  <2>1. i + 1 = j + 1
    BY <1>1, <1>3
  <2> QED BY <1>2, <2>1
<1>4. ASSUME NEW i \in 1..Len(b)
      PROVE  b[i] # q[1]
  <2>1. i + 1 \in 1..Len(q) /\ i + 1 # 1 /\ b[i] = q[i + 1]
    BY <1>1, <1>2
  <2> QED BY <1>1, <2>1
<1>5. Contains(q, q[1]) /\ ~Contains(b, q[1])
  BY <1>1, <1>4 DEF Contains
<1>6. ASSUME NEW x, Contains(b, x) PROVE Contains(q, x)
  BY <1>1, <1>6 DEF Contains
<1> QED BY <1>1, <1>3, <1>5, <1>6 DEF b

-----------------------------------------------------------------------------
(* Steps.                                                                  *)

LEMMA NoneIsNoTower == None \notin Towers
BY WTClientAssumption

LEMMA ThreadHasTower ==
    ASSUME ClientInv, NEW r \in Retriers, retry[r].t # None
    PROVE  retry[r].t \in Towers
BY DEF ClientInv, MemoryIsDisk, TypeOK

(* What memory says of a status is what the disk says.                     *)
LEMMA StatusIsKnown ==
    ASSUME ClientInv, NEW t \in Towers
    PROVE  /\ towers[t].pending = db[t].pending
           /\ towers[t].status # "temporarily unreachable" => towers[t].status = db[t].status
           /\ db[t].status = "misbehaving" => towers[t].status = "misbehaving"
BY DEF ClientInv, MemoryIsDisk

(* A step of the hook that touches nothing but the hook.                   *)
LEMMA HookMoves ==
    ASSUME TurnInv, UNCHANGED <<db, lock, queue, retry>>, HookTurn'
    PROVE  TurnInv'
<1>1. QueuedOnce' /\ QueuedAreDown'
  BY DEF TurnInv, QueuedOnce, QueuedAreDown
<1>2. \A r \in Retriers : ThreadAlone(r)'
  BY DEF TurnInv, ThreadAlone
<1> QED BY <1>1, <1>2 DEF TurnInv

LEMMA RevokeTurn ==
    ASSUME ClientInv, TurnInv, NEW u \in Appts, Revoke(u)
    PROVE  TurnInv'
<1>1. HookTurn'
  BY DEF Revoke, NoHook, HookTurn
<1> QED BY <1>1, HookMoves DEF Revoke

LEMMA HookDoneTurn ==
    ASSUME ClientInv, TurnInv, HookDone
    PROVE  TurnInv'
<1>1. HookTurn'
  BY DEF HookDone, NoHook, HookTurn
<1> QED BY <1>1, HookMoves DEF HookDone

(* The status tells the hook that it has the tower for itself.             *)
LEMMA VisitTurn ==
    ASSUME ClientInv, TurnInv, NEW t \in Towers, Visit(t)
    PROVE  TurnInv'
<1>1. hook.step = "next" /\ ~Overlaps(t) /\ UNCHANGED <<db, lock, queue, retry>>
  BY DEF Visit, TurnInv, TakeTurns
<1>2. /\ \A r \in Retriers : retry[r].t = t => retry[r].step \notin {"post", "update"}
      /\ towers[t].status = "reachable" => \A r \in Retriers : retry[r].t # t
  BY <1>1 DEF Overlaps, InPass, Retrying
<1>3. /\ towers[t].status = "reachable" => db[t].status = "reachable"
      /\ towers[t].status # "misbehaving" => db[t].status # "misbehaving"
  BY StatusIsKnown
<1>4. towers[t].status = "reachable" => ~Contains(queue, t)
  BY <1>3 DEF TurnInv, QueuedAreDown
<1>5. hook \in [step : {"idle", "next", "post", "update"}, u : Appts \cup {None},
                left : SUBSET Towers, t : Towers \cup {None},
                answer : Outcomes \cup {"none", "not sent"}]
  BY DEF ClientInv, MemoryIsDisk, TypeOK
<1>6. CASE towers[t].status = "misbehaving"
  <2>1. hook'.step = "next"
    BY <1>1, <1>5, <1>6 DEF Visit
  <2>2. HookTurn'
    BY <2>1 DEF HookTurn
  <2> QED BY <1>1, <2>2, HookMoves
<1>7. CASE towers[t].status = "reachable"
  <2>1. hook'.step = "post" /\ hook'.t = t
    BY <1>1, <1>5, <1>7 DEF Visit
  <2>2. HookTurn'
    BY <1>1, <1>2, <1>3, <1>4, <1>7, <2>1 DEF HookTurn
  <2> QED BY <1>1, <2>2, HookMoves
<1>8. CASE towers[t].status \notin {"misbehaving", "reachable"}
  <2>1. hook' = [hook EXCEPT !.left = @ \ {t}, !.t = t, !.step = "update", !.answer = "not sent"]
    BY <1>8 DEF Visit
  <2>2. hook'.step = "update" /\ hook'.t = t /\ hook'.answer = "not sent"
    BY <1>5, <2>1
  <2>3. NotSent'
    BY <2>2 DEF NotSent
  <2>4. HookTurn'
    BY <1>1, <1>2, <1>3, <1>8, <2>2, <2>3 DEF HookTurn
  <2> QED BY <1>1, <2>4, HookMoves
<1> QED BY <1>6, <1>7, <1>8

LEMMA HookAnswerTurn ==
    ASSUME ClientInv, TurnInv, HookAnswer
    PROVE  TurnInv'
<1>1. /\ hook.step = "post" /\ UNCHANGED <<db, lock, queue, retry>>
      /\ hook'.step = "update" /\ hook'.t = hook.t
  BY DEF HookAnswer, ClientInv, MemoryIsDisk, TypeOK
<1>2. ~NotSent
  BY <1>1 DEF NotSent
<1>3. /\ db[hook.t].status # "misbehaving" /\ ~Contains(queue, hook.t)
      /\ \A r \in Retriers : retry[r].t # hook.t
  BY <1>1, <1>2 DEF TurnInv, HookTurn
<1>4. HookTurn'
  BY <1>1, <1>3 DEF HookTurn
<1> QED BY <1>1, <1>4, HookMoves

LEMMA HookUpdateStatus ==
    ASSUME NEW i \in TowerInfo, NEW u \in Appts, NEW a \in Outcomes \cup {"none", "not sent"}
    PROVE  /\ a = "unreachable" => HookUpdate(i, u, a).status \notin {"reachable", "misbehaving"}
           /\ a \notin {"forged", "unreachable", "subscription", "invalid"} =>
                 HookUpdate(i, u, a).status = i.status
           /\ a = "forged" => HookUpdate(i, u, a).status = "misbehaving"
BY DEF HookUpdate, TowerInfo

LEMMA RetryUpdateStatus ==
    ASSUME NEW i \in TowerInfo, NEW u, NEW a
    PROVE  a = "forged" <=> RetryUpdate(i, u, a).status = "misbehaving"
BY DEF RetryUpdate, TowerInfo

(* What the hook tells disturbs no thread: either the tower was its own,   *)
(* or the status stays as it was.                                          *)
LEMMA TellTurn ==
    ASSUME ClientInv, TurnInv, Tell
    PROVE  TurnInv'
<1> DEFINE t == hook.t
           a == hook.answer
           new == HookUpdate(db[t], hook.u, a)
<1>1. /\ t \in Towers /\ db[t] \in TowerInfo /\ queue \in Seq(Towers)
      /\ hook.u \in Appts /\ a \in Outcomes \cup {"none", "not sent"}
  BY DEF ClientInv, MemoryIsDisk, TypeOK, HookIsAhead, Tell
<1>2. /\ hook.step = "update" /\ db' = [db EXCEPT ![t] = new]
      /\ queue' = IF a = "unreachable" THEN Append(queue, t) ELSE queue
      /\ UNCHANGED <<lock, retry>>
  BY DEF Tell, update_tower_state
<1>3. hook'.step \notin {"post", "update"}
  BY DEF Tell, NoHook, ClientInv, MemoryIsDisk, TypeOK
<1>4. /\ a = "unreachable" => new.status \notin {"reachable", "misbehaving"}
      /\ a = "not sent" => new.status = db[t].status
  <2> DEFINE i == db[t]
             u == hook.u
  <2>1. i \in TowerInfo /\ u \in Appts /\ a \in Outcomes \cup {"none", "not sent"}
    BY <1>1
  <2> HIDE DEF new, t, a, i, u
  <2>2. /\ a = "unreachable" => HookUpdate(i, u, a).status \notin {"reachable", "misbehaving"}
        /\ a = "not sent" => HookUpdate(i, u, a).status = i.status
    BY <2>1, HookUpdateStatus
  <2> QED BY <2>2 DEF new, i, u
<1> HIDE DEF new
<1>5. db'[t] = new /\ \A x \in Towers : x # t => db'[x] = db[x]
  BY <1>1, <1>2 DEF ClientInv, MemoryIsDisk, TypeOK
<1>6. NotSent <=> a = "not sent"
  BY <1>2 DEF NotSent
<1>7. /\ db[t].status # "misbehaving"
      /\ Contains(queue, t) => a = "not sent"
      /\ \A r \in Retriers : retry[r].t = t =>
             a = "not sent" /\ retry[r].step \notin {"post", "update"}
  BY <1>2, <1>6 DEF TurnInv, HookTurn
<1>8. /\ QueuedOnce'
      /\ \A x : Contains(queue', x) <=> Contains(queue, x) \/ (a = "unreachable" /\ x = t)
  <2>1. CASE a = "unreachable"
    <3>1. ~Contains(queue, t)
      BY <1>7, <2>1
    <3>2. \A i, j \in 1..Len(queue) : queue[i] = queue[j] => i = j
      BY DEF TurnInv, QueuedOnce
    <3> HIDE DEF t, a
    <3>3. /\ \A i, j \in 1..Len(Append(queue, t)) : Append(queue, t)[i] = Append(queue, t)[j] => i = j
          /\ \A x : Contains(Append(queue, t), x) <=> Contains(queue, x) \/ x = t
      BY <1>1, <3>1, <3>2, OnceInAppend
    <3>4. queue' = Append(queue, t)
      BY <1>2, <2>1
    <3> QED BY <2>1, <3>3, <3>4 DEF QueuedOnce
  <2>2. CASE a # "unreachable"
    BY <1>2, <2>2 DEF TurnInv, QueuedOnce
  <2> QED BY <2>1, <2>2
<1> HIDE DEF t, a
<1>9. QueuedAreDown'
  <2> SUFFICES ASSUME NEW x \in Towers, Contains(queue', x)
               PROVE  db'[x].status \notin {"reachable", "misbehaving"}
    BY DEF QueuedAreDown
  <2>1. CASE Contains(queue, x)
    <3>1. db[x].status \notin {"reachable", "misbehaving"}
      BY <2>1 DEF TurnInv, QueuedAreDown
    <3> QED BY <1>4, <1>5, <1>7, <2>1, <3>1
  <2>2. CASE ~Contains(queue, x)
    BY <1>4, <1>5, <1>8, <2>2
  <2> QED BY <2>1, <2>2
<1>10. ASSUME NEW r \in Retriers PROVE ThreadAlone(r)'
  <2> SUFFICES ASSUME retry[r].t # None
               PROVE  /\ \A s \in Retriers : retry[s].t = retry[r].t => s = r
                      /\ ~Contains(queue', retry[r].t)
                      /\ db'[retry[r].t].status # "misbehaving"
                      /\ retry[r].step \in {"post", "update"} =>
                            retry[r].list = db'[retry[r].t].pending
    BY <1>2 DEF ThreadAlone
  <2>1. retry[r].t \in Towers
    BY ThreadHasTower
  <2>2. /\ \A s \in Retriers : retry[s].t = retry[r].t => s = r
        /\ ~Contains(queue, retry[r].t)
        /\ db[retry[r].t].status # "misbehaving"
        /\ retry[r].step \in {"post", "update"} => retry[r].list = db[retry[r].t].pending
    BY DEF TurnInv, ThreadAlone
  <2>3. CASE retry[r].t = t
    BY <1>4, <1>5, <1>7, <1>8, <2>2, <2>3
  <2>4. CASE retry[r].t # t
    BY <1>5, <1>8, <2>1, <2>2, <2>4
  <2> QED BY <2>3, <2>4
<1>11. HookTurn'
  BY <1>3 DEF HookTurn
<1> QED BY <1>2, <1>8, <1>9, <1>10, <1>11 DEF TurnInv

LEMMA RetryTowerTurn ==
    ASSUME ClientInv, TurnInv, NEW t \in Towers, RetryTower(t)
    PROVE  TurnInv'
<1>1. /\ hook = NoHook /\ queue' = Append(queue, t) /\ UNCHANGED <<db, lock, hook, retry>>
      /\ towers[t].status \in {"unreachable", "subscription error"}
      /\ ~BeingRetried(t) /\ queue \in Seq(Towers)
  BY DEF RetryTower, TurnInv, TakeTurns, ClientInv, MemoryIsDisk, TypeOK
<1>2. ~Contains(queue, t) /\ \A r \in Retriers : retry[r].t # t
  BY <1>1 DEF BeingRetried, Retrying
<1>3. db[t].status \notin {"reachable", "misbehaving"}
  BY <1>1, StatusIsKnown
<1>4. \A i, j \in 1..Len(queue) : queue[i] = queue[j] => i = j
  BY DEF TurnInv, QueuedOnce
<1>5. QueuedOnce' /\ \A x : Contains(queue', x) <=> Contains(queue, x) \/ x = t
  <2>1. /\ \A i, j \in 1..Len(Append(queue, t)) : Append(queue, t)[i] = Append(queue, t)[j] => i = j
        /\ \A x : Contains(Append(queue, t), x) <=> Contains(queue, x) \/ x = t
    BY <1>1, <1>2, <1>4, OnceInAppend
  <2> QED BY <1>1, <2>1 DEF QueuedOnce
<1>6. QueuedAreDown'
  BY <1>1, <1>3, <1>5 DEF TurnInv, QueuedAreDown
<1>7. ASSUME NEW r \in Retriers PROVE ThreadAlone(r)'
  BY <1>1, <1>2, <1>5 DEF TurnInv, ThreadAlone
<1>8. HookTurn'
  BY <1>1 DEF HookTurn, NoHook
<1> QED BY <1>1, <1>5, <1>6, <1>7, <1>8 DEF TurnInv

(* A thread takes a tower from the queue: nobody else is busy with it.     *)
LEMMA manage_retryTurn ==
    ASSUME ClientInv, TurnInv, NEW r \in Retriers, manage_retry(r)
    PROVE  TurnInv'
<1> DEFINE t == Head(queue)
<1>1. /\ queue # <<>> /\ queue \in Seq(Towers) /\ queue' = Tail(queue)
      /\ UNCHANGED <<db, lock, hook>>
      /\ retry' = [retry EXCEPT ![r] = [NoRetry EXCEPT !.step = "pass", !.t = Head(queue)]]
  BY DEF manage_retry, ClientInv, MemoryIsDisk, TypeOK
<1>2. /\ retry'[r].t = t /\ retry'[r].step = "pass"
      /\ \A s \in Retriers : s # r => retry'[s] = retry[s]
  BY <1>1 DEF NoRetry, ClientInv, MemoryIsDisk, TypeOK
<1>3. t \in Towers
  BY <1>1
<1>4. \A i, j \in 1..Len(queue) : queue[i] = queue[j] => i = j
  BY DEF TurnInv, QueuedOnce
<1>5. /\ QueuedOnce' /\ Contains(queue, t) /\ ~Contains(queue', t)
      /\ \A x : Contains(queue', x) => Contains(queue, x)
  BY <1>1, <1>4, OnceInTail DEF QueuedOnce
<1> HIDE DEF t
<1>6. /\ \A s \in Retriers : retry[s].t # t
      /\ db[t].status # "misbehaving"
  BY <1>3, <1>5, NoneIsNoTower DEF TurnInv, ThreadAlone, QueuedAreDown
<1>7. QueuedAreDown'
  BY <1>1, <1>5 DEF TurnInv, QueuedAreDown
<1>8. ASSUME NEW s \in Retriers PROVE ThreadAlone(s)'
  <2>1. CASE s = r
    BY <1>1, <1>2, <1>5, <1>6, <2>1 DEF ThreadAlone
  <2>2. CASE s # r
    <3>1. retry'[s] = retry[s] /\ ThreadAlone(s)
      BY <1>2, <2>2 DEF TurnInv
    <3>2. \A x \in Retriers : retry'[x].t = retry[s].t /\ retry[s].t # None => x = s
      BY <1>2, <1>6, <3>1 DEF ThreadAlone
    <3> QED BY <1>1, <1>5, <3>1, <3>2 DEF ThreadAlone
  <2> QED BY <2>1, <2>2
<1>9. HookTurn'
  <2>1. NotSent' <=> NotSent
    BY <1>1 DEF NotSent
  <2> QED BY <1>1, <1>2, <1>5, <2>1 DEF TurnInv, HookTurn
<1> QED BY <1>1, <1>5, <1>7, <1>8, <1>9 DEF TurnInv

(* A thread's step, which may end it or change the record of its tower,    *)
(* but not so that a list is out of date or a misbehaving tower has a      *)
(* thread.                                                                 *)
LEMMA ThreadMoves ==
    ASSUME ClientInv, TurnInv, NEW r \in Retriers, NEW t \in Towers, retry[r].t = t,
           UNCHANGED <<hook, queue, lock>>,
           \A s \in Retriers : s # r => retry'[s] = retry[s],
           \A x \in Towers : x # t => db'[x] = db[x],
           \/ retry'[r].t = None
           \/ /\ retry'[r].t = t /\ db'[t].status # "misbehaving"
              /\ retry'[r].step \in {"post", "update"} => retry'[r].list = db'[t].pending,
           hook.step \in {"post", "update"} /\ hook.t = t =>
               db'[t].status # "misbehaving" /\ retry'[r].step \notin {"post", "update"}
    PROVE  TurnInv'
<1>1. t # None
  BY NoneIsNoTower
<1>2. ThreadAlone(r)
  BY DEF TurnInv
<1>3. ~Contains(queue, t) /\ \A s \in Retriers : retry[s].t = t => s = r
  BY <1>1, <1>2 DEF ThreadAlone
<1>4. QueuedOnce'
  BY DEF TurnInv, QueuedOnce
<1>5. QueuedAreDown'
  <2> SUFFICES ASSUME NEW x \in Towers, Contains(queue, x)
               PROVE  db'[x].status \notin {"reachable", "misbehaving"}
    BY DEF QueuedAreDown
  <2>1. x # t
    BY <1>3
  <2> QED BY <2>1 DEF TurnInv, QueuedAreDown
<1>6. ASSUME NEW s \in Retriers PROVE ThreadAlone(s)'
  <2>1. CASE s = r
    <3>1. \A x \in Retriers : retry'[x].t = t => x = r
      BY <1>3
    <3> QED BY <1>3, <2>1, <3>1 DEF ThreadAlone
  <2>2. CASE s # r
    <3>0. retry'[s] = retry[s] /\ queue' = queue
      BY <2>2
    <3> SUFFICES ASSUME retry[s].t # None
                 PROVE  /\ \A x \in Retriers : retry'[x].t = retry[s].t => x = s
                        /\ ~Contains(queue, retry[s].t)
                        /\ db'[retry[s].t].status # "misbehaving"
                        /\ retry[s].step \in {"post", "update"} =>
                              retry[s].list = db'[retry[s].t].pending
      BY <3>0 DEF ThreadAlone
    <3>1. retry[s].t \in Towers
      BY ThreadHasTower
    <3>2. retry[s].t # t
      BY <1>3, <2>2
    <3>3. /\ \A x \in Retriers : retry[x].t = retry[s].t => x = s
          /\ ~Contains(queue, retry[s].t)
          /\ db[retry[s].t].status # "misbehaving"
          /\ retry[s].step \in {"post", "update"} => retry[s].list = db[retry[s].t].pending
      BY DEF TurnInv, ThreadAlone
    <3>4. \A x \in Retriers : retry'[x].t = retry[s].t => x = s
      BY <3>1, <3>2, <3>3, NoneIsNoTower
    <3> QED BY <3>1, <3>2, <3>3, <3>4
  <2> QED BY <2>1, <2>2
<1>7. HookTurn'
  <2> SUFFICES ASSUME hook.step \in {"post", "update"}
               PROVE  /\ db'[hook.t].status # "misbehaving"
                      /\ Contains(queue, hook.t) => NotSent
                      /\ \A x \in Retriers : retry'[x].t = hook.t =>
                             NotSent /\ retry'[x].step \notin {"post", "update"}
    BY DEF HookTurn, NotSent
  <2>1. hook.t \in Towers
    BY DEF ClientInv, HookIsAhead
  <2>2. /\ db[hook.t].status # "misbehaving"
        /\ Contains(queue, hook.t) => NotSent
        /\ \A x \in Retriers : retry[x].t = hook.t =>
               NotSent /\ retry[x].step \notin {"post", "update"}
    BY DEF TurnInv, HookTurn
  <2>3. CASE hook.t = t
    BY <2>2, <2>3
  <2>4. CASE hook.t # t
    <3>1. retry'[r].t # hook.t
      BY <2>1, <2>4, NoneIsNoTower
    <3> QED BY <2>1, <2>2, <2>4, <3>1
  <2> QED BY <2>3, <2>4
<1> QED BY <1>4, <1>5, <1>6, <1>7 DEF TurnInv

(* A tower that a pass goes through is not the hook's.                     *)
LEMMA PassIsApart ==
    ASSUME TurnInv, NEW r \in Retriers, retry[r].step \in {"post", "update"},
           hook.step \in {"post", "update"}
    PROVE  hook.t # retry[r].t
BY DEF TurnInv, HookTurn

LEMMA BeginTurn ==
    ASSUME ClientInv, TurnInv, NEW r \in Retriers, Begin(r)
    PROVE  TurnInv'
<1> DEFINE t == retry[r].t
           list == towers[t].pending
<1>1. /\ retry[r].step = "pass" /\ hook.t # t
      /\ UNCHANGED <<db, lock, queue, hook>>
      /\ retry' = [retry EXCEPT ![r] =
             IF list = <<>> THEN NoRetry
             ELSE [retry[r] EXCEPT !.step = "post", !.list = list, !.tries = @ + 1]]
  BY DEF Begin, TurnInv, TakeTurns
<1>2. t \in Towers /\ retry[r] \in RetryRecord
  BY <1>1 DEF ClientInv, PassesAreInStep, PassInStep, MemoryIsDisk, TypeOK, RetryRecord
<1>3. \A s \in Retriers : s # r => retry'[s] = retry[s]
  BY <1>1 DEF ClientInv, MemoryIsDisk, TypeOK
<1>4. list = db[t].pending /\ db[t].status # "misbehaving"
  BY <1>2, StatusIsKnown, NoneIsNoTower DEF TurnInv, ThreadAlone
<1>5. CASE list = <<>>
  <2>1. retry'[r] = NoRetry
    BY <1>1, <1>5 DEF ClientInv, MemoryIsDisk, TypeOK
  <2>2. retry'[r].t = None
    BY <2>1 DEF NoRetry
  <2> HIDE DEF t
  <2> QED BY <1>1, <1>2, <1>3, <2>2, ThreadMoves DEF t
<1>6. CASE list # <<>>
  <2>1. retry'[r] = [retry[r] EXCEPT !.step = "post", !.list = list, !.tries = @ + 1]
    BY <1>1, <1>6 DEF ClientInv, MemoryIsDisk, TypeOK
  <2>2. retry'[r].t = t /\ retry'[r].list = list
    BY <1>2, <2>1 DEF RetryRecord
  <2>3. \A x \in Towers : db'[x] = db[x]
    BY <1>1
  <2> HIDE DEF list
  <2>4. /\ retry'[r].t = t /\ db'[t].status # "misbehaving"
        /\ retry'[r].step \in {"post", "update"} => retry'[r].list = db'[t].pending
    BY <1>2, <1>4, <2>2, <2>3
  <2> QED BY <1>1, <1>2, <1>3, <2>3, <2>4, ThreadMoves
<1> QED BY <1>5, <1>6

LEMMA AnswerTurn ==
    ASSUME ClientInv, TurnInv, NEW r \in Retriers, Answer(r)
    PROVE  TurnInv'
<1> DEFINE t == retry[r].t
<1>1. retry[r].step = "post" /\ UNCHANGED <<db, lock, queue, hook>>
  BY DEF Answer
<1>2. PICK a \in Answers :
          retry' = [retry EXCEPT ![r] =
              CASE a = "unexpected" -> NoRetry
                [] a = "unreachable" ->
                       [@ EXCEPT !.step = IF retry[r].tries = MaxTries THEN "give up" ELSE "pass",
                                 !.list = <<>>]
                [] OTHER -> [@ EXCEPT !.step = "update", !.answer = a]]
  BY DEF Answer
<1>3. t \in Towers /\ retry[r] \in RetryRecord
  BY <1>1 DEF ClientInv, PassesAreInStep, PassInStep, MemoryIsDisk, TypeOK, RetryRecord
<1>4. \A s \in Retriers : s # r => retry'[s] = retry[s]
  BY <1>2 DEF ClientInv, MemoryIsDisk, TypeOK
<1>5. db[t].status # "misbehaving" /\ retry[r].list = db[t].pending
  BY <1>1, <1>3, NoneIsNoTower DEF TurnInv, ThreadAlone
<1>6. hook.step \in {"post", "update"} => hook.t # t
  BY <1>1, PassIsApart
<1>7. \/ retry'[r].t = None
      \/ retry'[r].t = t /\ retry'[r].step \notin {"post", "update"}
      \/ retry'[r].t = t /\ retry'[r].list = retry[r].list
  <2>1. retry'[r] = CASE a = "unexpected" -> NoRetry
                      [] a = "unreachable" ->
                             [retry[r] EXCEPT
                                 !.step = IF retry[r].tries = MaxTries THEN "give up" ELSE "pass",
                                 !.list = <<>>]
                      [] OTHER -> [retry[r] EXCEPT !.step = "update", !.answer = a]
    BY <1>2 DEF ClientInv, MemoryIsDisk, TypeOK
  <2>2. CASE a = "unexpected"
    BY <2>1, <2>2 DEF NoRetry
  <2>3. CASE a = "unreachable"
    <3>1. /\ retry'[r].step = (IF retry[r].tries = MaxTries THEN "give up" ELSE "pass")
          /\ retry'[r].t = retry[r].t
      BY <1>3, <2>1, <2>3 DEF RetryRecord
    <3> QED BY <3>1
  <2>4. CASE a \notin {"unexpected", "unreachable"}
    BY <1>3, <2>1, <2>4 DEF RetryRecord
  <2> QED BY <2>2, <2>3, <2>4
<1>8. \A x \in Towers : db'[x] = db[x]
  BY <1>1
<1>9. \/ retry'[r].t = None
      \/ /\ retry'[r].t = t /\ db'[t].status # "misbehaving"
         /\ retry'[r].step \in {"post", "update"} => retry'[r].list = db'[t].pending
  BY <1>3, <1>5, <1>7, <1>8
<1> QED BY <1>1, <1>3, <1>4, <1>6, <1>8, <1>9, ThreadMoves

(* A pass never delivers what is not pending, so that the lock comes back; *)
(* and what it goes on with is still all that is pending.                  *)
LEMMA Delivery ==
    ASSUME ClientInv, TurnInv, NEW r \in Retriers, Deliver(r)
    PROVE  LET t == retry[r].t
               u == Head(retry[r].list)
           IN  /\ Contains(db[t].pending, u)
               /\ retry[r].list = db[t].pending
               /\ update_tower_state(t, RetryUpdate(db[t], u, retry[r].answer))
               /\ retry' = [retry EXCEPT ![r] = GoOn(r)]
               /\ UNCHANGED <<queue, hook, revoked, handed, restarts>>
<1> DEFINE t == retry[r].t
           l == retry[r].list
<1>1. retry[r].step = "update" /\ t \in Towers /\ l # <<>> /\ l \in Seq(Appts)
  BY DEF Deliver, ClientInv, PassesAreInStep, PassInStep, MemoryIsDisk, TypeOK
<1>2. l = db[t].pending
  BY <1>1, NoneIsNoTower DEF TurnInv, ThreadAlone
<1>3. 1 \in 1..Len(l) /\ Head(l) = l[1]
  BY <1>1, TailItems
<1>4. Contains(l, Head(l))
  BY <1>3 DEF Contains
<1> QED BY <1>2, <1>4 DEF Deliver

LEMMA DeliverTurn ==
    ASSUME ClientInv, TurnInv, NEW r \in Retriers, Deliver(r)
    PROVE  TurnInv'
<1> DEFINE t == retry[r].t
           l == retry[r].list
           a == retry[r].answer
           new == RetryUpdate(db[t], Head(l), a)
<1>1. retry[r].step = "update"
  BY DEF Deliver
<1>2. /\ Contains(db[t].pending, Head(l)) /\ l = db[t].pending
      /\ update_tower_state(t, new)
      /\ retry' = [retry EXCEPT ![r] = GoOn(r)]
      /\ UNCHANGED <<queue, hook>>
  BY Delivery
<1>3. /\ t \in Towers /\ l # <<>> /\ Head(l) \in Appts /\ db[t] \in TowerInfo
      /\ a \in {"accepted", "forged", "subscription", "invalid"}
      /\ a = "subscription" \/ (db[t].pending # <<>> /\ Head(l) = Head(db[t].pending))
  BY <1>1, <1>2, DeliveryRecord
<1>4. new.pending = IF a = "subscription" THEN db[t].pending ELSE Tail(db[t].pending)
  <2> DEFINE i == db[t]
             u == Head(l)
  <2>1. /\ i \in TowerInfo /\ u \in Appts
        /\ a \in {"accepted", "forged", "subscription", "invalid"}
        /\ a = "subscription" \/ (i.pending # <<>> /\ u = Head(i.pending))
    BY <1>3
  <2> HIDE DEF t, l, a, i, u
  <2>2. RetryUpdate(i, u, a).pending = IF a = "subscription" THEN i.pending ELSE Tail(i.pending)
    BY <2>1, RetryUpdateRecord
  <2> QED BY <2>2 DEF i, u
<1>5. a = "forged" <=> new.status = "misbehaving"
  BY <1>3, RetryUpdateStatus
<1> HIDE DEF new
<1>6. /\ db'[t] = new /\ \A x \in Towers : x # t => db'[x] = db[x]
      /\ retry'[r] = GoOn(r) /\ \A s \in Retriers : s # r => retry'[s] = retry[s]
      /\ lock' = lock
  BY <1>2, <1>3 DEF update_tower_state, ClientInv, MemoryIsDisk, TypeOK
<1>7. \/ GoOn(r).t = None
      \/ a \in {"accepted", "invalid"} /\ GoOn(r).t = t /\ GoOn(r).list = Tail(l)
  <2>1. \/ GoOn(r) = NoRetry
        \/ a \in {"accepted", "invalid"} /\ GoOn(r).t = t /\ GoOn(r).list = Tail(l)
    BY <1>1, GoOnRecord
  <2> QED BY <2>1 DEF NoRetry
<1>8. \/ retry'[r].t = None
      \/ /\ retry'[r].t = t /\ db'[t].status # "misbehaving"
         /\ retry'[r].step \in {"post", "update"} => retry'[r].list = db'[t].pending
  <2> HIDE DEF l
  <2> QED BY <1>2, <1>4, <1>5, <1>6, <1>7
<1>9. hook.step \in {"post", "update"} => hook.t # t
  BY <1>1, PassIsApart
<1> QED BY <1>2, <1>3, <1>6, <1>8, <1>9, ThreadMoves

LEMMA on_giveupTurn ==
    ASSUME ClientInv, TurnInv, NEW r \in Retriers, on_giveup(r)
    PROVE  TurnInv'
<1> DEFINE t == retry[r].t
<1>1. /\ t \in Towers /\ db[t] \in TowerInfo
      /\ retry' = [retry EXCEPT ![r] = NoRetry]
      /\ db' = [db EXCEPT ![t] = [db[t] EXCEPT !.status = "unreachable"]]
      /\ UNCHANGED <<queue, hook, lock>>
  BY DEF on_giveup, update_tower_state, ClientInv, PassesAreInStep, PassInStep, MemoryIsDisk, TypeOK
<1>2. /\ db'[t].status = "unreachable" /\ \A x \in Towers : x # t => db'[x] = db[x]
      /\ retry'[r] = NoRetry /\ \A s \in Retriers : s # r => retry'[s] = retry[s]
  BY <1>1 DEF ClientInv, MemoryIsDisk, TypeOK, TowerInfo
<1>3. retry'[r].t = None /\ retry'[r].step \notin {"post", "update"}
  BY <1>2 DEF NoRetry
<1> QED BY <1>1, <1>2, <1>3, ThreadMoves

LEMMA RestartTurn ==
    ASSUME ClientInv, TurnInv, Restart
    PROVE  TurnInv'
<1>1. /\ lock' = "free" /\ queue' = <<>> /\ hook' = NoHook
      /\ retry' = [r \in Retriers |-> NoRetry]
  BY DEF Restart
<1>2. QueuedOnce' /\ QueuedAreDown'
  BY <1>1 DEF QueuedOnce, QueuedAreDown, Contains
<1>3. ASSUME NEW r \in Retriers PROVE ThreadAlone(r)'
  BY <1>1 DEF NoRetry, ThreadAlone
<1>4. HookTurn'
  BY <1>1 DEF NoHook, HookTurn
<1> QED BY <1>1, <1>2, <1>3, <1>4 DEF TurnInv

LEMMA InitTurn == TakeTurns /\ Init => TurnInv
<1> SUFFICES ASSUME TakeTurns, Init PROVE TurnInv
  OBVIOUS
<1>1. lock = "free" /\ queue = <<>> /\ hook = NoHook /\ retry = [r \in Retriers |-> NoRetry]
  BY DEF Init
<1>2. QueuedOnce /\ QueuedAreDown
  BY <1>1 DEF QueuedOnce, QueuedAreDown, Contains
<1>3. ASSUME NEW r \in Retriers PROVE ThreadAlone(r)
  BY <1>1 DEF NoRetry, ThreadAlone
<1>4. HookTurn
  BY <1>1 DEF NoHook, HookTurn
<1> QED BY <1>1, <1>2, <1>3, <1>4 DEF TurnInv

LEMMA StepTurn == ClientInv /\ TurnInv /\ [Next]_vars => TurnInv'
<1> SUFFICES ASSUME ClientInv, TurnInv, [Next]_vars PROVE TurnInv'
  OBVIOUS
<1>1. ASSUME NEW u \in Appts, Revoke(u) PROVE TurnInv'
  BY <1>1, RevokeTurn
<1>2. ASSUME NEW t \in Towers, Visit(t) PROVE TurnInv'
  BY <1>2, VisitTurn
<1>3. CASE HookAnswer
  BY <1>3, HookAnswerTurn
<1>4. CASE Tell
  BY <1>4, TellTurn
<1>5. CASE HookDone
  BY <1>5, HookDoneTurn
<1>6. ASSUME NEW t \in Towers, RetryTower(t) PROVE TurnInv'
  BY <1>6, RetryTowerTurn
<1>7. ASSUME NEW t \in Towers, Register(t) PROVE TurnInv'
  BY <1>7 DEF Register, TurnInv, TakeTurns
<1>8. CASE RetryUnknown
  BY <1>8 DEF RetryUnknown, TurnInv, TakeTurns
<1>9. ASSUME NEW r \in Retriers, manage_retry(r) PROVE TurnInv'
  BY <1>9, manage_retryTurn
<1>10. ASSUME NEW r \in Retriers, RetryThread(r) PROVE TurnInv'
  BY <1>10, BeginTurn, AnswerTurn, DeliverTurn, on_giveupTurn DEF RetryThread
<1>11. CASE Restart
  BY <1>11, RestartTurn
<1>12. CASE UNCHANGED vars
  BY <1>12, HookMoves DEF vars, TurnInv, HookTurn, NotSent
<1> QED
  BY <1>1, <1>2, <1>3, <1>4, <1>5, <1>6, <1>7, <1>8, <1>9, <1>10, <1>11, <1>12 DEF Next, HookThread

-----------------------------------------------------------------------------
(* What is kept.                                                           *)

LEMMA RecordsAreLeft ==
    ASSUME KeptInv, UNCHANGED <<db, handed>>,
           hook'.step = "update" => hook'.answer \in Told
    PROVE  KeptInv'
BY DEF KeptInv, RevokedAreKept

(* One record is replaced by another that holds what it held.              *)
LEMMA RecordIsReplaced ==
    ASSUME KeptInv, NEW t \in Towers, NEW new,
           db'[t] = new, \A x \in Towers : x # t => db'[x] = db[x] /\ handed'[x] = handed[x],
           \A u \in handed'[t] : \/ u \in new.appointments \cup new.invalid \cup new.proof
                                 \/ Contains(new.pending, u),
           new.proof # {} => new.status = "misbehaving",
           hook'.step = "update" => hook'.answer \in Told
    PROVE  KeptInv'
<1>1. RevokedAreKept'
  <2> SUFFICES ASSUME NEW x \in Towers, NEW u \in handed'[x]
               PROVE  \/ u \in db'[x].appointments \cup db'[x].invalid \cup db'[x].proof
                      \/ Contains(db'[x].pending, u)
    BY DEF RevokedAreKept
  <2>1. CASE x = t
    BY <2>1
  <2>2. CASE x # t
    BY <2>2 DEF KeptInv, RevokedAreKept
  <2> QED BY <2>1, <2>2
<1>2. \A x \in Towers : db'[x].proof # {} => db'[x].status = "misbehaving"
  <2> SUFFICES ASSUME NEW x \in Towers, db'[x].proof # {}
               PROVE  db'[x].status = "misbehaving"
    OBVIOUS
  <2>1. CASE x = t
    BY <2>1
  <2>2. CASE x # t
    BY <2>2 DEF KeptInv
  <2> QED BY <2>1, <2>2
<1> QED BY <1>1, <1>2 DEF KeptInv

(* What is pending stays pending behind it, and is found again in what     *)
(* follows the first.                                                      *)
LEMMA ContainsAppend ==
    ASSUME NEW S, NEW q \in Seq(S), NEW e \in S
    PROVE  \A x : Contains(q, x) \/ x = e => Contains(Append(q, e), x)
<1>1. /\ Len(q) \in Nat /\ Len(Append(q, e)) = Len(q) + 1
      /\ \A i \in 1..Len(q) : Append(q, e)[i] = q[i]
      /\ Append(q, e)[Len(q) + 1] = e
  BY AppendProperties
<1>2. /\ Len(q) + 1 \in 1..Len(Append(q, e))
      /\ \A i \in 1..Len(q) : i \in 1..Len(Append(q, e))
  BY <1>1
<1> QED BY <1>1, <1>2 DEF Contains

LEMMA ContainsTail ==
    ASSUME NEW S, NEW q \in Seq(S), q # <<>>
    PROVE  \A x : Contains(q, x) => x = Head(q) \/ Contains(Tail(q), x)
<1> SUFFICES ASSUME NEW x, Contains(q, x), x # Head(q) PROVE Contains(Tail(q), x)
  OBVIOUS
<1> DEFINE b == Tail(q)
<1>1. PICK i \in 1..Len(q) : q[i] = x
  BY DEF Contains
<1>2. /\ Len(q) \in Nat /\ Head(q) = q[1] /\ Len(b) = Len(q) - 1
      /\ \A j \in 1..Len(b) : b[j] = q[j + 1]
  BY TailItems
<1> HIDE DEF b
<1>3. i # 1
  BY <1>1, <1>2
<1>4. i - 1 \in 1..Len(b) /\ (i - 1) + 1 = i
  BY <1>1, <1>2, <1>3
<1>5. b[i - 1] = x
  BY <1>1, <1>2, <1>4
<1> QED BY <1>4, <1>5 DEF Contains, b

(* The hook finds a place for its appointment, and overwrites no proof.    *)
LEMMA TellKeeps ==
    ASSUME ClientInv, TurnInv, KeptInv, Tell
    PROVE  KeptInv'
<1> DEFINE t == hook.t
           u == hook.u
           a == hook.answer
           i == db[t]
           new == HookUpdate(i, u, a)
<1>1. /\ t \in Towers /\ i \in TowerInfo /\ i.pending \in Seq(Appts) /\ u \in Appts
      /\ a \in Told /\ a \in Outcomes \cup {"none", "not sent"}
  BY DEF ClientInv, MemoryIsDisk, TypeOK, HookIsAhead, Tell, KeptInv, TowerInfo
<1>2. /\ db' = [db EXCEPT ![t] = new] /\ handed' = [handed EXCEPT ![t] = @ \cup {u}]
      /\ hook.step = "update"
  BY DEF Tell, update_tower_state
<1>3. i.status # "misbehaving"
  BY <1>2 DEF TurnInv, HookTurn
<1>4. i.proof = {}
  BY <1>1, <1>3 DEF KeptInv
<1>5. \A v \in handed[t] : v \in i.appointments \cup i.invalid \/ Contains(i.pending, v)
  BY <1>1, <1>4 DEF KeptInv, RevokedAreKept
<1>6. /\ db'[t] = new /\ handed'[t] = handed[t] \cup {u}
      /\ \A x \in Towers : x # t => db'[x] = db[x] /\ handed'[x] = handed[x]
  BY <1>1, <1>2 DEF ClientInv, MemoryIsDisk, TypeOK
<1>7. hook'.step # "update"
  BY DEF Tell, NoHook, ClientInv, MemoryIsDisk, TypeOK
<1> DEFINE h == handed[t]
<1> HIDE DEF t, u, a, i, new, h
<1>8. /\ new.pending = IF a \in {"not sent", "unreachable", "subscription"}
                       THEN Append(i.pending, u) ELSE i.pending
      /\ new.appointments = IF a = "accepted" THEN i.appointments \cup {u} ELSE i.appointments
      /\ new.invalid = IF a = "invalid" THEN i.invalid \cup {u} ELSE i.invalid
      /\ new.proof = IF a = "forged" THEN {u} ELSE i.proof
      /\ a = "forged" => new.status = "misbehaving"
  <2>1. /\ HookUpdate(i, u, a).pending = IF a \in {"not sent", "unreachable", "subscription"}
                                         THEN Append(i.pending, u) ELSE i.pending
        /\ HookUpdate(i, u, a).appointments = IF a = "accepted" THEN i.appointments \cup {u}
                                              ELSE i.appointments
        /\ HookUpdate(i, u, a).invalid = IF a = "invalid" THEN i.invalid \cup {u} ELSE i.invalid
        /\ HookUpdate(i, u, a).proof = IF a = "forged" THEN {u} ELSE i.proof
    BY <1>1, HookUpdateRecord
  <2>2. a = "forged" => HookUpdate(i, u, a).status = "misbehaving"
    BY <1>1, HookUpdateStatus
  <2> QED BY <2>1, <2>2 DEF new
<1>9. \A v : Contains(i.pending, v) => Contains(new.pending, v)
  BY <1>1, <1>8, ContainsAppend
<1>10. u \in new.appointments \cup new.invalid \cup new.proof \/ Contains(new.pending, u)
  <2>1. CASE a \in {"not sent", "unreachable", "subscription"}
    <3>1. Contains(Append(i.pending, u), u)
      BY <1>1, ContainsAppend
    <3> QED BY <1>8, <2>1, <3>1
  <2>2. CASE a \in {"accepted", "invalid", "forged"}
    BY <1>8, <2>2
  <2> QED BY <1>1, <2>1, <2>2 DEF Told
<1>11. \A v \in h \cup {u} :
          v \in new.appointments \cup new.invalid \cup new.proof \/ Contains(new.pending, v)
  BY <1>5, <1>8, <1>9, <1>10 DEF h
<1>12. new.proof # {} => new.status = "misbehaving"
  BY <1>4, <1>8
<1>13. handed'[t] = h \cup {u}
  BY <1>6 DEF h
<1> QED BY <1>1, <1>6, <1>7, <1>11, <1>12, <1>13, RecordIsReplaced

(* What a thread delivers moves from the pending ones to where it belongs. *)
LEMMA DeliverKeeps ==
    ASSUME ClientInv, TurnInv, KeptInv, NEW r \in Retriers, Deliver(r)
    PROVE  KeptInv'
<1> DEFINE t == retry[r].t
           u == Head(retry[r].list)
           a == retry[r].answer
           i == db[t]
           new == RetryUpdate(i, u, a)
<1>1. retry[r].step = "update"
  BY DEF Deliver
<1>2. /\ Contains(i.pending, u) /\ update_tower_state(t, new)
      /\ UNCHANGED <<queue, hook, revoked, handed, restarts>>
  BY Delivery
<1>3. /\ t \in Towers /\ u \in Appts /\ i \in TowerInfo /\ i.pending \in Seq(Appts)
      /\ a \in {"accepted", "forged", "subscription", "invalid"}
      /\ a = "subscription" \/ (i.pending # <<>> /\ u = Head(i.pending))
  BY <1>1, <1>2, DeliveryRecord
<1>4. i.status # "misbehaving"
  BY <1>3, NoneIsNoTower DEF TurnInv, ThreadAlone
<1>5. i.proof = {}
  BY <1>3, <1>4 DEF KeptInv
<1>6. \A v \in handed[t] : v \in i.appointments \cup i.invalid \/ Contains(i.pending, v)
  BY <1>3, <1>5 DEF KeptInv, RevokedAreKept
<1>7. /\ db'[t] = new /\ handed' = handed /\ hook' = hook
      /\ \A x \in Towers : x # t => db'[x] = db[x]
  BY <1>2, <1>3 DEF update_tower_state, ClientInv, MemoryIsDisk, TypeOK
<1> DEFINE h == handed[t]
<1> HIDE DEF t, u, a, i, new, h
<1>8. /\ new.pending = IF a = "subscription" THEN i.pending ELSE Tail(i.pending)
      /\ new.appointments = IF a = "accepted" THEN i.appointments \cup {u} ELSE i.appointments
      /\ new.invalid = IF a = "invalid" THEN i.invalid \cup {u} ELSE i.invalid
      /\ new.proof = IF a = "forged" THEN {u} ELSE i.proof
      /\ a = "forged" => new.status = "misbehaving"
  <2>1. /\ RetryUpdate(i, u, a).pending = IF a = "subscription" THEN i.pending ELSE Tail(i.pending)
        /\ RetryUpdate(i, u, a).appointments = IF a = "accepted" THEN i.appointments \cup {u}
                                               ELSE i.appointments
        /\ RetryUpdate(i, u, a).invalid = IF a = "invalid" THEN i.invalid \cup {u} ELSE i.invalid
        /\ RetryUpdate(i, u, a).proof = IF a = "forged" THEN {u} ELSE i.proof
    BY <1>3, RetryUpdateRecord
  <2>2. a = "forged" => RetryUpdate(i, u, a).status = "misbehaving"
    BY <1>3, RetryUpdateStatus
  <2> QED BY <2>1, <2>2 DEF new
<1>9. \A v : Contains(i.pending, v) =>
          v \in new.appointments \cup new.invalid \cup new.proof \/ Contains(new.pending, v)
  <2>1. CASE a = "subscription"
    BY <1>8, <2>1
  <2>2. CASE a # "subscription"
    <3>1. \A v : Contains(i.pending, v) => v = u \/ Contains(new.pending, v)
      BY <1>3, <1>8, <2>2, ContainsTail
    <3>2. u \in new.appointments \cup new.invalid \cup new.proof
      BY <1>3, <1>8, <2>2
    <3> QED BY <3>1, <3>2
  <2> QED BY <2>1, <2>2
<1>10. \A v \in h : v \in new.appointments \cup new.invalid \cup new.proof \/ Contains(new.pending, v)
  BY <1>6, <1>8, <1>9 DEF h
<1>11. new.proof # {} => new.status = "misbehaving"
  BY <1>5, <1>8
<1>12. handed'[t] = h
  BY <1>7 DEF h
<1>13. hook'.step = "update" => hook'.answer \in Told
  BY <1>7 DEF KeptInv
<1> QED BY <1>3, <1>7, <1>10, <1>11, <1>12, <1>13, RecordIsReplaced

LEMMA on_giveupKeeps ==
    ASSUME ClientInv, TurnInv, KeptInv, NEW r \in Retriers, on_giveup(r)
    PROVE  KeptInv'
<1> DEFINE t == retry[r].t
           new == [db[t] EXCEPT !.status = "unreachable"]
<1>1. /\ t \in Towers /\ db[t] \in TowerInfo /\ db' = [db EXCEPT ![t] = new]
      /\ UNCHANGED <<hook, handed>>
  BY DEF on_giveup, update_tower_state, ClientInv, PassesAreInStep, PassInStep, MemoryIsDisk, TypeOK
<1>2. db[t].status # "misbehaving"
  BY <1>1, NoneIsNoTower DEF TurnInv, ThreadAlone
<1>3. db[t].proof = {}
  BY <1>1, <1>2 DEF KeptInv
<1>4. /\ new.pending = db[t].pending /\ new.appointments = db[t].appointments
      /\ new.invalid = db[t].invalid /\ new.proof = db[t].proof
  BY <1>1 DEF TowerInfo
<1>5. \A v \in handed[t] : \/ v \in db[t].appointments \cup db[t].invalid \cup db[t].proof
                           \/ Contains(db[t].pending, v)
  BY <1>1 DEF KeptInv, RevokedAreKept
<1>6. db'[t] = new /\ \A x \in Towers : x # t => db'[x] = db[x]
  BY <1>1 DEF ClientInv, MemoryIsDisk, TypeOK
<1> HIDE DEF t, new
<1>7. \A v \in handed'[t] : \/ v \in new.appointments \cup new.invalid \cup new.proof
                            \/ Contains(new.pending, v)
  BY <1>1, <1>4, <1>5
<1>8. hook'.step = "update" => hook'.answer \in Told
  BY <1>1 DEF KeptInv
<1> QED BY <1>1, <1>3, <1>4, <1>6, <1>7, <1>8, RecordIsReplaced

LEMMA InitKept == AnswersAreKnown /\ Init => KeptInv
BY DEF Init, Fresh, NoHook, KeptInv, RevokedAreKept

LEMMA StepKept == ClientInv /\ TurnInv /\ KeptInv /\ [Next]_vars => KeptInv'
<1> SUFFICES ASSUME ClientInv, TurnInv, KeptInv, [Next]_vars PROVE KeptInv'
  OBVIOUS
<1> DEFINE Hook == hook'.step = "update" => hook'.answer \in Told
<1>1. ASSUME NEW u \in Appts, Revoke(u) PROVE KeptInv'
  <2>1. Hook
    BY <1>1 DEF Revoke, NoHook
  <2> QED BY <1>1, <2>1, RecordsAreLeft DEF Revoke
<1>2. ASSUME NEW t \in Towers, Visit(t) PROVE KeptInv'
  <2>1. Hook
    <3>1. hook.step = "next"
      BY <1>2 DEF Visit
    <3>2. \/ hook'.step # "update"
          \/ hook'.answer = "not sent"
      BY <1>2, <3>1 DEF Visit, ClientInv, MemoryIsDisk, TypeOK
    <3> QED BY <3>2 DEF Told
  <2> QED BY <1>2, <2>1, RecordsAreLeft DEF Visit
<1>3. CASE HookAnswer
  <2>1. PICK a \in Answers : hook' = [hook EXCEPT !.step = "update", !.answer = a]
    BY <1>3 DEF HookAnswer
  <2>2. hook'.answer = a
    BY <2>1 DEF ClientInv, MemoryIsDisk, TypeOK
  <2>3. a \in Told
    BY WTClientAssumption DEF KeptInv, AnswersAreKnown, Told, Outcomes
  <2> QED BY <1>3, <2>2, <2>3, RecordsAreLeft DEF HookAnswer
<1>4. CASE Tell
  BY <1>4, TellKeeps
<1>5. CASE HookDone
  <2>1. Hook
    BY <1>5 DEF HookDone, NoHook
  <2> QED BY <1>5, <2>1, RecordsAreLeft DEF HookDone
<1>6. ASSUME UNCHANGED <<db, handed, hook>> PROVE KeptInv'
  BY <1>6, RecordsAreLeft DEF KeptInv
<1>7. ASSUME NEW t \in Towers, RetryTower(t) PROVE KeptInv'
  BY <1>6, <1>7 DEF RetryTower
<1>8. ASSUME NEW t \in Towers, Register(t) PROVE KeptInv'
  BY <1>8 DEF Register, TurnInv, TakeTurns
<1>9. CASE RetryUnknown
  BY <1>6, <1>9 DEF RetryUnknown
<1>10. ASSUME NEW r \in Retriers, manage_retry(r) PROVE KeptInv'
  BY <1>6, <1>10 DEF manage_retry
<1>11. ASSUME NEW r \in Retriers, RetryThread(r) PROVE KeptInv'
  <2>1. CASE Begin(r)
    BY <1>6, <2>1 DEF Begin
  <2>2. CASE Answer(r)
    BY <1>6, <2>2 DEF Answer
  <2> QED BY <1>11, <2>1, <2>2, DeliverKeeps, on_giveupKeeps DEF RetryThread
<1>12. CASE Restart
  <2>1. Hook
    BY <1>12 DEF Restart, NoHook
  <2> QED BY <1>12, <2>1, RecordsAreLeft DEF Restart
<1>13. CASE UNCHANGED vars
  BY <1>6, <1>13 DEF vars
<1> QED
  BY <1>1, <1>2, <1>3, <1>4, <1>5, <1>7, <1>8, <1>9, <1>10, <1>11, <1>12, <1>13 DEF Next, HookThread

-----------------------------------------------------------------------------
(* The theorems.                                                           *)

(* What status, queue, threads and hook say of each other, whatever the    *)
(* towers answer and whenever the plugin is restarted.                     *)
THEOREM TurnInvariance == TakeTurns /\ Spec => []TurnInv
<1> QED BY InitTurn, StepTurn, ClientInvariance, PTL DEF Spec

(* One retry at a time goes through a tower, and the lock comes back.      *)
THEOREM OneAtATimeHolds == TakeTurns /\ Spec => []OneAtATime
<1>1. ClientInv /\ TurnInv => OneAtATime
  <2> SUFFICES ASSUME ClientInv, TurnInv PROVE OneAtATime
    OBVIOUS
  <2>1. ASSUME NEW t \in Towers, NEW r \in Retrying(t), NEW s \in Retrying(t) PROVE r = s
    BY NoneIsNoTower DEF Retrying, TurnInv, ThreadAlone
  <2>2. ASSUME NEW t \in Towers, Contains(queue, t) PROVE Retrying(t) = {}
    BY <2>2, NoneIsNoTower DEF Retrying, TurnInv, ThreadAlone
  <2> QED BY <2>1, <2>2 DEF TurnInv, OneAtATime, OneThreadPerTower, LockIsReleased
<1> QED BY <1>1, TurnInvariance, ClientInvariance, PTL

(* A tower that was found misbehaving is left as it is for good.           *)
THEOREM MisbehavingIsAbandonedHolds == TakeTurns /\ Spec => MisbehavingIsAbandoned
<1> DEFINE Left == \A t \in Towers : db[t].status = "misbehaving" => db'[t] = db[t]
<1>1. ClientInv /\ TurnInv /\ [Next]_vars => [Left]_vars
  <2> SUFFICES ASSUME ClientInv, TurnInv, [Next]_vars, NEW t \in Towers,
                      db[t].status = "misbehaving"
               PROVE  db'[t] = db[t]
    OBVIOUS
  <2>1. CASE Tell
    <3>1. hook.step = "update" /\ db' = [db EXCEPT ![hook.t] = HookUpdate(db[hook.t], hook.u, hook.answer)]
      BY <2>1 DEF Tell, update_tower_state
    <3>2. hook.t # t
      BY <3>1 DEF TurnInv, HookTurn
    <3> QED BY <3>1, <3>2 DEF ClientInv, MemoryIsDisk, TypeOK
  <2>2. ASSUME NEW r \in Retriers, retry[r].t \in Towers PROVE retry[r].t # t
    BY <2>2, NoneIsNoTower DEF TurnInv, ThreadAlone
  <2>3. ASSUME NEW r \in Retriers, Deliver(r) PROVE db'[t] = db[t]
    <3> DEFINE x == retry[r].t
               new == RetryUpdate(db[x], Head(retry[r].list), retry[r].answer)
    <3>1. update_tower_state(x, new)
      BY <2>3, Delivery
    <3>2. x \in Towers
      BY <2>3 DEF Deliver, ClientInv, PassesAreInStep, PassInStep
    <3>3. x # t
      BY <2>2, <3>2
    <3> HIDE DEF x, new
    <3> QED BY <3>1, <3>3 DEF update_tower_state, ClientInv, MemoryIsDisk, TypeOK
  <2>4. ASSUME NEW r \in Retriers, on_giveup(r) PROVE db'[t] = db[t]
    <3> DEFINE x == retry[r].t
               new == [db[x] EXCEPT !.status = "unreachable"]
    <3>1. update_tower_state(x, new) /\ x \in Towers
      BY <2>4 DEF on_giveup, ClientInv, PassesAreInStep, PassInStep
    <3>2. x # t
      BY <2>2, <3>1
    <3> HIDE DEF x, new
    <3> QED BY <3>1, <3>2 DEF update_tower_state, ClientInv, MemoryIsDisk, TypeOK
  <2>5. ASSUME NEW r \in Retriers, RetryThread(r) PROVE db'[t] = db[t]
    BY <2>3, <2>4, <2>5 DEF RetryThread, Begin, Answer
  <2>6. ASSUME NEW x \in Towers, Register(x) PROVE db'[t] = db[t]
    BY <2>6 DEF Register, TurnInv, TakeTurns
  <2>7. CASE \E r \in Retriers : manage_retry(r)
    BY <2>7 DEF manage_retry
  <2>8. CASE \/ \E u \in Appts : Revoke(u)
             \/ \E x \in Towers : Visit(x) \/ RetryTower(x)
             \/ HookAnswer \/ HookDone \/ RetryUnknown \/ Restart \/ UNCHANGED vars
    BY <2>8 DEF Revoke, Visit, RetryTower, HookAnswer, HookDone, RetryUnknown, Restart, vars
  <2> QED BY <2>1, <2>5, <2>6, <2>7, <2>8 DEF Next, HookThread
<1> QED BY <1>1, TurnInvariance, ClientInvariance, PTL DEF Spec, MisbehavingIsAbandoned

(* Nothing is lost of what the hook has dealt with.                        *)
THEOREM RevokedAreKeptHolds == TakeTurns /\ AnswersAreKnown /\ Spec => []RevokedAreKept
<1>1. KeptInv => RevokedAreKept
  BY DEF KeptInv
<1> QED BY <1>1, InitKept, StepKept, TurnInvariance, ClientInvariance, PTL DEF Spec
=============================================================================
