------------------------- MODULE ChainMonitorProofs -------------------------
(***************************************************************************)
(* The chain monitor loses no tip it has taken note of, what the           *)
(* subscribers read ends with the shutdown, and no block is in it more     *)
(* than twice until a thread is held up for half the window of last_tips;  *)
(* for any number of tips, outages and subscribers.                        *)
(***************************************************************************)
EXTENDS ChainMonitor, SequenceTheorems, FiniteSetTheorems, TLAPS

-----------------------------------------------------------------------------
(* The first inductive invariant: a tip is in the queue before it is in    *)
(* last_tips, the thread that has put it there being in between the two.   *)

OnItsWay(b) ==
    \/ Contains(queue, b) \/ Contains(sent[Subs], b)
    \/ pc["notify"] \in {"lock", "send"} /\ msg["notify"] = b

Asleep == status \in {"IDLE", "LISTENING"} => pc["notify"] = "none"

TipInv ==
    /\ TypeOK /\ Asleep
    /\ \A t \in Feeders : /\ msg[t] \in 0..MaxTip
                          /\ pc[t] = "append" => OnItsWay(msg[t])
    /\ SeenIsNotified

-----------------------------------------------------------------------------
(* Sequences.                                                              *)

LEMMA ContainsAppend ==
    ASSUME NEW S, NEW q \in Seq(S), NEW m \in S, NEW b
    PROVE  Contains(Append(q, m), b) <=> (Contains(q, b) \/ m = b)
<1>1. /\ Append(q, m) \in Seq(S) /\ Len(Append(q, m)) = Len(q) + 1
      /\ \A i \in 1..Len(q) : Append(q, m)[i] = q[i]
      /\ Append(q, m)[Len(q) + 1] = m
  BY AppendProperties
<1>2. Len(q) \in Nat
  BY LenProperties
<1>3. ASSUME Contains(q, b) PROVE Contains(Append(q, m), b)
  BY <1>1, <1>2, <1>3 DEF Contains
<1>4. ASSUME m = b PROVE Contains(Append(q, m), b)
  BY <1>1, <1>2, <1>4 DEF Contains
<1>5. ASSUME Contains(Append(q, m), b) PROVE Contains(q, b) \/ m = b
  <2>1. PICK i \in 1..(Len(q) + 1) : Append(q, m)[i] = b
    BY <1>1, <1>5 DEF Contains
  <2>2. CASE i = Len(q) + 1
    BY <1>1, <2>1, <2>2
  <2>3. CASE i # Len(q) + 1
    <3>1. i \in 1..Len(q)
      BY <1>2, <2>3
    <3> QED BY <1>1, <2>1, <3>1 DEF Contains
  <2> QED BY <2>2, <2>3
<1> QED BY <1>3, <1>4, <1>5

LEMMA ContainsTail ==
    ASSUME NEW S, NEW q \in Seq(S), q # <<>>, NEW b
    PROVE  Contains(q, b) <=> (Head(q) = b \/ Contains(Tail(q), b))
<1>1. /\ Tail(q) \in Seq(S) /\ Len(Tail(q)) = Len(q) - 1 /\ Len(q) \in Nat /\ Len(q) # 0
      /\ \A i \in 1..Len(Tail(q)) : Tail(q)[i] = q[i + 1]
  BY HeadTailProperties, LenProperties, EmptySeq
<1>2. Head(q) = q[1]
  OBVIOUS
<1>3. ASSUME Contains(q, b) PROVE Head(q) = b \/ Contains(Tail(q), b)
  <2>1. PICK i \in 1..Len(q) : q[i] = b
    BY <1>3 DEF Contains
  <2>2. CASE i # 1
    <3>1. i - 1 \in 1..Len(Tail(q)) /\ Tail(q)[i - 1] = b
      BY <1>1, <2>1, <2>2
    <3> QED BY <3>1 DEF Contains
  <2> QED BY <1>2, <2>1, <2>2
<1>4. ASSUME Contains(Tail(q), b) PROVE Contains(q, b)
  <2>1. PICK i \in 1..Len(Tail(q)) : Tail(q)[i] = b
    BY <1>4 DEF Contains
  <2>2. i + 1 \in 1..Len(q) /\ q[i + 1] = b
    BY <1>1, <2>1
  <2> QED BY <2>2 DEF Contains
<1>5. ASSUME Head(q) = b PROVE Contains(q, b)
  BY <1>1, <1>2, <1>5 DEF Contains
<1> QED BY <1>3, <1>4, <1>5

-----------------------------------------------------------------------------
LEMMA ConstantTypes ==
    /\ MaxTip \in Nat /\ WindowSize \in Nat \ {0} /\ Subs \in Nat \ {0} /\ MaxOutages \in Nat
    /\ END = MaxTip + 1 /\ END \notin 0..MaxTip /\ Subs \in 1..Subs
BY ChainMonitorAssumption DEF END

LEMMA InitTips == Init => TipInv
<1> SUFFICES ASSUME Init PROVE TipInv
  OBVIOUS
<1>1. 0 \in 0..MaxTip /\ 0 \in Messages /\ 0 \in 0..MaxOutages
  BY ConstantTypes DEF Messages
<1>2. /\ <<>> \in Seq(0..MaxTip) /\ <<>> \in Seq(Messages) /\ Len(<<>>) = 0
      /\ Len(<<>>) <= WindowSize
  BY EmptySeq, ConstantTypes
<1>3. TypeOK
  BY <1>1, <1>2 DEF Init, TypeOK, Threads
<1>4. \A t \in Feeders : msg[t] = 0 /\ pc[t] = "none"
  BY DEF Init, Feeders, Threads
<1>5. \A b : ~Contains(last_tips, b)
  BY <1>2 DEF Init, Contains
<1>6. Asleep
  BY DEF Init, Asleep, Threads
<1> QED BY <1>1, <1>3, <1>4, <1>5, <1>6 DEF TipInv, SeenIsNotified

(* What leaves alone the queue, what is sent and what has been seen.       *)
LEMMA TipsAlone ==
    ASSUME TipInv, TypeOK', Asleep',
           UNCHANGED <<queue, sent, last_tips, first>>,
           msg'["notify"] = msg["notify"],
           pc["notify"] \in {"lock", "send"} => pc'["notify"] \in {"lock", "send"},
           \A t \in Feeders : /\ msg'[t] \in 0..MaxTip
                              /\ pc'[t] = "append" => pc[t] = "append" /\ msg'[t] = msg[t]
    PROVE  TipInv'
<1>1. ASSUME NEW b, OnItsWay(b) PROVE OnItsWay(b)'
  BY <1>1 DEF OnItsWay
<1>2. SeenIsNotified'
  BY <1>1 DEF TipInv, SeenIsNotified, OnItsWay
<1> QED BY <1>1, <1>2 DEF TipInv

(* What moves messages on.                                                 *)
LEMMA TipsOn ==
    ASSUME TipInv, TypeOK', Asleep', UNCHANGED <<last_tips, first>>,
           \A b \in 0..MaxTip : OnItsWay(b) => OnItsWay(b)',
           \A t \in Feeders : msg'[t] = msg[t] /\ pc'[t] = pc[t]
    PROVE  TipInv'
<1>1. SeenIsNotified'
  BY DEF TipInv, SeenIsNotified, OnItsWay
<1> QED BY <1>1 DEF TipInv

-----------------------------------------------------------------------------
(* The steps.                                                              *)

Places == {"none", "loop", "ask", "check", "put", "append", "get", "lock", "send", "stopped"}

LEMMA GotoOne ==
    ASSUME TypeOK, NEW t \in Threads, NEW l \in Places, Goto(t, l)
    PROVE  /\ pc' \in [Threads -> Places] /\ pc'[t] = l
           /\ \A x \in Threads : x # t => pc'[x] = pc[x]
BY DEF TypeOK, Goto, Places

LEMMA TakeOne ==
    ASSUME TypeOK, NEW t \in Threads, NEW l \in Places, NEW m \in Messages, Take(t, l, m)
    PROVE  /\ pc' \in [Threads -> Places] /\ pc'[t] = l
           /\ msg' \in [Threads -> Messages] /\ msg'[t] = m
           /\ \A x \in Threads : x # t => pc'[x] = pc[x] /\ msg'[x] = msg[x]
<1>1. Goto(t, l) /\ msg' = [msg EXCEPT ![t] = m]
  BY DEF Take
<1>2. msg \in [Threads -> Messages]
  BY DEF TypeOK
<1> QED BY <1>1, <1>2, GotoOne

LEMMA ThreadNames ==
    /\ Threads = Feeders \cup {"notify"} /\ "notify" \notin Feeders
    /\ "polling" \in Feeders /\ "zmq" \in Feeders
BY DEF Threads, Feeders

(* bitcoind, the queries and the start.                                    *)
LEMMA OutsideTips ==
    ASSUME TipInv, NewTip \/ GoAway \/ ComeBack \/ Ask \/ Call
    PROVE  TipInv'
<1>1. /\ UNCHANGED <<status, last_tips, queue, lock, threadVars, sent, first, late>>
      /\ heldUp' \in BOOLEAN /\ reachable' \in BOOLEAN /\ query' \in {"idle", "wait", "call"}
  BY DEF NewTip, GoAway, ComeBack, Ask, Call, bitcoindVars, hist, TipInv, TypeOK
<1>2. tip' \in 0..MaxTip /\ online' \in BOOLEAN /\ outages' \in 0..MaxOutages
  <2>1. /\ tip' = tip \/ (tip < MaxTip /\ tip' = tip + 1)
        /\ outages' = outages \/ (outages < MaxOutages /\ outages' = outages + 1)
        /\ online' = online \/ online' = TRUE \/ online' = FALSE
    BY DEF NewTip, GoAway, ComeBack, Ask, Call, bitcoindVars
  <2>2. tip \in 0..MaxTip /\ online \in BOOLEAN /\ outages \in 0..MaxOutages
    BY DEF TipInv, TypeOK
  <2>3. tip' \in 0..MaxTip
    BY <2>1, <2>2, ConstantTypes
  <2>4. outages' \in 0..MaxOutages
    BY <2>1, <2>2, ConstantTypes
  <2> QED BY <2>1, <2>2, <2>3, <2>4
<1>3. feed' \in Seq(0..MaxTip)
  <2>1. feed' = feed \/ (feed' = Append(feed, tip'))
    BY DEF NewTip, GoAway, ComeBack, Ask, Call, bitcoindVars
  <2>2. feed \in Seq(0..MaxTip)
    BY DEF TipInv, TypeOK
  <2>3. Append(feed, tip') \in Seq(0..MaxTip)
    BY <1>2, <2>2, AppendProperties
  <2> QED BY <2>1, <2>2, <2>3
<1>4. TypeOK'
  BY <1>1, <1>2, <1>3 DEF TipInv, TypeOK, threadVars
<1>5. Asleep'
  BY <1>1 DEF TipInv, Asleep, threadVars
<1> QED BY <1>1, <1>4, <1>5, TipsAlone DEF TipInv, threadVars

LEMMA monitor_chainTips ==
    ASSUME TipInv, monitor_chain
    PROVE  TipInv'
<1>1. /\ UNCHANGED <<bitcoindVars, queue, lock, reachable, msg, sent, late, heldUp, query>>
      /\ status' = "LISTENING" /\ last_tips' = <<tip>> /\ first' = tip
      /\ pc' = [pc EXCEPT !["polling"] = "loop", !["zmq"] = "loop"]
  BY DEF monitor_chain
<1>2. /\ pc' \in [Threads -> Places] /\ pc'["notify"] = pc["notify"]
      /\ \A t \in Feeders : pc'[t] = "loop"
  BY <1>1 DEF TipInv, TypeOK, Threads, Places, Feeders
<1>3. /\ tip \in 0..MaxTip /\ <<tip>> \in Seq(0..MaxTip)
      /\ Len(<<tip>>) = 1 /\ Len(<<tip>>) <= WindowSize /\ <<tip>>[1] = tip
  BY ConstantTypes DEF TipInv, TypeOK
<1>4. TypeOK'
  BY <1>1, <1>2, <1>3 DEF TipInv, TypeOK, Places, bitcoindVars
<1>5. \A b : Contains(last_tips', b) => b = first'
  BY <1>1, <1>3 DEF Contains
<1>6. SeenIsNotified'
  BY <1>5 DEF SeenIsNotified
<1>7. Asleep'
  BY <1>2 DEF TipInv, Asleep, monitor_chain
<1> QED BY <1>1, <1>2, <1>4, <1>6, <1>7 DEF TipInv

LEMMA activateTips ==
    ASSUME TipInv, activate
    PROVE  TipInv'
<1>1. /\ UNCHANGED <<bitcoindVars, last_tips, queue, lock, reachable, msg, sent, hist, query>>
      /\ status' = "ACTIVE" /\ Goto("notify", "loop") /\ pc["notify"] = "none"
  BY DEF activate, TipInv, Asleep
<1>2. /\ pc' \in [Threads -> Places] /\ pc'["notify"] = "loop"
      /\ \A t \in Feeders : pc'[t] = pc[t]
  BY <1>1, GotoOne, ThreadNames DEF TipInv, Places
<1>3. TypeOK'
  BY <1>1, <1>2 DEF TipInv, TypeOK, Places, bitcoindVars, hist
<1>4. Asleep'
  BY <1>1 DEF Asleep
<1> QED BY <1>1, <1>2, <1>3, <1>4, TipsAlone DEF TipInv, hist

LEMMA terminateTips ==
    ASSUME TipInv, terminate
    PROVE  TipInv'
<1>1. /\ UNCHANGED <<bitcoindVars, last_tips, lock, reachable, threadVars, sent, hist, query>>
      /\ status' = "TERMINATED" /\ (queue' = queue \/ queue' = Append(queue, END))
  BY DEF terminate
<1>2. END \in Messages /\ queue \in Seq(Messages)
  BY ConstantTypes DEF Messages, TipInv, TypeOK
<1>3. queue' \in Seq(Messages)
  BY <1>1, <1>2, AppendProperties
<1>4. TypeOK'
  BY <1>1, <1>3 DEF TipInv, TypeOK, bitcoindVars, threadVars, hist
<1>5. \A b : Contains(queue, b) => Contains(queue', b)
  <2>1. \A b : Contains(queue, b) => Contains(Append(queue, END), b)
    BY <1>2, ContainsAppend
  <2> QED BY <1>1, <2>1
<1>6. \A b : OnItsWay(b) => OnItsWay(b)'
  BY <1>1, <1>5 DEF OnItsWay, threadVars
<1>7. Asleep'
  BY <1>1 DEF Asleep
<1> QED BY <1>1, <1>4, <1>6, <1>7, TipsOn DEF threadVars, hist

(* The loops, and the two threads that look for tips.                      *)
LEMMA LoopTips ==
    ASSUME TipInv, NEW t \in Threads, Loop(t)
    PROVE  TipInv'
<1> DEFINE l == IF status = "TERMINATED" THEN "stopped" ELSE First(t)
<1>1. /\ UNCHANGED <<bitcoindVars, status, last_tips, queue, lock, msg, sent, hist, query>>
      /\ pc[t] = "loop" /\ Goto(t, l) /\ reachable' \in BOOLEAN
  BY DEF Loop, TipInv, TypeOK
<1>2. l \in Places /\ l \notin {"append", "send", "lock"}
  BY DEF First, Threads, Places
<1> HIDE DEF l
<1>3. /\ pc' \in [Threads -> Places] /\ pc'[t] = l
      /\ \A x \in Threads : x # t => pc'[x] = pc[x]
  BY <1>1, <1>2, GotoOne DEF TipInv
<1>4. TypeOK'
  BY <1>1, <1>3 DEF TipInv, TypeOK, Places, bitcoindVars, hist
<1>5. Asleep'
  BY <1>1, <1>3, ThreadNames DEF TipInv, Asleep
<1>6. \A x \in Feeders : pc'[x] = "append" => pc[x] = "append"
  BY <1>2, <1>3, ThreadNames
<1>7. pc["notify"] \in {"lock", "send"} => pc'["notify"] \in {"lock", "send"}
  BY <1>1, <1>3, ThreadNames
<1> QED BY <1>1, <1>4, <1>5, <1>6, <1>7, TipsAlone DEF TipInv, hist

(* A feeder has come by a tip, or by none.                                 *)
LEMMA FeedTips ==
    ASSUME TipInv, NEW t \in Feeders, NEW l \in Places, l # "append", NEW m \in 0..MaxTip,
           Take(t, l, m) \/ (Goto(t, l) /\ UNCHANGED msg),
           UNCHANGED <<tip, online, outages, status, last_tips, queue, lock, sent, first, late, query>>,
           heldUp' \in BOOLEAN, reachable' \in BOOLEAN, feed' \in Seq(0..MaxTip)
    PROVE  TipInv'
<1>1. m \in Messages /\ t \in Threads /\ t # "notify"
  BY ConstantTypes, ThreadNames DEF Messages
<1>2. /\ pc' \in [Threads -> Places] /\ pc'[t] = l
      /\ msg' \in [Threads -> Messages] /\ (msg'[t] = m \/ msg'[t] = msg[t])
      /\ \A x \in Threads : x # t => pc'[x] = pc[x] /\ msg'[x] = msg[x]
  <2>1. CASE Take(t, l, m)
    BY <1>1, <2>1, TakeOne DEF TipInv
  <2>2. CASE Goto(t, l) /\ UNCHANGED msg
    BY <1>1, <2>2, GotoOne DEF TipInv, TypeOK
  <2> QED BY <2>1, <2>2
<1>3. TypeOK'
  BY <1>2 DEF TipInv, TypeOK, Places
<1>4. Asleep'
  BY <1>1, <1>2, ThreadNames DEF TipInv, Asleep
<1>5. \A x \in Feeders : /\ msg'[x] \in 0..MaxTip
                         /\ pc'[x] = "append" => pc[x] = "append" /\ msg'[x] = msg[x]
  BY <1>1, <1>2, ThreadNames DEF TipInv
<1>6. pc'["notify"] = pc["notify"] /\ msg'["notify"] = msg["notify"]
  BY <1>1, <1>2, ThreadNames
<1> QED BY <1>3, <1>4, <1>5, <1>6, TipsAlone DEF TipInv

LEMMA AskTips ==
    ASSUME TipInv, Answer \/ NoAnswer \/ Recv \/ (\E t \in Feeders : Check(t))
    PROVE  TipInv'
<1>1. /\ tip \in 0..MaxTip /\ feed \in Seq(0..MaxTip) /\ reachable \in BOOLEAN /\ online \in BOOLEAN
      /\ heldUp \in BOOLEAN /\ \A t \in Feeders : msg[t] \in 0..MaxTip
  BY DEF TipInv, TypeOK
<1>2. /\ {"check", "loop", "put"} \subseteq Places /\ "append" \notin {"check", "loop", "put"}
  BY DEF Places
<1>3. CASE Answer
  BY <1>1, <1>2, <1>3, ThreadNames, FeedTips DEF Answer, bitcoindVars, hist
<1>4. CASE NoAnswer
  BY <1>1, <1>2, <1>4, ThreadNames, FeedTips DEF NoAnswer, bitcoindVars, hist
<1>5. CASE Recv
  <2>1. feed # <<>> /\ Take("zmq", "check", Head(feed)) /\ feed' = Tail(feed)
    BY <1>5 DEF Recv
  <2>2. Head(feed) \in 0..MaxTip /\ Tail(feed) \in Seq(0..MaxTip)
    BY <1>1, <2>1, HeadTailProperties
  <2>3. /\ UNCHANGED <<tip, online, outages, status, last_tips, queue, lock, reachable, sent, first, late, query>>
        /\ heldUp' \in BOOLEAN
    BY <1>1, <1>5 DEF Recv
  <2> QED BY <1>1, <1>2, <2>1, <2>2, <2>3, ThreadNames, FeedTips
<1>6. CASE \E t \in Feeders : Check(t)
  <2>1. PICK t \in Feeders : Check(t)
    BY <1>6
  <2> DEFINE l == IF Contains(last_tips, msg[t]) THEN "loop" ELSE "put"
  <2>2. /\ UNCHANGED <<bitcoindVars, status, last_tips, queue, lock, reachable, msg, sent, hist, query>>
        /\ Goto(t, l)
    BY <2>1 DEF Check
  <2>3. l \in Places /\ l # "append"
    BY <1>2
  <2> HIDE DEF l
  <2> QED BY <1>1, <2>2, <2>3, FeedTips DEF bitcoindVars, hist
<1> QED BY <1>3, <1>4, <1>5, <1>6

LEMMA PutTips ==
    ASSUME TipInv, NEW t \in Feeders, Put(t)
    PROVE  TipInv'
<1>1. /\ UNCHANGED <<bitcoindVars, status, last_tips, reachable, msg, sent, hist, query>>
      /\ lock' = t /\ queue' = Append(queue, msg[t]) /\ Goto(t, "append")
  BY DEF Put
<1>2. /\ t \in Threads /\ t # "notify" /\ "append" \in Places
      /\ queue \in Seq(Messages) /\ msg[t] \in Messages
  BY ThreadNames DEF Places, TipInv, TypeOK
<1>3. /\ pc' \in [Threads -> Places] /\ pc'[t] = "append"
      /\ \A x \in Threads : x # t => pc'[x] = pc[x]
  BY <1>1, <1>2, GotoOne DEF TipInv
<1>4. \A b : Contains(queue', b) <=> (Contains(queue, b) \/ msg[t] = b)
  BY <1>1, <1>2, ContainsAppend
<1>5. TypeOK'
  <2>1. queue' \in Seq(Messages) /\ lock' \in Threads \cup {"free"}
    BY <1>1, <1>2, AppendProperties
  <2> QED BY <1>1, <1>3, <2>1 DEF TipInv, TypeOK, Places, bitcoindVars, hist
<1>6. pc'["notify"] = pc["notify"]
  BY <1>2, <1>3, ThreadNames
<1>7. Asleep'
  BY <1>1, <1>6 DEF TipInv, Asleep
<1>8. \A b : OnItsWay(b) => OnItsWay(b)'
  BY <1>1, <1>4, <1>6 DEF OnItsWay
<1>9. OnItsWay(msg[t])'
  BY <1>1, <1>4 DEF OnItsWay
<1>10. \A x \in Feeders : /\ msg'[x] \in 0..MaxTip
                          /\ pc'[x] = "append" => OnItsWay(msg[x])'
  BY <1>1, <1>3, <1>8, <1>9, ThreadNames DEF TipInv
<1>11. SeenIsNotified'
  BY <1>1, <1>8 DEF TipInv, SeenIsNotified, OnItsWay, hist
<1> QED BY <1>1, <1>5, <1>7, <1>10, <1>11 DEF TipInv, OnItsWay

LEMMA AppendTipTips ==
    ASSUME TipInv, NEW t \in Feeders, AppendTip(t)
    PROVE  TipInv'
<1> DEFINE tips == Append(last_tips, msg[t])
<1>1. /\ UNCHANGED <<bitcoindVars, status, queue, reachable, msg, sent, hist, query>>
      /\ last_tips' = IF Len(tips) > WindowSize THEN Tail(tips) ELSE tips
      /\ lock' = "free" /\ pc[t] = "append" /\ Goto(t, "loop")
  BY DEF AppendTip
<1>2. /\ t \in Threads /\ t # "notify" /\ "loop" \in Places
      /\ last_tips \in Seq(0..MaxTip) /\ Len(last_tips) <= WindowSize /\ msg[t] \in 0..MaxTip
      /\ OnItsWay(msg[t])
  BY <1>1, ThreadNames DEF Places, TipInv, TypeOK
<1>3. /\ pc' \in [Threads -> Places] /\ pc'[t] = "loop"
      /\ \A x \in Threads : x # t => pc'[x] = pc[x]
  BY <1>1, <1>2, GotoOne DEF TipInv
<1>4. tips \in Seq(0..MaxTip) /\ Len(tips) = Len(last_tips) + 1 /\ tips # <<>>
  BY <1>2, AppendProperties
<1>5. \A b : Contains(tips, b) <=> (Contains(last_tips, b) \/ msg[t] = b)
  BY <1>2, ContainsAppend
<1>6. /\ last_tips' \in Seq(0..MaxTip) /\ Len(last_tips') <= WindowSize
      /\ \A b : Contains(last_tips', b) => Contains(tips, b)
  <2> HIDE DEF tips
  <2>1. Tail(tips) \in Seq(0..MaxTip) /\ Len(Tail(tips)) = Len(tips) - 1
    BY <1>4, HeadTailProperties
  <2>2. \A b : Contains(Tail(tips), b) => Contains(tips, b)
    BY <1>4, ContainsTail
  <2>3. Len(last_tips) \in Nat /\ WindowSize \in Nat
    BY <1>2, LenProperties, ConstantTypes
  <2>4. CASE Len(tips) > WindowSize
    BY <1>1, <1>2, <1>4, <2>1, <2>2, <2>3, <2>4
  <2>5. CASE ~(Len(tips) > WindowSize)
    BY <1>1, <1>2, <1>4, <2>3, <2>5
  <2> QED BY <2>4, <2>5
<1>7. TypeOK'
  BY <1>1, <1>3, <1>6 DEF TipInv, TypeOK, Places, bitcoindVars, hist
<1>8. pc'["notify"] = pc["notify"]
  BY <1>2, <1>3, ThreadNames
<1>9. Asleep'
  BY <1>1, <1>8 DEF TipInv, Asleep
<1>10. \A b : OnItsWay(b)' <=> OnItsWay(b)
  BY <1>1, <1>8 DEF OnItsWay
<1>11. \A x \in Feeders : /\ msg'[x] \in 0..MaxTip
                          /\ pc'[x] = "append" => OnItsWay(msg[x])'
  BY <1>1, <1>3, <1>10, ThreadNames DEF TipInv
<1>12. SeenIsNotified'
  <2>1. ASSUME NEW b \in 0..MaxTip, Contains(last_tips', b), b # first'
        PROVE  OnItsWay(b)'
    <3>1. (Contains(last_tips, b) /\ b # first) \/ b = msg[t]
      BY <1>1, <1>5, <1>6, <2>1 DEF hist
    <3>2. OnItsWay(b)
      BY <1>2, <3>1 DEF TipInv, SeenIsNotified, OnItsWay
    <3> QED BY <1>10, <3>2
  <2> QED BY <2>1 DEF SeenIsNotified, OnItsWay
<1> QED BY <1>1, <1>7, <1>9, <1>11, <1>12 DEF TipInv, OnItsWay

(* The thread that notifies.                                               *)
LEMMA GetMessageTips ==
    ASSUME TipInv, GetMessage
    PROVE  TipInv'
<1>1. /\ UNCHANGED <<bitcoindVars, status, last_tips, lock, reachable, sent, hist, query>>
      /\ pc["notify"] = "get" /\ queue # <<>> /\ queue' = Tail(queue)
      /\ Take("notify", "lock", Head(queue))
  BY DEF GetMessage
<1>2. queue \in Seq(Messages) /\ "notify" \in Threads /\ "lock" \in Places
  BY ThreadNames DEF TipInv, TypeOK, Places
<1>3. Head(queue) \in Messages /\ queue' \in Seq(Messages)
  BY <1>1, <1>2, HeadTailProperties
<1>4. /\ pc' \in [Threads -> Places] /\ pc'["notify"] = "lock"
      /\ msg' \in [Threads -> Messages] /\ msg'["notify"] = Head(queue)
      /\ \A x \in Threads : x # "notify" => pc'[x] = pc[x] /\ msg'[x] = msg[x]
  BY <1>1, <1>2, <1>3, TakeOne DEF TipInv
<1>5. TypeOK'
  BY <1>1, <1>3, <1>4 DEF TipInv, TypeOK, Places, bitcoindVars, hist
<1>6. Asleep'
  BY <1>1 DEF TipInv, Asleep
<1>7. \A b : Contains(queue, b) => Head(queue) = b \/ Contains(queue', b)
  BY <1>1, <1>2, ContainsTail
<1>8. \A b : OnItsWay(b) => OnItsWay(b)'
  BY <1>1, <1>4, <1>7 DEF OnItsWay
<1> QED BY <1>1, <1>4, <1>5, <1>6, <1>8, ThreadNames, TipsOn DEF hist

LEMMA LockTips ==
    ASSUME TipInv, Lock
    PROVE  TipInv'
<1>1. /\ UNCHANGED <<bitcoindVars, status, last_tips, queue, reachable, msg, sent, hist, query>>
      /\ pc["notify"] = "lock" /\ lock' = "notify" /\ Goto("notify", "send")
  BY DEF Lock
<1>2. "notify" \in Threads /\ "send" \in Places
  BY ThreadNames DEF Places
<1>3. /\ pc' \in [Threads -> Places] /\ pc'["notify"] = "send"
      /\ \A x \in Threads : x # "notify" => pc'[x] = pc[x]
  BY <1>1, <1>2, GotoOne DEF TipInv
<1>4. TypeOK'
  BY <1>1, <1>2, <1>3 DEF TipInv, TypeOK, Places, bitcoindVars, hist
<1>5. Asleep'
  BY <1>1 DEF TipInv, Asleep
<1>6. \A b : OnItsWay(b) => OnItsWay(b)'
  BY <1>1, <1>3 DEF OnItsWay
<1> QED BY <1>1, <1>3, <1>4, <1>5, <1>6, ThreadNames, TipsOn DEF hist

LEMMA NotifyTips ==
    ASSUME TipInv, NEW s \in 1..Subs, Notify(s)
    PROVE  TipInv'
<1> DEFINE l == IF s = Subs THEN "loop" ELSE "send"
           m == msg["notify"]
<1>1. /\ UNCHANGED <<bitcoindVars, status, last_tips, queue, reachable, msg, first, heldUp, query>>
      /\ pc["notify"] = "send" /\ sent' = [sent EXCEPT ![s] = Append(@, m)]
      /\ Goto("notify", l) /\ lock' \in {lock, "free"} /\ late' \in {late, late + 1}
  BY DEF Notify
<1>2. l \in Places /\ "notify" \in Threads /\ m \in Messages /\ sent[s] \in Seq(Messages)
  BY ThreadNames DEF Places, TipInv, TypeOK
<1>3. /\ pc' \in [Threads -> Places] /\ pc'["notify"] = l
      /\ \A x \in Threads : x # "notify" => pc'[x] = pc[x]
  <2> HIDE DEF l
  <2> QED BY <1>1, <1>2, GotoOne DEF TipInv
<1>4. /\ sent' \in [1..Subs -> Seq(Messages)] /\ sent'[s] = Append(sent[s], m)
      /\ \A r \in 1..Subs : r # s => sent'[r] = sent[r]
  BY <1>1, <1>2, AppendProperties DEF TipInv, TypeOK
<1>5. TypeOK'
  BY <1>1, <1>3, <1>4 DEF TipInv, TypeOK, Places, bitcoindVars
<1>6. Asleep'
  BY <1>1 DEF TipInv, Asleep
<1>7. \A b : Contains(sent'[s], b) <=> (Contains(sent[s], b) \/ m = b)
  <2> DEFINE q == sent[s]
  <2>1. q \in Seq(Messages) /\ m \in Messages
    BY <1>2
  <2> HIDE DEF q, m
  <2>2. \A b : Contains(Append(q, m), b) <=> (Contains(q, b) \/ m = b)
    BY <2>1, ContainsAppend
  <2> QED BY <1>4, <2>2 DEF q
<1>8. \A b : Contains(sent[Subs], b) => Contains(sent'[Subs], b)
  BY <1>4, <1>7, ConstantTypes
<1>9. \A b : OnItsWay(b) => OnItsWay(b)'
  <2>1. CASE s = Subs
    <3>1. Contains(sent'[Subs], m)
      BY <1>7, <2>1
    <3> QED BY <1>1, <1>8, <3>1 DEF OnItsWay
  <2>2. CASE s # Subs
    BY <1>1, <1>3, <1>8, <2>2 DEF OnItsWay
  <2> QED BY <2>1, <2>2
<1> QED BY <1>1, <1>3, <1>5, <1>6, <1>9, ThreadNames, TipsOn

LEMMA StepTips == TipInv /\ [Next]_vars => TipInv'
<1> SUFFICES ASSUME TipInv, [Next]_vars PROVE TipInv'
  OBVIOUS
<1>1. CASE NewTip \/ GoAway \/ ComeBack \/ Ask \/ Call
  BY <1>1, OutsideTips
<1>2. CASE monitor_chain \/ activate \/ terminate
  BY <1>2, monitor_chainTips, activateTips, terminateTips
<1>3. CASE \E t \in Threads : Loop(t)
  BY <1>3, LoopTips
<1>4. CASE Answer \/ NoAnswer \/ Recv
  BY <1>4, AskTips
<1>5. CASE \E t \in Feeders : Enqueue(t)
  BY <1>5, AskTips, PutTips, AppendTipTips DEF Enqueue
<1>6. CASE GetMessage \/ Lock \/ \E s \in 1..Subs : Notify(s)
  BY <1>6, GetMessageTips, LockTips, NotifyTips
<1>7. CASE UNCHANGED vars
  BY <1>7 DEF vars, bitcoindVars, threadVars, hist, TipInv, TypeOK, Asleep, OnItsWay, SeenIsNotified
<1> QED BY <1>1, <1>2, <1>3, <1>4, <1>5, <1>6, <1>7, ThreadNames
        DEF Next, Polling, Zmq, NotifySubscribers

(* A tip is in the queue, in hand or sent by the time it is in last_tips.  *)
THEOREM TipInvariance == Spec => []TipInv
<1> QED BY InitTips, StepTips, PTL DEF Spec

(* A tip the monitor will not queue again reaches every subscriber, or is  *)
(* on its way, whatever the window, the outages and the threads' order.    *)
THEOREM SeenIsNotifiedHolds == Spec => []SeenIsNotified
<1>1. TipInv => SeenIsNotified
  BY DEF TipInv
<1> QED BY <1>1, TipInvariance, PTL

-----------------------------------------------------------------------------
(* The second inductive invariant: the subscribers are served in turn,     *)
(* and once the tower shuts down the thread sends what it has in hand, and *)
(* stops.                                                                  *)

(* The first k subscribers have one message more than the last.            *)
Served(k) ==
    \A s \in 1..Subs : Len(sent[s]) = IF s <= k THEN Len(sent[Subs]) + 1 ELSE Len(sent[Subs])

EndInv ==
    /\ \E k \in 0..(Subs - 1) : Served(k) /\ (pc["notify"] # "send" => k = 0)
    /\ late # 0 => late = 1 /\ status = "TERMINATED" /\ pc["notify"] \in {"loop", "stopped"}
    /\ Contains(queue, END) \/ msg["notify"] = END => status = "TERMINATED"
    /\ \A s \in 1..Subs : \A i \in 1..Len(sent[s]) : sent[s][i] = END =>
          /\ status = "TERMINATED" /\ i = Len(sent[s])
          /\ \/ pc["notify"] \in {"loop", "stopped"}
             \/ pc["notify"] = "send" /\ Len(sent[s]) > Len(sent[Subs])

LEMMA InitEnd == Init => EndInv
<1> SUFFICES ASSUME Init PROVE EndInv
  OBVIOUS
<1>1. Len(<<>>) = 0 /\ \A s \in 1..Subs : sent[s] = <<>>
  BY EmptySeq DEF Init
<1>2. /\ pc["notify"] = "none" /\ msg["notify"] = 0 /\ late = 0 /\ queue = <<>>
      /\ 0 # END /\ 0 \in 0..(Subs - 1)
  BY ConstantTypes, ThreadNames DEF Init
<1>3. Served(0)
  BY <1>1, ConstantTypes DEF Served
<1>4. ~Contains(queue, END)
  BY <1>1, <1>2 DEF Contains
<1>5. \A s \in 1..Subs : 1..Len(sent[s]) = {}
  BY <1>1
<1> QED BY <1>2, <1>3, <1>4, <1>5 DEF EndInv

(* Steps of others than the thread that notifies.                          *)
LEMMA EndAlone ==
    ASSUME EndInv, UNCHANGED <<sent, late>>,
           pc'["notify"] = pc["notify"], msg'["notify"] = msg["notify"],
           status = "TERMINATED" => status' = "TERMINATED",
           Contains(queue', END) => Contains(queue, END) \/ status' = "TERMINATED"
    PROVE  EndInv'
<1>1. \A k : Served(k)' <=> Served(k)
  BY DEF Served
<1>2. \E k \in 0..(Subs - 1) : Served(k)' /\ (pc'["notify"] # "send" => k = 0)
  BY <1>1 DEF EndInv
<1> QED BY <1>2 DEF EndInv

LEMMA OthersEnd ==
    ASSUME TipInv, EndInv,
           \/ NewTip \/ GoAway \/ ComeBack \/ Ask \/ Call
           \/ monitor_chain \/ terminate \/ Answer \/ NoAnswer \/ Recv
           \/ \E t \in Feeders : Loop(t) \/ Enqueue(t)
    PROVE  EndInv'
<1>1. CASE NewTip \/ GoAway \/ ComeBack \/ Ask \/ Call
  BY <1>1, EndAlone DEF NewTip, GoAway, ComeBack, Ask, Call, threadVars, hist
<1>2. CASE monitor_chain
  <2>1. pc'["notify"] = pc["notify"]
    BY <1>2 DEF monitor_chain, TipInv, TypeOK, Threads
  <2> QED BY <1>2, <2>1, EndAlone DEF monitor_chain
<1>3. CASE terminate
  BY <1>3, EndAlone DEF terminate, threadVars, hist
<1>4. CASE Answer \/ NoAnswer \/ Recv
  <2>1. pc'["notify"] = pc["notify"] /\ msg'["notify"] = msg["notify"]
    BY <1>4 DEF Answer, NoAnswer, Recv, Take, Goto, TipInv, TypeOK, Threads
  <2> QED BY <1>4, <2>1, EndAlone DEF Answer, NoAnswer, Recv, hist
<1>5. CASE \E t \in Feeders : Loop(t) \/ Enqueue(t)
  <2>1. PICK t \in Feeders : Loop(t) \/ Check(t) \/ Put(t) \/ AppendTip(t)
    BY <1>5 DEF Enqueue
  <2>2. /\ pc'["notify"] = pc["notify"] /\ UNCHANGED <<sent, late, msg, status>>
        /\ queue' = queue \/ queue' = Append(queue, msg[t])
    BY <2>1, ThreadNames DEF Loop, Check, Put, AppendTip, Goto, hist, TipInv, TypeOK, Threads
  <2>3. queue \in Seq(Messages) /\ msg[t] \in Messages /\ msg[t] # END
    BY ConstantTypes, ThreadNames DEF TipInv, TypeOK
  <2>4. Contains(Append(queue, msg[t]), END) => Contains(queue, END)
    BY <2>3, ContainsAppend
  <2> QED BY <2>2, <2>4, EndAlone
<1> QED BY <1>1, <1>2, <1>3, <1>4, <1>5

(* The thread that notifies takes a message, when it has not been told to  *)
(* stop ...                                                                *)
LEMMA TakesEnd ==
    ASSUME TipInv, EndInv, activate \/ Loop("notify") \/ GetMessage \/ Lock
    PROVE  EndInv'
<1>1. /\ UNCHANGED <<sent, late>>
      /\ status' = status \/ (status = "LISTENING" /\ status' = "ACTIVE")
      /\ \/ pc["notify"] \in {"none", "loop", "get", "lock"} /\ pc'["notify"] # "send"
         \/ Lock
      /\ pc["notify"] # "send"
  BY DEF activate, Loop, GetMessage, Lock, Take, Goto, First, hist, TipInv, TypeOK, Threads, Asleep
<1>2. \A k : Served(k)' <=> Served(k)
  BY <1>1 DEF Served
<1>3. \E k \in 0..(Subs - 1) : Served(k)' /\ (pc'["notify"] # "send" => k = 0)
  BY <1>1, <1>2 DEF EndInv
<1>4. Contains(queue', END) \/ msg'["notify"] = END => status' = "TERMINATED"
  <2>1. CASE GetMessage
    <3>1. queue # <<>> /\ queue' = Tail(queue) /\ msg'["notify"] = Head(queue)
      BY <2>1 DEF GetMessage, Take, TipInv, TypeOK, Threads
    <3>2. Contains(queue, END) <=> (Head(queue) = END \/ Contains(Tail(queue), END))
      BY <3>1, ContainsTail DEF TipInv, TypeOK
    <3> QED BY <2>1, <3>1, <3>2 DEF EndInv, GetMessage
  <2>2. CASE activate \/ Loop("notify") \/ Lock
    BY <2>2 DEF EndInv, activate, Loop, Lock
  <2> QED BY <2>1, <2>2
<1>5. status = "TERMINATED" => \/ pc["notify"] = "loop" /\ pc'["notify"] = "stopped"
                               \/ pc["notify"] \notin {"loop", "stopped"}
  BY DEF activate, Loop, GetMessage, Lock, Goto, TipInv, TypeOK, Threads, Asleep
<1>6. status = "TERMINATED" => status' = "TERMINATED"
  BY <1>1
<1>7. late' # 0 => late' = 1 /\ status' = "TERMINATED" /\ pc'["notify"] \in {"loop", "stopped"}
  BY <1>1, <1>5, <1>6 DEF EndInv
<1>8. \A s \in 1..Subs : \A i \in 1..Len(sent[s]) : sent[s][i] = END =>
          status = "TERMINATED" /\ i = Len(sent[s]) /\ pc'["notify"] = "stopped"
  BY <1>1, <1>5 DEF EndInv
<1> QED BY <1>1, <1>3, <1>4, <1>6, <1>7, <1>8 DEF EndInv

(* ... and serves the one after those that have it.                        *)
LEMMA NotifyEnd ==
    ASSUME TipInv, EndInv, NEW s \in 1..Subs, Notify(s)
    PROVE  EndInv'
<1> DEFINE m == msg["notify"]
           n == Len(sent[Subs])
<1>1. /\ UNCHANGED <<status, queue, msg>>
      /\ pc["notify"] = "send" /\ sent' = [sent EXCEPT ![s] = Append(@, m)]
      /\ pc'["notify"] = IF s = Subs THEN "loop" ELSE "send"
      /\ late' = IF status = "TERMINATED" /\ s = Subs THEN late + 1 ELSE late
      /\ s = 1 + Cardinality({r \in 1..Subs : Len(sent[r]) > n})
  BY DEF Notify, Goto, TipInv, TypeOK, Threads
<1>2. /\ m \in Messages /\ Subs \in Nat \ {0} /\ Subs \in 1..Subs
      /\ \A r \in 1..Subs : sent[r] \in Seq(Messages) /\ Len(sent[r]) \in Nat
  BY LenProperties, ConstantTypes, ThreadNames DEF TipInv, TypeOK
<1>3. PICK k \in 0..(Subs - 1) : Served(k)
  BY DEF EndInv
<1>4. s = k + 1
  <2> DEFINE ahead == {r \in 1..Subs : Len(sent[r]) > n}
  <2>1. ahead = 1..k
    BY <1>2, <1>3 DEF Served
  <2>2. Cardinality(1..k) = k
    BY <1>3, FS_Interval
  <2>3. s = 1 + Cardinality(ahead)
    BY <1>1
  <2> HIDE DEF ahead
  <2>4. s = 1 + k
    BY <2>1, <2>2, <2>3
  <2> QED BY <1>3, <2>4
<1>5. /\ sent'[s] = Append(sent[s], m) /\ Len(sent'[s]) = Len(sent[s]) + 1
      /\ \A i \in 1..Len(sent[s]) : sent'[s][i] = sent[s][i]
      /\ \A r \in 1..Subs : r # s => sent'[r] = sent[r]
  BY <1>1, <1>2, AppendProperties DEF TipInv, TypeOK
<1>6. Len(sent[s]) = n
  BY <1>2, <1>3, <1>4 DEF Served
<1>7. \E j \in 0..(Subs - 1) : Served(j)' /\ (pc'["notify"] # "send" => j = 0)
  <2>1. CASE s = Subs
    <3>1. Served(0)'
      BY <1>2, <1>3, <1>4, <1>5, <1>6, <2>1 DEF Served
    <3> QED BY <1>2, <3>1
  <2>2. CASE s # Subs
    <3>1. Served(k + 1)'
      <4>1. sent'[Subs] = sent[Subs]
        BY <1>2, <1>5, <2>2
      <4>2. ASSUME NEW r \in 1..Subs
            PROVE  Len(sent'[r]) = IF r <= k + 1 THEN n + 1 ELSE n
        <5>1. CASE r = s
          BY <1>2, <1>4, <1>5, <1>6, <5>1
        <5>2. CASE r # s
          <6>1. Len(sent'[r]) = IF r <= k THEN n + 1 ELSE n
            BY <1>3, <1>5, <5>2 DEF Served
          <6>2. r <= k <=> r <= k + 1
            BY <1>3, <1>4, <5>2
          <6> QED BY <6>1, <6>2
        <5> QED BY <5>1, <5>2
      <4> QED BY <4>1, <4>2 DEF Served
    <3>2. k + 1 \in 0..(Subs - 1)
      BY <1>2, <1>4, <2>2
    <3> QED BY <1>1, <2>2, <3>1, <3>2
  <2> QED BY <2>1, <2>2
<1>8. late = 0
  BY <1>1 DEF EndInv
<1>9. late' # 0 => late' = 1 /\ status' = "TERMINATED" /\ pc'["notify"] \in {"loop", "stopped"}
  BY <1>1, <1>8
<1>10. \A i \in 1..Len(sent[s]) : sent[s][i] # END
  BY <1>1, <1>2, <1>6 DEF EndInv
<1>11. ASSUME NEW r \in 1..Subs, NEW i \in 1..Len(sent'[r]), sent'[r][i] = END
       PROVE  /\ status' = "TERMINATED" /\ i = Len(sent'[r])
              /\ \/ pc'["notify"] \in {"loop", "stopped"}
                 \/ pc'["notify"] = "send" /\ Len(sent'[r]) > Len(sent'[Subs])
  <2>1. CASE r = s
    <3>1. i = Len(sent'[s])
      <4>1. i \in 1..(Len(sent[s]) + 1) /\ sent'[s][i] = END
        BY <1>5, <1>11, <2>1
      <4>2. i \notin 1..Len(sent[s])
        BY <1>5, <1>10, <4>1
      <4> QED BY <1>2, <1>5, <4>1, <4>2
    <3>2. m = END
      BY <1>2, <1>5, <1>11, <2>1, <3>1, AppendProperties
    <3>3. status' = "TERMINATED"
      BY <1>1, <3>2 DEF EndInv
    <3>4. s # Subs => Len(sent'[s]) > Len(sent'[Subs])
      BY <1>2, <1>5, <1>6
    <3> QED BY <1>1, <2>1, <3>1, <3>3, <3>4
  <2>2. CASE r # s
    <3>1. /\ sent'[r] = sent[r] /\ status = "TERMINATED" /\ i = Len(sent[r])
          /\ Len(sent[r]) > n
      BY <1>1, <1>5, <1>11, <2>2 DEF EndInv
    <3>2. s # Subs => Len(sent'[Subs]) = n
      BY <1>2, <1>5
    <3> QED BY <1>1, <3>1, <3>2
  <2> QED BY <2>1, <2>2
<1>12. Contains(queue', END) \/ msg'["notify"] = END => status' = "TERMINATED"
  BY <1>1 DEF EndInv
<1> QED BY <1>7, <1>9, <1>11, <1>12 DEF EndInv

LEMMA StepEnd == TipInv /\ EndInv /\ [Next]_vars => EndInv'
<1> SUFFICES ASSUME TipInv, EndInv, [Next]_vars PROVE EndInv'
  OBVIOUS
<1>1. CASE \/ NewTip \/ GoAway \/ ComeBack \/ Ask \/ Call
           \/ monitor_chain \/ terminate \/ Answer \/ NoAnswer \/ Recv
           \/ \E t \in Feeders : Loop(t) \/ Enqueue(t)
  BY <1>1, OthersEnd
<1>2. CASE activate \/ Loop("notify") \/ GetMessage \/ Lock
  BY <1>2, TakesEnd
<1>3. CASE \E s \in 1..Subs : Notify(s)
  BY <1>3, NotifyEnd
<1>4. CASE UNCHANGED vars
  BY <1>4, EndAlone DEF vars, threadVars, hist
<1> QED BY <1>1, <1>2, <1>3, <1>4, ThreadNames DEF Next, Polling, Zmq, NotifySubscribers

(* The subscribers get at the most one message more after the shutdown     *)
(* and, whichever of them has read END, no other thing ever comes after    *)
(* it, for any number of subscribers.                                      *)
THEOREM NothingAfterEnd == Spec => [](TypeOK /\ EndIsLast /\ OneAfterTerminate)
<1>1. TipInv /\ EndInv => TypeOK /\ EndIsLast /\ OneAfterTerminate
  <2> SUFFICES ASSUME TipInv, EndInv PROVE TypeOK /\ EndIsLast /\ OneAfterTerminate
    OBVIOUS
  <2>1. TypeOK
    BY DEF TipInv
  <2>2. \A s \in 1..Subs : DOMAIN sent[s] = 1..Len(sent[s])
    BY <2>1, LenProperties DEF TypeOK
  <2>3. EndIsLast
    BY <2>2 DEF EndInv, EndIsLast
  <2>4. OneAfterTerminate
    BY DEF EndInv, OneAfterTerminate
  <2> QED BY <2>1, <2>3, <2>4
<1> QED BY <1>1, InitTips, StepTips, InitEnd, StepEnd, PTL DEF Spec

-----------------------------------------------------------------------------
(* The third inductive invariant is about the repetitions.  What a feeder  *)
(* has in its hands, in the order in which bitcoind came to it:            *)

InOrder ==
    /\ status = "IDLE" => (\A t \in Feeders : pc[t] = "none") /\ last_tips = <<>>
    /\ \A t \in Feeders : pc[t] \in Hands => msg[t] <= tip
    /\ pc["zmq"] \in Hands => msg["zmq"] # 0
    /\ \A i \in 1..Len(feed) :
          /\ feed[i] \in 1..tip
          /\ pc["zmq"] \in Hands => msg["zmq"] < feed[i]
          /\ \A j \in 1..Len(feed) : i < j => feed[i] < feed[j]
    /\ tip = 0 => /\ pc["polling"] \notin {"put", "append"}
                  /\ pc["polling"] # "none" => Contains(last_tips, 0)

(* How often b has been sent to the first subscriber, or will be.          *)
Positions(q, b) == {i \in 1..Len(q) : q[i] = b}

InHand(b) ==
    /\ msg["notify"] = b
    /\ \/ pc["notify"] = "lock"
       \/ pc["notify"] = "send" /\ Len(sent[1]) = Len(sent[Subs])

Total(b) ==
    Cardinality(Positions(sent[1], b)) + Cardinality(Positions(queue, b)) + (IF InHand(b) THEN 1 ELSE 0)

(* The tips zmq has in its hands, in one of these places, or will have.    *)
Announced(places) ==
    {v \in 1..MaxTip : \/ pc["zmq"] \in places /\ msg["zmq"] = v
                       \/ Contains(feed, v) \/ v > tip}

(* No other tip than these gets into last_tips between the time polling    *)
(* asks for b and the time it moves on, if nobody is Lag tips behind.      *)
Reach(b, Lag) == {v \in 1..MaxTip \ {b} : v < b + Lag /\ b < v + Lag}

Prompt(Lag) == \A t \in Feeders : pc[t] \in Hands => tip < msg[t] + Lag

(* The tips that are not half a window old.                                *)
HalfWindow(Lag) == \A b, best \in Nat : ~FarBehind(b, best) => best < b + Lag

(* b is in last_tips and zmq cannot push it out any more.                  *)
Safe(b, Lag) ==
    \E i \in 1..Len(last_tips) :
        /\ last_tips[i] = b
        /\ Cardinality(Reach(b, Lag) \cap Announced(Hands)) < i + WindowSize - Len(last_tips)

(* What polling will look up, and whether it may put b (again).            *)
NextLookup == IF pc["polling"] \in Hands THEN msg["polling"] ELSE tip

Done(b, Lag) ==
    \/ NextLookup > b
    \/ NextLookup = b /\ (pc["polling"] = "append" \/ (pc["polling"] # "put" /\ Safe(b, Lag)))

ToCome(b) == IF b \in Announced({"check", "put"}) THEN 1 ELSE 0

Repeats(b, Lag) ==
    \/ Total(b) + ToCome(b) <= 1
    \/ Total(b) + ToCome(b) <= 2 /\ Done(b, Lag)

TwiceInv(Lag) ==
    /\ InOrder
    /\ ~heldUp => Prompt(Lag) /\ \A b \in 0..MaxTip : Repeats(b, Lag)

(* Counting.                                                               *)
LEMMA PositionsFinite ==
    ASSUME NEW S, NEW q \in Seq(S), NEW b
    PROVE  IsFiniteSet(Positions(q, b)) /\ Cardinality(Positions(q, b)) \in Nat
<1>1. Len(q) \in Nat
  BY LenProperties
<1>2. IsFiniteSet(1..Len(q))
  BY <1>1, FS_Interval
<1>3. Positions(q, b) \in SUBSET (1..Len(q))
  BY DEF Positions
<1>4. IsFiniteSet(Positions(q, b))
  BY <1>2, <1>3, FS_Subset
<1> QED BY <1>4, FS_CardinalityType

LEMMA CountAppend ==
    ASSUME NEW S, NEW q \in Seq(S), NEW m \in S, NEW b
    PROVE  Cardinality(Positions(Append(q, m), b)) =
               Cardinality(Positions(q, b)) + (IF m = b THEN 1 ELSE 0)
<1>1. /\ Len(Append(q, m)) = Len(q) + 1 /\ Len(q) \in Nat
      /\ \A i \in 1..Len(q) : Append(q, m)[i] = q[i]
      /\ Append(q, m)[Len(q) + 1] = m
  BY AppendProperties, LenProperties
<1>2. Cardinality(Positions(q, b)) \in Nat /\ IsFiniteSet(Positions(q, b))
  BY PositionsFinite
<1>3. CASE m = b
  <2>1. Positions(Append(q, m), b) = Positions(q, b) \cup {Len(q) + 1}
    BY <1>1, <1>3 DEF Positions
  <2>2. Len(q) + 1 \notin Positions(q, b)
    BY <1>1 DEF Positions
  <2> QED BY <1>2, <1>3, <2>1, <2>2, FS_AddElement
<1>4. CASE m # b
  <2>1. Positions(Append(q, m), b) = Positions(q, b)
    BY <1>1, <1>4 DEF Positions
  <2> QED BY <1>2, <1>4, <2>1
<1> QED BY <1>3, <1>4

LEMMA CountTail ==
    ASSUME NEW S, NEW q \in Seq(S), q # <<>>, NEW b
    PROVE  Cardinality(Positions(q, b)) =
               Cardinality(Positions(Tail(q), b)) + (IF Head(q) = b THEN 1 ELSE 0)
<1> DEFINE P == Positions(Tail(q), b)
           Q == Positions(q, b) \ {1}
<1>1. /\ Tail(q) \in Seq(S) /\ Len(Tail(q)) = Len(q) - 1 /\ Len(q) \in Nat /\ Len(q) # 0
      /\ \A i \in 1..Len(Tail(q)) : Tail(q)[i] = q[i + 1]
      /\ Head(q) = q[1]
  BY HeadTailProperties, LenProperties, EmptySeq
<1>2. /\ Cardinality(Positions(q, b)) \in Nat /\ IsFiniteSet(Positions(q, b))
      /\ Cardinality(P) \in Nat /\ IsFiniteSet(P)
  BY <1>1, PositionsFinite
<1>3. Cardinality(Q) = Cardinality(P)
  <2> DEFINE f == [i \in P |-> i + 1]
  <2>1. \A i \in P : i + 1 \in Q /\ i \in Nat
    BY <1>1 DEF Positions
  <2>2. \A j \in Q : j - 1 \in P /\ j - 1 + 1 = j
    <3>1. \A j \in Q : j \in 1..Len(q) /\ j # 1 /\ q[j] = b
      BY DEF Positions
    <3>2. \A j \in Q : j - 1 \in 1..Len(Tail(q)) /\ j - 1 + 1 = j /\ j \in Nat
      BY <1>1, <3>1
    <3>3. \A j \in Q : Tail(q)[j - 1] = b
      BY <1>1, <3>1, <3>2
    <3> QED BY <3>2, <3>3 DEF Positions
  <2> HIDE DEF P, Q
  <2>3. f \in [P -> Q]
    BY <2>1
  <2>4. \A i, j \in P : f[i] = f[j] => i = j
    BY <2>1
  <2>5. \A j \in Q : \E i \in P : f[i] = j
    BY <2>2
  <2> HIDE DEF f
  <2>6. f \in Bijection(P, Q)
    BY <2>3, <2>4, <2>5 DEF Bijection, Injection, Surjection, IsInjective
  <2>7. ExistsBijection(P, Q)
    BY <2>6 DEF ExistsBijection
  <2> QED BY <1>2, <2>7, FS_Bijection
<1>4. 1 \in Positions(q, b) <=> Head(q) = b
  BY <1>1 DEF Positions
<1>5. Cardinality(Q) = IF 1 \in Positions(q, b) THEN Cardinality(Positions(q, b)) - 1
                                                 ELSE Cardinality(Positions(q, b))
  BY <1>2, FS_RemoveElement
<1> HIDE DEF P, Q
<1>6. Cardinality(Positions(q, b)) = Cardinality(P) + (IF Head(q) = b THEN 1 ELSE 0)
  BY <1>2, <1>3, <1>4, <1>5
<1> QED BY <1>6 DEF P

LEMMA TotalType ==
    ASSUME TypeOK, NEW b
    PROVE  /\ Cardinality(Positions(sent[1], b)) \in Nat /\ Cardinality(Positions(queue, b)) \in Nat
           /\ Times(b) = Cardinality(Positions(sent[1], b)) /\ Times(b) \in Nat /\ Times(b) <= Total(b)
<1>1. queue \in Seq(Messages) /\ sent[1] \in Seq(Messages)
  BY ConstantTypes DEF TypeOK
<1>2. Cardinality(Positions(sent[1], b)) \in Nat /\ Cardinality(Positions(queue, b)) \in Nat
  BY <1>1, PositionsFinite
<1>3. Times(b) = Cardinality(Positions(sent[1], b))
  BY DEF Times, Positions
<1>4. Total(b) = Times(b) + Cardinality(Positions(queue, b)) + (IF InHand(b) THEN 1 ELSE 0)
  BY <1>3 DEF Total
<1> QED BY <1>2, <1>3, <1>4

-----------------------------------------------------------------------------
(* The order of the tips.                                                  *)

LEMMA InitOrder == Init => InOrder
<1> SUFFICES ASSUME Init PROVE InOrder
  OBVIOUS
<1>1. /\ tip = 0 /\ feed = <<>> /\ last_tips = <<>>
      /\ \A t \in Feeders : pc[t] = "none"
  BY DEF Init, Feeders, Threads
<1>2. Len(feed) = 0 /\ 1..Len(feed) = {}
  BY <1>1
<1>3. pc["polling"] = "none" /\ pc["zmq"] = "none" /\ "none" \notin Hands
  BY <1>1, ThreadNames DEF Hands
<1> QED BY <1>1, <1>2, <1>3, ThreadNames DEF InOrder

(* Steps that are not the feeders'.                                        *)
LEMMA OrderAlone ==
    ASSUME InOrder, UNCHANGED <<tip, feed, last_tips>>,
           status' = "IDLE" => status = "IDLE",
           \A t \in Feeders : pc'[t] = pc[t] /\ msg'[t] = msg[t]
    PROVE  InOrder'
BY ThreadNames DEF InOrder

(* A feeder that comes by no tip.                                          *)
LEMMA OrderPlace ==
    ASSUME InOrder, UNCHANGED <<tip, feed, last_tips, status, msg>>,
           NEW t \in Feeders, pc[t] # "none", pc'[t] \in Hands => pc[t] \in Hands,
           t = "polling" /\ tip = 0 => pc'[t] \notin {"put", "append"},
           \A x \in Feeders : x # t => pc'[x] = pc[x]
    PROVE  InOrder'
<1>1. status # "IDLE"
  BY DEF InOrder
<1>2. \A x \in Feeders : pc'[x] \in Hands => pc[x] \in Hands
  OBVIOUS
<1>3. tip = 0 => /\ pc'["polling"] \notin {"put", "append"}
                 /\ pc'["polling"] # "none" => Contains(last_tips, 0)
  BY ThreadNames DEF InOrder
<1> QED BY <1>1, <1>2, <1>3, ThreadNames DEF InOrder

LEMMA NewTipOrder ==
    ASSUME TipInv, InOrder, NewTip
    PROVE  InOrder'
<1>1. /\ UNCHANGED <<status, last_tips, pc, msg>> /\ tip' = tip + 1
      /\ feed' = feed \/ feed' = Append(feed, tip')
  BY DEF NewTip, threadVars
<1>2. /\ tip \in Nat /\ tip' \in Nat /\ feed \in Seq(0..MaxTip) /\ Len(feed) \in Nat
      /\ \A t \in Feeders : msg[t] \in Nat
  BY <1>1, LenProperties DEF TipInv, TypeOK
<1>3. tip' \in 0..MaxTip
  BY <1>1, <1>2, ConstantTypes DEF NewTip
<1>4. \A t \in Feeders : pc[t] \in Hands => msg[t] <= tip'
  BY <1>1, <1>2 DEF InOrder
<1>5. \A i \in 1..Len(feed') :
          /\ feed'[i] \in 1..tip'
          /\ pc["zmq"] \in Hands => msg["zmq"] < feed'[i]
          /\ \A j \in 1..Len(feed') : i < j => feed'[i] < feed'[j]
  <2>1. CASE feed' = feed
    BY <1>1, <1>2, <2>1 DEF InOrder
  <2>2. CASE feed' = Append(feed, tip')
    <3>1. /\ Len(feed') = Len(feed) + 1 /\ feed'[Len(feed) + 1] = tip + 1
          /\ \A i \in 1..Len(feed) : feed'[i] = feed[i]
      BY <1>1, <1>2, <1>3, <2>2, AppendProperties
    <3>2. ASSUME NEW i \in 1..Len(feed')
          PROVE  feed'[i] \in 1..tip' /\ (pc["zmq"] \in Hands => msg["zmq"] < feed'[i])
      <4>1. CASE i = Len(feed) + 1
        BY <1>1, <1>2, <1>4, <3>1, <4>1, ThreadNames DEF InOrder
      <4>2. CASE i # Len(feed) + 1
        <5>1. i \in 1..Len(feed)
          BY <1>2, <3>1, <4>2
        <5>2. feed[i] \in 1..tip /\ (pc["zmq"] \in Hands => msg["zmq"] < feed[i])
          BY <5>1 DEF InOrder
        <5> QED BY <1>1, <1>2, <3>1, <5>1, <5>2
      <4> QED BY <4>1, <4>2
    <3>3. ASSUME NEW i \in 1..Len(feed'), NEW j \in 1..Len(feed'), i < j
          PROVE  feed'[i] < feed'[j]
      <4>1. i \in 1..Len(feed) /\ feed'[i] = feed[i] /\ feed[i] \in 1..tip
        BY <1>2, <3>1, <3>3 DEF InOrder
      <4>2. CASE j = Len(feed) + 1
        BY <1>1, <1>2, <3>1, <4>1, <4>2
      <4>3. CASE j # Len(feed) + 1
        <5>1. j \in 1..Len(feed)
          BY <1>2, <3>1, <4>3
        <5> QED BY <3>1, <3>3, <4>1, <5>1 DEF InOrder
      <4> QED BY <4>2, <4>3
    <3> QED BY <3>2, <3>3
  <2> QED BY <1>1, <2>1, <2>2
<1>6. tip' # 0
  BY <1>1, <1>2
<1> QED BY <1>1, <1>4, <1>5, <1>6 DEF InOrder

LEMMA monitor_chainOrder ==
    ASSUME TipInv, InOrder, monitor_chain
    PROVE  InOrder'
<1>1. /\ UNCHANGED <<tip, feed, msg>> /\ status' = "LISTENING" /\ last_tips' = <<tip>>
      /\ \A t \in Feeders : pc'[t] = "loop"
  BY DEF monitor_chain, bitcoindVars, TipInv, TypeOK, Threads, Feeders
<1>2. Contains(<<tip>>, tip)
  BY DEF Contains
<1>3. status = "IDLE" /\ \A t \in Feeders : pc[t] = "none"
  BY DEF monitor_chain, InOrder
<1>4. pc'["polling"] = "loop" /\ pc'["zmq"] = "loop"
  BY <1>1, ThreadNames
<1>5. "loop" \notin Hands /\ "loop" \notin {"put", "append"}
  BY DEF Hands
<1>6. tip' = 0 => Contains(last_tips', 0)
  BY <1>1, <1>2
<1> QED BY <1>1, <1>4, <1>5, <1>6 DEF InOrder

LEMMA AnswerOrder ==
    ASSUME TipInv, InOrder, Answer
    PROVE  InOrder'
<1>1. /\ UNCHANGED <<tip, feed, last_tips, status>>
      /\ pc["polling"] = "ask" /\ Take("polling", "check", tip)
  BY DEF Answer, bitcoindVars
<1>2. tip \in Messages /\ tip \in Nat
  BY ConstantTypes DEF TipInv, TypeOK, Messages
<1>3. /\ pc'["polling"] = "check" /\ msg'["polling"] = tip
      /\ pc'["zmq"] = pc["zmq"] /\ msg'["zmq"] = msg["zmq"]
  BY <1>1, <1>2, TakeOne, ThreadNames DEF TipInv, Places
<1>4. status # "IDLE"
  BY <1>1, ThreadNames DEF InOrder
<1>5. \A t \in Feeders : pc'[t] \in Hands => msg'[t] <= tip
  BY <1>2, <1>3 DEF InOrder, Feeders
<1>6. tip = 0 => Contains(last_tips, 0)
  BY <1>1 DEF InOrder
<1> QED BY <1>1, <1>3, <1>4, <1>5, <1>6 DEF InOrder

LEMMA RecvOrder ==
    ASSUME TipInv, InOrder, Recv
    PROVE  InOrder'
<1> DEFINE m == Head(feed)
<1>1. /\ UNCHANGED <<tip, last_tips, status>> /\ feed # <<>> /\ feed' = Tail(feed)
      /\ pc["zmq"] = "get" /\ Take("zmq", "check", m)
  BY DEF Recv
<1>2. feed \in Seq(0..MaxTip)
  BY DEF TipInv, TypeOK
<1>3. /\ Len(feed') = Len(feed) - 1 /\ Len(feed) \in Nat /\ Len(feed) # 0
      /\ \A i \in 1..Len(feed') : feed'[i] = feed[i + 1]
  BY <1>1, <1>2, HeadTailProperties, LenProperties, EmptySeq
<1>4. m = feed[1] /\ m \in 0..MaxTip
  <2>1. Head(feed) = feed[1]
    OBVIOUS
  <2>2. Head(feed) \in 0..MaxTip
    BY <1>1, <1>2, HeadTailProperties
  <2> QED BY <2>1, <2>2
<1> HIDE DEF m
<1>5. m \in Messages /\ m \in 1..tip /\ tip \in Nat
  <2>1. m \in Messages /\ tip \in Nat
    BY <1>4, ConstantTypes DEF Messages, TipInv, TypeOK
  <2>2. 1 \in 1..Len(feed)
    BY <1>3
  <2>3. feed[1] \in 1..tip
    BY <2>2 DEF InOrder
  <2> QED BY <1>4, <2>1, <2>3
<1>6. /\ pc'["zmq"] = "check" /\ msg'["zmq"] = m
      /\ pc'["polling"] = pc["polling"] /\ msg'["polling"] = msg["polling"]
  BY <1>1, <1>5, TakeOne, ThreadNames DEF TipInv, Places
<1>7. \A i \in 1..Len(feed') :
          /\ feed'[i] \in 1..tip
          /\ m < feed'[i]
          /\ \A j \in 1..Len(feed') : i < j => feed'[i] < feed'[j]
  <2>1. \A i \in 1..Len(feed') : i + 1 \in 1..Len(feed) /\ 1 \in 1..Len(feed) /\ 1 < i + 1 /\ i \in Nat
    BY <1>3
  <2>2. \A i, j \in 1..Len(feed') : i < j => i + 1 < j + 1
    BY <2>1
  <2> QED BY <1>3, <1>4, <2>1, <2>2 DEF InOrder
<1>8. status # "IDLE"
  BY <1>1, ThreadNames DEF InOrder
<1>9. \A t \in Feeders : pc'[t] \in Hands => msg'[t] <= tip
  BY <1>5, <1>6 DEF InOrder, Feeders
<1>10. msg'["zmq"] # 0
  BY <1>5, <1>6
<1>11. tip' = 0 => /\ pc'["polling"] \notin {"put", "append"}
                   /\ pc'["polling"] # "none" => Contains(last_tips', 0)
  BY <1>1, <1>6 DEF InOrder
<1> QED BY <1>1, <1>6, <1>7, <1>8, <1>9, <1>10, <1>11 DEF InOrder

LEMMA EnqueueOrder ==
    ASSUME TipInv, InOrder, NEW t \in Feeders, Loop(t) \/ Enqueue(t) \/ (t = "polling" /\ NoAnswer)
    PROVE  InOrder'
<1>1. \A l \in Places : Goto(t, l) => pc'[t] = l /\ \A x \in Feeders : x # t => pc'[x] = pc[x]
  BY GotoOne, ThreadNames DEF TipInv
<1>2. {"loop", "put", "append", "ask", "get", "stopped"} \subseteq Places
  BY DEF Places
<1>3. msg[t] \in Nat /\ tip \in Nat
  BY DEF TipInv, TypeOK
<1>4. CASE Loop(t)
  <2>1. UNCHANGED <<tip, feed, last_tips, status, msg>> /\ pc[t] = "loop"
    BY <1>4 DEF Loop, bitcoindVars
  <2>2. \E l \in {"ask", "get", "stopped"} : Goto(t, l)
    BY <1>4, ThreadNames DEF Loop, First, Feeders
  <2>3. pc'[t] \in {"ask", "get", "stopped"} /\ \A x \in Feeders : x # t => pc'[x] = pc[x]
    BY <1>1, <1>2, <2>2
  <2> QED BY <2>1, <2>3, OrderPlace DEF Hands
<1>5. CASE t = "polling" /\ NoAnswer
  <2>1. /\ UNCHANGED <<tip, feed, last_tips, status, msg>> /\ pc[t] = "ask" /\ Goto(t, "loop")
    BY <1>5 DEF NoAnswer, bitcoindVars
  <2> QED BY <1>1, <1>2, <2>1, OrderPlace DEF Hands
<1>6. CASE Check(t)
  <2>1. /\ UNCHANGED <<tip, feed, last_tips, status, msg>> /\ pc[t] = "check"
        /\ Goto(t, IF Contains(last_tips, msg[t]) THEN "loop" ELSE "put")
    BY <1>6 DEF Check, bitcoindVars
  <2>2. /\ pc'[t] = IF Contains(last_tips, msg[t]) THEN "loop" ELSE "put"
        /\ \A x \in Feeders : x # t => pc'[x] = pc[x]
    BY <1>1, <1>2, <2>1
  <2>3. msg[t] <= tip
    BY <2>1 DEF InOrder, Hands
  <2>4. t = "polling" /\ tip = 0 => pc'[t] = "loop"
    <3>1. ASSUME t = "polling", tip = 0 PROVE Contains(last_tips, msg[t])
      <4>1. msg[t] = 0 /\ pc["polling"] # "none"
        BY <1>3, <2>1, <2>3, <3>1
      <4> QED BY <3>1, <4>1 DEF InOrder
    <3> QED BY <2>2, <3>1
  <2> QED BY <2>1, <2>2, <2>4, OrderPlace DEF Hands
<1>7. CASE Put(t)
  <2>1. UNCHANGED <<tip, feed, last_tips, status, msg>> /\ pc[t] = "put" /\ Goto(t, "append")
    BY <1>7 DEF Put, bitcoindVars
  <2>2. ~(t = "polling" /\ tip = 0)
    BY <2>1 DEF InOrder
  <2> QED BY <1>1, <1>2, <2>1, <2>2, OrderPlace DEF Hands
<1>8. CASE AppendTip(t)
  <2>1. UNCHANGED <<tip, feed, status, msg>> /\ pc[t] = "append" /\ Goto(t, "loop")
    BY <1>8 DEF AppendTip, bitcoindVars
  <2>2. pc'[t] = "loop" /\ \A x \in Feeders : x # t => pc'[x] = pc[x]
    BY <1>1, <1>2, <2>1
  <2>3. tip # 0
    <3>1. CASE t = "polling"
      BY <2>1, <3>1 DEF InOrder
    <3>2. CASE t = "zmq"
      <4>1. msg[t] <= tip /\ msg[t] # 0
        BY <2>1, <3>2 DEF InOrder, Hands
      <4> QED BY <1>3, <4>1
    <3> QED BY <3>1, <3>2 DEF Feeders
  <2>4. status # "IDLE"
    BY <2>1 DEF InOrder
  <2>5. \A x \in Feeders : pc'[x] \in Hands => pc[x] \in Hands
    BY <2>1, <2>2 DEF Hands
  <2> QED BY <2>1, <2>3, <2>4, <2>5, ThreadNames DEF InOrder
<1> QED BY <1>4, <1>5, <1>6, <1>7, <1>8 DEF Enqueue

-----------------------------------------------------------------------------
(* What the first subscriber has and will have of a tip: only a feeder's   *)
(* put changes it.                                                         *)

LEMMA TotalAlone ==
    ASSUME UNCHANGED <<sent, queue>>, msg'["notify"] = msg["notify"],
           pc'["notify"] = pc["notify"] \/ {pc["notify"], pc'["notify"]} \cap {"lock", "send"} = {}, NEW b
    PROVE  Total(b)' = Total(b)
BY DEF Total, InHand

LEMMA TotalPut ==
    ASSUME TipInv, NEW t \in Feeders, Put(t), NEW b
    PROVE  Total(b)' = Total(b) + (IF msg[t] = b THEN 1 ELSE 0)
<1>1. UNCHANGED <<sent, msg>> /\ queue' = Append(queue, msg[t]) /\ Goto(t, "append")
  BY DEF Put
<1>2. /\ queue \in Seq(Messages) /\ msg[t] \in Messages
      /\ t \in Threads /\ t # "notify" /\ "append" \in Places
  BY ThreadNames DEF TipInv, TypeOK, Places
<1>3. pc'["notify"] = pc["notify"]
  BY <1>1, <1>2, GotoOne, ThreadNames DEF TipInv
<1>4. Cardinality(Positions(queue', b)) =
          Cardinality(Positions(queue, b)) + (IF msg[t] = b THEN 1 ELSE 0)
  BY <1>1, <1>2, CountAppend
<1>5. InHand(b)' <=> InHand(b)
  BY <1>1, <1>3 DEF InHand
<1>6. Cardinality(Positions(sent[1], b)) \in Nat /\ Cardinality(Positions(queue, b)) \in Nat
  BY TotalType DEF TipInv
<1> QED BY <1>1, <1>4, <1>5, <1>6 DEF Total

LEMMA TotalEnd ==
    ASSUME TipInv, terminate, NEW b \in 0..MaxTip
    PROVE  Total(b)' = Total(b)
<1>1. UNCHANGED <<sent, pc, msg>> /\ (queue' = queue \/ queue' = Append(queue, END))
  BY DEF terminate, threadVars
<1>2. queue \in Seq(Messages) /\ END \in Messages /\ END # b
  BY ConstantTypes DEF TipInv, TypeOK, Messages
<1>3. Cardinality(Positions(queue, b)) \in Nat
  BY TotalType DEF TipInv
<1>4. Cardinality(Positions(queue', b)) = Cardinality(Positions(queue, b))
  <2>1. Cardinality(Positions(Append(queue, END), b)) =
            Cardinality(Positions(queue, b)) + (IF END = b THEN 1 ELSE 0)
    BY <1>2, CountAppend
  <2>2. Cardinality(Positions(Append(queue, END), b)) = Cardinality(Positions(queue, b))
    BY <1>2, <1>3, <2>1
  <2> QED BY <1>1, <2>2
<1> QED BY <1>1, <1>4 DEF Total, InHand

LEMMA TotalGet ==
    ASSUME TipInv, GetMessage, NEW b
    PROVE  Total(b)' = Total(b)
<1>1. /\ UNCHANGED sent /\ pc["notify"] = "get"
      /\ queue # <<>> /\ queue' = Tail(queue) /\ Take("notify", "lock", Head(queue))
  BY DEF GetMessage
<1>2. queue \in Seq(Messages) /\ "notify" \in Threads /\ "lock" \in Places
  BY ThreadNames DEF TipInv, TypeOK, Places
<1>3. Head(queue) \in Messages
  BY <1>1, <1>2, HeadTailProperties
<1>4. pc'["notify"] = "lock" /\ msg'["notify"] = Head(queue)
  BY <1>1, <1>2, <1>3, TakeOne DEF TipInv
<1>5. Cardinality(Positions(queue, b)) =
          Cardinality(Positions(queue', b)) + (IF Head(queue) = b THEN 1 ELSE 0)
  BY <1>1, <1>2, CountTail
<1>6. ~InHand(b) /\ (InHand(b)' <=> Head(queue) = b)
  BY <1>1, <1>4 DEF InHand
<1>7. queue' \in Seq(Messages)
  BY <1>1, <1>2, HeadTailProperties
<1>8. Cardinality(Positions(sent[1], b)) \in Nat /\ Cardinality(Positions(queue', b)) \in Nat
  BY <1>7, TotalType, PositionsFinite DEF TipInv
<1> QED BY <1>1, <1>5, <1>6, <1>8 DEF Total

LEMMA TotalNotify ==
    ASSUME TipInv, EndInv, NEW s \in 1..Subs, Notify(s), NEW b
    PROVE  Total(b)' = Total(b)
<1> DEFINE m == msg["notify"]
           n == Len(sent[Subs])
           ahead == {r \in 1..Subs : Len(sent[r]) > n}
<1>1. /\ UNCHANGED <<queue, msg>>
      /\ pc["notify"] = "send" /\ sent' = [sent EXCEPT ![s] = Append(@, m)]
      /\ pc'["notify"] = IF s = Subs THEN "loop" ELSE "send"
      /\ s = 1 + Cardinality(ahead)
  BY DEF Notify, Goto, TipInv, TypeOK, Threads
<1>2. /\ m \in Messages /\ Subs \in Nat \ {0} /\ Subs \in 1..Subs /\ 1 \in 1..Subs
      /\ \A r \in 1..Subs : sent[r] \in Seq(Messages) /\ Len(sent[r]) \in Nat
  BY LenProperties, ConstantTypes, ThreadNames DEF TipInv, TypeOK
<1>3. /\ sent'[s] = Append(sent[s], m) /\ Len(sent'[s]) = Len(sent[s]) + 1
      /\ \A r \in 1..Subs : r # s => sent'[r] = sent[r]
  BY <1>1, <1>2, AppendProperties DEF TipInv, TypeOK
<1>4. PICK k \in 0..(Subs - 1) : Served(k)
  BY DEF EndInv
<1>5. s = k + 1
  <2>1. ahead = 1..k
    BY <1>2, <1>4 DEF Served
  <2>2. Cardinality(1..k) = k
    BY <1>4, FS_Interval
  <2> HIDE DEF ahead
  <2>3. s = 1 + k
    BY <1>1, <2>1, <2>2
  <2> QED BY <1>4, <2>3
<1>6. /\ Len(sent[s]) = n
      /\ Len(sent[1]) = n <=> s = 1
  BY <1>2, <1>4, <1>5 DEF Served
<1> HIDE DEF ahead
<1>7. CASE s = 1
  <2>1. Cardinality(Positions(sent'[1], b)) =
            Cardinality(Positions(sent[1], b)) + (IF m = b THEN 1 ELSE 0)
    <3> HIDE DEF m
    <3>1. sent[1] \in Seq(Messages) /\ m \in Messages /\ sent'[1] = Append(sent[1], m)
      BY <1>2, <1>3, <1>7
    <3> QED BY <3>1, CountAppend
  <2>2. InHand(b) <=> m = b
    BY <1>1, <1>6, <1>7 DEF InHand
  <2>3. ~InHand(b)'
    <3>1. Subs # 1 => Len(sent'[1]) # Len(sent'[Subs])
      BY <1>2, <1>3, <1>6, <1>7
    <3> QED BY <1>1, <1>7, <3>1 DEF InHand
  <2>4. Cardinality(Positions(sent[1], b)) \in Nat /\ Cardinality(Positions(queue, b)) \in Nat
    BY TotalType DEF TipInv
  <2> HIDE DEF m
  <2> QED BY <1>1, <2>1, <2>2, <2>3, <2>4 DEF Total
<1>8. CASE s # 1
  <2>1. sent'[1] = sent[1]
    BY <1>2, <1>3, <1>8
  <2>2. ~InHand(b)
    BY <1>1, <1>6, <1>8 DEF InHand
  <2>3. ~InHand(b)'
    <3>1. CASE s = Subs
      BY <1>1, <3>1 DEF InHand
    <3>2. CASE s # Subs
      <4>1. Len(sent'[Subs]) = n /\ Len(sent'[1]) # n
        BY <1>2, <1>3, <1>6, <1>8, <2>1, <3>2
      <4> QED BY <1>1, <3>2, <4>1 DEF InHand
    <3> QED BY <3>1, <3>2
  <2> QED BY <1>1, <2>1, <2>2, <2>3 DEF Total
<1> QED BY <1>7, <1>8

-----------------------------------------------------------------------------
(* The repetitions: what leaves all as it is, or makes it better.          *)

LEMMA ReachFinite ==
    ASSUME NEW b, NEW Lag, NEW S
    PROVE  /\ IsFiniteSet(Reach(b, Lag)) /\ Cardinality(Reach(b, Lag)) \in Nat
           /\ IsFiniteSet(Reach(b, Lag) \cap S) /\ Cardinality(Reach(b, Lag) \cap S) \in Nat
           /\ Cardinality(Reach(b, Lag) \cap S) <= Cardinality(Reach(b, Lag))
<1>1. IsFiniteSet(1..MaxTip)
  BY ConstantTypes, FS_Interval
<1>2. Reach(b, Lag) \in SUBSET (1..MaxTip)
  BY DEF Reach
<1>3. IsFiniteSet(Reach(b, Lag))
  BY <1>1, <1>2, FS_Subset
<1>4. /\ IsFiniteSet(Reach(b, Lag) \cap S)
      /\ Cardinality(Reach(b, Lag) \cap S) <= Cardinality(Reach(b, Lag))
  BY <1>3, FS_Intersection
<1> QED BY <1>3, <1>4, FS_CardinalityType

LEMMA SafeKept ==
    ASSUME UNCHANGED last_tips, last_tips \in Seq(0..MaxTip), Announced(Hands)' \subseteq Announced(Hands),
           NEW b, NEW Lag, Safe(b, Lag)
    PROVE  Safe(b, Lag)'
<1> DEFINE S == Reach(b, Lag) \cap Announced(Hands)
           T == Reach(b, Lag) \cap Announced(Hands)'
<1>1. PICK i \in 1..Len(last_tips) :
          last_tips[i] = b /\ Cardinality(S) < i + WindowSize - Len(last_tips)
  BY DEF Safe
<1>2. T \in SUBSET S /\ IsFiniteSet(S) /\ Cardinality(S) \in Nat /\ Cardinality(T) \in Nat
  BY ReachFinite
<1>3. Cardinality(T) <= Cardinality(S)
  BY <1>2, FS_Subset
<1> HIDE DEF S
<1>4. Cardinality(T) < i + WindowSize - Len(last_tips)
  <2> HIDE DEF T
  <2>1. Len(last_tips) \in Nat /\ WindowSize \in Nat
    BY ConstantTypes, LenProperties
  <2> QED BY <1>1, <1>2, <1>3, <2>1
<1> QED BY <1>1, <1>4 DEF Safe

LEMMA RepeatsKept ==
    ASSUME TypeOK, TypeOK', NEW b, NEW Lag, Repeats(b, Lag),
           Total(b)' + ToCome(b)' <= Total(b) + ToCome(b), Done(b, Lag) => Done(b, Lag)'
    PROVE  Repeats(b, Lag)'
<1>1. Total(b) \in Nat /\ Total(b)' \in Nat
  <2>1. TypeOK => Total(b) \in Nat
    BY TotalType DEF Total
  <2>2. queue' \in Seq(Messages) /\ sent'[1] \in Seq(Messages)
    BY ConstantTypes DEF TypeOK
  <2>3. /\ Cardinality(Positions(queue', b)) \in Nat
        /\ Cardinality(Positions(sent'[1], b)) \in Nat
    BY <2>2, PositionsFinite
  <2> QED BY <2>1, <2>3 DEF Total
<1>2. ToCome(b) \in Nat /\ ToCome(b)' \in Nat
  BY DEF ToCome
<1> QED BY <1>1, <1>2 DEF Repeats

LEMMA RepeatsLess ==
    ASSUME TypeOK, TypeOK', NEW b, NEW Lag, Repeats(b, Lag),
           Total(b)' = Total(b), ToCome(b)' <= ToCome(b), Done(b, Lag) => Done(b, Lag)'
    PROVE  Repeats(b, Lag)'
<1>1. Total(b) \in Nat
  BY TotalType DEF Total
<1>2. ToCome(b) \in Nat /\ ToCome(b)' \in Nat
  BY DEF ToCome
<1> QED BY <1>1, <1>2, RepeatsKept

(* bitcoind and the others: zmq and polling stay where they are.           *)
LEMMA RepeatsAlone ==
    ASSUME TypeOK, TypeOK', UNCHANGED <<tip, feed, last_tips>>,
           \A t \in Feeders : pc'[t] = pc[t] /\ msg'[t] = msg[t],
           NEW b, NEW Lag, Repeats(b, Lag), Total(b)' = Total(b)
    PROVE  Repeats(b, Lag)'
<1>1. pc'["zmq"] = pc["zmq"] /\ msg'["zmq"] = msg["zmq"] /\ pc'["polling"] = pc["polling"]
      /\ msg'["polling"] = msg["polling"]
  BY ThreadNames
<1>2. \A places : Announced(places)' = Announced(places)
  BY <1>1 DEF Announced
<1>3. ToCome(b)' = ToCome(b) /\ (Safe(b, Lag)' <=> Safe(b, Lag)) /\ NextLookup' = NextLookup
  BY <1>1, <1>2 DEF ToCome, Safe, NextLookup
<1>4. Done(b, Lag)' <=> Done(b, Lag)
  BY <1>1, <1>3 DEF Done
<1> QED BY <1>3, <1>4 DEF Repeats

LEMMA NewTipRepeats ==
    ASSUME TipInv, TipInv', InOrder, NewTip, NEW b \in 0..MaxTip, NEW Lag, Repeats(b, Lag)
    PROVE  Repeats(b, Lag)'
<1>1. /\ UNCHANGED <<queue, sent, last_tips, pc, msg>> /\ tip' = tip + 1
      /\ feed' = feed \/ feed' = Append(feed, tip')
  BY DEF NewTip, threadVars
<1>2. tip \in Nat /\ tip' \in 0..MaxTip /\ feed \in Seq(0..MaxTip) /\ last_tips \in Seq(0..MaxTip)
  BY DEF TipInv, TypeOK
<1>3. \A v : Contains(feed', v) => Contains(feed, v) \/ v = tip + 1
  <2>1. \A v : Contains(Append(feed, tip'), v) <=> (Contains(feed, v) \/ tip' = v)
    BY <1>2, ContainsAppend
  <2> QED BY <1>1, <2>1
<1>4. \A places : Announced(places)' \subseteq Announced(places)
  BY <1>1, <1>2, <1>3 DEF Announced
<1>5. ToCome(b)' <= ToCome(b)
  <2>1. Announced({"check", "put"})' \subseteq Announced({"check", "put"})
    BY <1>4
  <2> QED BY <2>1 DEF ToCome
<1>6. Total(b)' = Total(b)
  BY <1>1, TotalAlone
<1>7. Safe(b, Lag) => Safe(b, Lag)'
  BY <1>1, <1>2, <1>4, SafeKept
<1>8. Done(b, Lag) => Done(b, Lag)'
  <2>1. msg["polling"] \in Nat
    BY ThreadNames DEF TipInv
  <2>2. CASE pc["polling"] \in Hands
    BY <1>1, <1>7, <2>2 DEF Done, NextLookup
  <2>3. CASE pc["polling"] \notin Hands
    BY <1>1, <1>2, <2>3 DEF Done, NextLookup
  <2> QED BY <2>2, <2>3
<1> QED BY <1>5, <1>6, <1>8, RepeatsLess DEF TipInv

LEMMA monitor_chainRepeats ==
    ASSUME TipInv, TipInv', InOrder, monitor_chain, NEW b \in 0..MaxTip, NEW Lag, Repeats(b, Lag)
    PROVE  Repeats(b, Lag)'
<1>1. /\ UNCHANGED <<tip, feed, msg, queue, sent>>
      /\ pc' = [pc EXCEPT !["polling"] = "loop", !["zmq"] = "loop"]
      /\ last_tips = <<>> /\ \A t \in Feeders : pc[t] = "none"
  BY DEF monitor_chain, bitcoindVars, InOrder
<1>2. /\ pc["polling"] = "none" /\ pc["zmq"] = "none" /\ pc'["polling"] = "loop"
      /\ pc'["zmq"] = "loop" /\ pc'["notify"] = pc["notify"]
  BY <1>1, ThreadNames DEF TipInv, TypeOK, Threads
<1>3. Total(b)' = Total(b)
  BY <1>1, <1>2, TotalAlone
<1>4. Announced({"check", "put"})' = Announced({"check", "put"})
  BY <1>1, <1>2 DEF Announced
<1>5. ToCome(b)' = ToCome(b)
  BY <1>4 DEF ToCome
<1>6. ~Safe(b, Lag)
  BY <1>1 DEF Safe
<1>7. NextLookup = tip /\ NextLookup' = tip
  BY <1>1, <1>2 DEF NextLookup, Hands
<1>8. Done(b, Lag) => Done(b, Lag)'
  BY <1>2, <1>6, <1>7 DEF Done
<1> QED BY <1>3, <1>5, <1>8 DEF Repeats

(* zmq takes a tip from the feed, or looks it up.                          *)
LEMMA ZmqRepeats ==
    ASSUME TipInv, TipInv', InOrder, Recv \/ Loop("zmq") \/ Check("zmq"),
           NEW b \in 0..MaxTip, NEW Lag, Repeats(b, Lag)
    PROVE  Repeats(b, Lag)'
<1>1. UNCHANGED <<tip, last_tips, queue, sent>>
  BY DEF Recv, Loop, Check, bitcoindVars
<1>2. "zmq" \in Threads /\ "zmq" # "notify" /\ "zmq" # "polling" /\ "polling" \in Threads
      /\ "notify" \in Threads
  BY ThreadNames
<1>3. /\ pc'["notify"] = pc["notify"] /\ msg'["notify"] = msg["notify"]
      /\ pc'["polling"] = pc["polling"] /\ msg'["polling"] = msg["polling"]
  BY <1>2 DEF Recv, Loop, Check, Take, Goto, TipInv, TypeOK
<1>4. ASSUME NEW places, places = Hands \/ places = {"check", "put"}
      PROVE  Announced(places)' \subseteq Announced(places)
  <2>1. CASE Recv
    <3>1. /\ feed # <<>> /\ feed' = Tail(feed) /\ msg'["zmq"] = Head(feed) /\ feed \in Seq(0..MaxTip)
      BY <1>2, <2>1 DEF Recv, Take, TipInv, TypeOK
    <3>2. \A v : Contains(feed, v) <=> (Head(feed) = v \/ Contains(Tail(feed), v))
      BY <3>1, ContainsTail
    <3> QED BY <1>1, <3>1, <3>2 DEF Announced
  <2>2. CASE Loop("zmq") \/ Check("zmq")
    <3>1. UNCHANGED <<feed, msg>>
      BY <2>2 DEF Loop, Check, bitcoindVars
    <3>2. pc'["zmq"] \in Hands => pc["zmq"] = "check" /\ pc'["zmq"] = "put"
      BY <1>2, <2>2 DEF Loop, Check, Goto, First, Hands, TipInv, TypeOK
    <3>3. pc'["zmq"] \in places => pc["zmq"] \in places
      BY <1>4, <3>2 DEF Hands
    <3> QED BY <1>1, <3>1, <3>3 DEF Announced
  <2> QED BY <2>1, <2>2
<1>5. ToCome(b)' <= ToCome(b)
  <2>1. Announced({"check", "put"})' \subseteq Announced({"check", "put"})
    BY <1>4
  <2> QED BY <2>1 DEF ToCome
<1>6. Total(b)' = Total(b)
  BY <1>1, <1>3, TotalAlone
<1>7. Safe(b, Lag) => Safe(b, Lag)'
  BY <1>1, <1>4, SafeKept DEF TipInv, TypeOK
<1>8. Done(b, Lag) => Done(b, Lag)'
  BY <1>1, <1>3, <1>7 DEF Done, NextLookup
<1> QED BY <1>5, <1>6, <1>8, RepeatsLess DEF TipInv

(* polling asks bitcoind, and looks up what it has been told: if b is safe *)
(* there it does not put it.                                               *)
LEMMA PollingRepeats ==
    ASSUME TipInv, TipInv', InOrder, Loop("polling") \/ Answer \/ NoAnswer \/ Check("polling"),
           NEW b \in 0..MaxTip, NEW Lag, Repeats(b, Lag)
    PROVE  Repeats(b, Lag)'
<1>1. UNCHANGED <<tip, feed, last_tips, queue, sent>>
  BY DEF Answer, NoAnswer, Loop, Check, bitcoindVars
<1>2. "zmq" \in Threads /\ "polling" # "notify" /\ "zmq" # "polling" /\ "polling" \in Threads
      /\ "notify" \in Threads
  BY ThreadNames
<1>3. /\ pc'["notify"] = pc["notify"] /\ msg'["notify"] = msg["notify"]
      /\ pc'["zmq"] = pc["zmq"] /\ msg'["zmq"] = msg["zmq"]
  BY <1>2 DEF Answer, NoAnswer, Loop, Check, Take, Goto, TipInv, TypeOK
<1>4. \A places : Announced(places)' = Announced(places)
  BY <1>1, <1>3 DEF Announced
<1>5. ToCome(b)' = ToCome(b) /\ (Safe(b, Lag)' <=> Safe(b, Lag))
  BY <1>1, <1>4 DEF ToCome, Safe
<1>6. Total(b)' = Total(b)
  BY <1>1, <1>3, TotalAlone
<1>7. /\ tip \in Nat /\ msg["polling"] \in Nat
      /\ pc["polling"] \in Hands => msg["polling"] <= tip
  BY ThreadNames DEF TipInv, TypeOK, InOrder
<1>8. Done(b, Lag) => Done(b, Lag)'
  <2>1. CASE Loop("polling") \/ Answer \/ NoAnswer
    <3>1. NextLookup = tip /\ NextLookup' = tip /\ pc["polling"] # "append" /\ pc'["polling"] # "put"
      BY <1>1, <1>2, <2>1
         DEF Loop, First, Answer, NoAnswer, Take, Goto, NextLookup, Hands, TipInv, TypeOK
    <3> QED BY <1>5, <3>1 DEF Done
  <2>2. CASE Check("polling")
    <3> DEFINE m == msg["polling"]
    <3>1. /\ pc["polling"] = "check" /\ UNCHANGED msg
          /\ pc'["polling"] = IF Contains(last_tips, m) THEN "loop" ELSE "put"
      BY <1>2, <2>2 DEF Check, Goto, TipInv, TypeOK
    <3>2. NextLookup = m /\ NextLookup' = IF Contains(last_tips, m) THEN tip ELSE m
      BY <1>1, <3>1 DEF NextLookup, Hands
    <3>3. m <= tip
      BY <1>7, <3>1 DEF Hands
    <3>4. Safe(b, Lag) => Contains(last_tips, b)
      BY DEF Safe, Contains
    <3> HIDE DEF m
    <3>5. ASSUME Done(b, Lag) PROVE Done(b, Lag)'
      <4>1. m > b \/ (m = b /\ Safe(b, Lag))
        BY <3>1, <3>2, <3>5 DEF Done
      <4>2. CASE m > b
        <5>1. NextLookup' > b
          BY <1>7, <3>2, <3>3, <4>2 DEF m
        <5> QED BY <5>1 DEF Done
      <4>3. CASE m = b /\ Safe(b, Lag)
        <5>1. pc'["polling"] = "loop" /\ NextLookup' = tip /\ (tip > b \/ tip = b)
          BY <1>7, <3>1, <3>2, <3>3, <3>4, <4>3 DEF m
        <5> QED BY <1>5, <4>3, <5>1 DEF Done
      <4> QED BY <4>1, <4>2, <4>3
    <3> QED BY <3>5
  <2> QED BY <2>1, <2>2
<1> QED BY <1>5, <1>6, <1>8 DEF Repeats

(* zmq puts what had still to come from it, and will not come again.       *)
LEMMA ZmqPutRepeats ==
    ASSUME TipInv, TipInv', InOrder, Put("zmq"), NEW b \in 0..MaxTip, NEW Lag, Repeats(b, Lag)
    PROVE  Repeats(b, Lag)'
<1> DEFINE m == msg["zmq"]
<1>1. /\ UNCHANGED <<tip, feed, last_tips, msg>> /\ pc["zmq"] = "put" /\ pc'["zmq"] = "append"
      /\ pc'["polling"] = pc["polling"]
  BY ThreadNames DEF Put, Goto, bitcoindVars, TipInv, TypeOK
<1>2. Total(b)' = Total(b) + (IF m = b THEN 1 ELSE 0)
  BY ThreadNames, TotalPut
<1>3. /\ m \in 1..tip /\ tip \in 0..MaxTip
      /\ \A i \in 1..Len(feed) : m < feed[i] /\ feed[i] \in 1..tip
  <2>1. m \in Nat /\ tip \in 0..MaxTip
    BY ThreadNames DEF TipInv, TypeOK
  <2>2. pc["zmq"] \in Hands
    BY <1>1 DEF Hands
  <2>3. /\ m # 0 /\ m <= tip
        /\ \A i \in 1..Len(feed) : m < feed[i] /\ feed[i] \in 1..tip
    BY <2>2, ThreadNames DEF InOrder
  <2> QED BY <2>1, <2>3
<1>4. ~Contains(feed, m)
  BY <1>3 DEF Contains
<1>5. /\ b \in Announced({"check", "put"})' => b \in Announced({"check", "put"})
      /\ m \in Announced({"check", "put"}) /\ m \notin Announced({"check", "put"})'
  <2>1. m \in 1..MaxTip /\ ~(m > tip)
    BY <1>3, ConstantTypes
  <2>2. m \in Announced({"check", "put"})
    BY <1>1, <2>1 DEF Announced
  <2>3. m \notin Announced({"check", "put"})'
    BY <1>1, <1>4, <2>1 DEF Announced
  <2> QED BY <1>1, <2>2, <2>3 DEF Announced
<1>6. /\ ToCome(b) \in Nat /\ ToCome(b)' \in Nat
      /\ ToCome(b)' + (IF m = b THEN 1 ELSE 0) <= ToCome(b)
  <2> HIDE DEF m
  <2>1. CASE m = b
    BY <1>5, <2>1 DEF ToCome
  <2>2. CASE m # b
    BY <1>5, <2>2 DEF ToCome
  <2> QED BY <2>1, <2>2
<1>7. Announced(Hands)' = Announced(Hands)
  BY <1>1 DEF Announced, Hands
<1>8. Safe(b, Lag)' <=> Safe(b, Lag)
  BY <1>1, <1>7 DEF Safe
<1>9. Done(b, Lag)' <=> Done(b, Lag)
  BY <1>1, <1>8 DEF Done, NextLookup
<1>10. Total(b) \in Nat
  BY TotalType DEF TipInv, Total
<1> HIDE DEF m
<1>11. Total(b)' + ToCome(b)' <= Total(b) + ToCome(b)
  BY <1>2, <1>6, <1>10
<1> QED BY <1>9, <1>11, RepeatsKept DEF TipInv

(* polling puts a tip for the first time, and has done with it.            *)
LEMMA PollingPutRepeats ==
    ASSUME TipInv, TipInv', InOrder, Put("polling"), NEW b \in 0..MaxTip, NEW Lag, Repeats(b, Lag)
    PROVE  Repeats(b, Lag)'
<1> DEFINE m == msg["polling"]
<1>1. /\ UNCHANGED <<tip, feed, last_tips, msg>> /\ pc["polling"] = "put" /\ pc'["polling"] = "append"
      /\ pc'["zmq"] = pc["zmq"]
  BY ThreadNames DEF Put, Goto, bitcoindVars, TipInv, TypeOK
<1>2. Total(b)' = Total(b) + (IF m = b THEN 1 ELSE 0)
  BY ThreadNames, TotalPut
<1>3. \A places : Announced(places)' = Announced(places)
  BY <1>1 DEF Announced
<1>4. ToCome(b)' = ToCome(b) /\ ToCome(b) \in Nat
  BY <1>3 DEF ToCome
<1>5. NextLookup = m /\ NextLookup' = m
  BY <1>1 DEF NextLookup, Hands
<1>6. m \in Nat /\ Total(b) \in Nat
  BY TotalType, ThreadNames DEF TipInv, Total
<1> HIDE DEF m
<1>7. CASE m = b
  <2>1. ~Done(b, Lag)
    BY <1>1, <1>5, <1>6, <1>7 DEF Done
  <2>2. Total(b) + ToCome(b) <= 1
    BY <2>1 DEF Repeats
  <2>3. Total(b)' + ToCome(b)' <= 2
    BY <1>2, <1>4, <1>6, <1>7, <2>2
  <2>4. Done(b, Lag)'
    BY <1>1, <1>5, <1>7 DEF Done
  <2> QED BY <2>3, <2>4 DEF Repeats
<1>8. CASE m # b
  <2>1. Done(b, Lag) => Done(b, Lag)'
    BY <1>1, <1>5, <1>8 DEF Done
  <2>2. Total(b)' = Total(b)
    BY <1>2, <1>6, <1>8
  <2> QED BY <1>4, <2>1, <2>2 DEF Repeats
<1> QED BY <1>7, <1>8

(* A tip goes to the end of last_tips, and moves the others down when the  *)
(* window is full.                                                         *)
LEMMA PushTip ==
    ASSUME TipInv, NEW t \in Feeders, AppendTip(t)
    PROVE  \E d \in {0, 1} :
               /\ Len(last_tips') = Len(last_tips) + 1 - d /\ Len(last_tips') \in Nat \ {0}
               /\ d = 1 => Len(last_tips) = WindowSize
               /\ last_tips'[Len(last_tips')] = msg[t]
               /\ \A i \in 1..Len(last_tips) : i > d => last_tips'[i - d] = last_tips[i]
<1> DEFINE tips == Append(last_tips, msg[t])
<1>1. last_tips' = IF Len(tips) > WindowSize THEN Tail(tips) ELSE tips
  BY DEF AppendTip
<1>2. /\ last_tips \in Seq(0..MaxTip) /\ Len(last_tips) <= WindowSize /\ msg[t] \in 0..MaxTip
      /\ Len(last_tips) \in Nat /\ WindowSize \in Nat \ {0}
  BY ConstantTypes, LenProperties DEF TipInv, TypeOK
<1>3. /\ tips \in Seq(0..MaxTip) /\ Len(tips) = Len(last_tips) + 1 /\ tips # <<>>
      /\ \A i \in 1..Len(last_tips) : tips[i] = last_tips[i]
      /\ tips[Len(last_tips) + 1] = msg[t]
  BY <1>2, AppendProperties
<1> HIDE DEF tips
<1>4. CASE Len(tips) > WindowSize
  <2>1. Len(last_tips) = WindowSize
    BY <1>2, <1>3, <1>4
  <2>2. /\ last_tips' = Tail(tips) /\ Len(last_tips') = Len(last_tips)
        /\ \A i \in 1..Len(last_tips) : last_tips'[i] = tips[i + 1]
    BY <1>1, <1>2, <1>3, <1>4, HeadTailProperties
  <2>3. last_tips'[Len(last_tips')] = msg[t]
    BY <1>2, <1>3, <2>1, <2>2
  <2>4. ASSUME NEW i \in 1..Len(last_tips), i > 1 PROVE last_tips'[i - 1] = last_tips[i]
    <3>1. i - 1 \in 1..Len(last_tips) /\ i - 1 + 1 = i
      BY <1>2, <2>4
    <3>2. last_tips'[i - 1] = tips[i - 1 + 1]
      BY <2>2, <3>1
    <3> QED BY <1>3, <3>1, <3>2
  <2>5. Len(last_tips') = Len(last_tips) + 1 - 1 /\ Len(last_tips') \in Nat \ {0}
    BY <1>2, <2>1, <2>2
  <2> QED BY <2>1, <2>3, <2>4, <2>5
<1>5. CASE ~(Len(tips) > WindowSize)
  <2>1. last_tips' = tips
    BY <1>1, <1>5
  <2>2. \A i \in 1..Len(last_tips) : last_tips'[i - 0] = last_tips[i]
    BY <1>2, <1>3, <2>1
  <2>3. Len(last_tips') = Len(last_tips) + 1 - 0 /\ Len(last_tips') \in Nat \ {0}
    BY <1>2, <1>3, <2>1
  <2>4. last_tips'[Len(last_tips')] = msg[t]
    BY <1>3, <2>1
  <2> QED BY <2>2, <2>3, <2>4
<1> QED BY <1>4, <1>5

(* What has just been appended is safe: there are not enough tips within   *)
(* its reach to push it out.                                               *)
LEMMA LastIsSafe ==
    ASSUME TipInv, NEW t \in Feeders, AppendTip(t), NEW Lag,
           Cardinality(Reach(msg[t], Lag)) < WindowSize
    PROVE  Safe(msg[t], Lag)'
<1> DEFINE S == Reach(msg[t], Lag)
           T == S \cap Announced(Hands)'
           n == Len(last_tips')
<1>1. n \in Nat \ {0} /\ last_tips'[n] = msg[t] /\ msg' = msg
  BY PushTip DEF AppendTip
<1>2. Cardinality(S) \in Nat /\ Cardinality(T) \in Nat /\ Cardinality(T) <= Cardinality(S)
  BY ReachFinite
<1>3. Cardinality(S) < WindowSize /\ WindowSize \in Nat
  BY ConstantTypes
<1> HIDE DEF S, n
<1>4. Cardinality(T) < n + WindowSize - n
  <2> HIDE DEF T
  <2> QED BY <1>1, <1>2, <1>3
<1>5. n \in 1..n
  BY <1>1
<1> QED BY <1>1, <1>4, <1>5 DEF Safe, S, n

(* polling notes the tip it has put; it will not look it up again, or will *)
(* find it.                                                                *)
LEMMA PollingAppendRepeats ==
    ASSUME TipInv, TipInv', InOrder, AppendTip("polling"),
           NEW Lag, \A c \in 1..MaxTip : Cardinality(Reach(c, Lag)) < WindowSize,
           NEW b \in 0..MaxTip, Repeats(b, Lag)
    PROVE  Repeats(b, Lag)'
<1> DEFINE m == msg["polling"]
<1>1. /\ UNCHANGED <<tip, feed, queue, sent, msg>> /\ pc["polling"] = "append" /\ pc'["polling"] = "loop"
      /\ pc'["zmq"] = pc["zmq"] /\ pc'["notify"] = pc["notify"]
  BY ThreadNames DEF AppendTip, Goto, bitcoindVars, TipInv, TypeOK
<1>2. Total(b)' = Total(b)
  BY <1>1, TotalAlone
<1>3. \A places : Announced(places)' = Announced(places)
  BY <1>1 DEF Announced
<1>4. ToCome(b)' = ToCome(b)
  BY <1>3 DEF ToCome
<1>5. NextLookup = m /\ NextLookup' = tip
  BY <1>1 DEF NextLookup, Hands
<1>6. m \in 0..MaxTip /\ tip \in 0..MaxTip /\ m <= tip /\ tip # 0
  BY <1>1, ThreadNames DEF TipInv, TypeOK, InOrder, Hands
<1>7. ASSUME m \in 1..MaxTip PROVE Safe(m, Lag)'
  BY <1>7, ThreadNames, LastIsSafe
<1>8. ASSUME Done(b, Lag) PROVE Done(b, Lag)'
  <2>1. m > b \/ m = b
    BY <1>5, <1>8 DEF Done
  <2>2. CASE tip > b
    BY <1>5, <2>2 DEF Done
  <2>3. CASE ~(tip > b)
    <3>1. m = b /\ tip = b /\ m \in 1..MaxTip
      BY <1>6, <2>1, <2>3, ConstantTypes
    <3>2. Safe(b, Lag)'
      <4> HIDE DEF m
      <4>1. m = b
        BY <3>1
      <4>2. Safe(m, Lag)'
        BY <1>7, <3>1
      <4> QED BY <1>1, <4>1, <4>2 DEF m
    <3> QED BY <1>1, <1>5, <3>1, <3>2 DEF Done
  <2> QED BY <2>2, <2>3
<1> QED BY <1>2, <1>4, <1>8 DEF Repeats

(* zmq notes the tip it has put.  It may push others out; but that tip was *)
(* counted among those that could, if no thread is Lag tips behind.        *)
LEMMA ZmqAppendRepeats ==
    ASSUME TipInv, TipInv', InOrder, AppendTip("zmq"),
           NEW Lag \in Nat \ {0}, Prompt(Lag),
           \A c \in 1..MaxTip : Cardinality(Reach(c, Lag)) < WindowSize,
           NEW b \in 0..MaxTip, Repeats(b, Lag)
    PROVE  Repeats(b, Lag)'
<1> DEFINE v == msg["zmq"]
<1>1. /\ UNCHANGED <<tip, feed, queue, sent, msg>> /\ pc["zmq"] = "append" /\ pc'["zmq"] = "loop"
      /\ pc'["polling"] = pc["polling"] /\ pc'["notify"] = pc["notify"]
  BY ThreadNames DEF AppendTip, Goto, bitcoindVars, TipInv, TypeOK
<1>2. Total(b)' = Total(b)
  BY <1>1, TotalAlone
<1>3. ToCome(b)' = ToCome(b)
  <2>1. Announced({"check", "put"})' = Announced({"check", "put"})
    BY <1>1 DEF Announced
  <2> QED BY <2>1 DEF ToCome
<1>4. NextLookup' = NextLookup
  BY <1>1 DEF NextLookup
<1>5. /\ v \in Nat /\ v # 0 /\ v <= tip /\ tip \in Nat /\ tip <= MaxTip /\ MaxTip \in Nat
      /\ \A i \in 1..Len(feed) : v < feed[i] /\ feed[i] \in 1..tip
  <2>1. v \in 0..MaxTip /\ tip \in 0..MaxTip /\ MaxTip \in Nat
    BY ThreadNames, ConstantTypes DEF TipInv, TypeOK
  <2>2. pc["zmq"] \in Hands
    BY <1>1 DEF Hands
  <2>3. /\ v # 0 /\ v <= tip
        /\ \A i \in 1..Len(feed) : v < feed[i] /\ feed[i] \in 1..tip
    BY <2>2, ThreadNames DEF InOrder
  <2> QED BY <2>1, <2>3
<1>6. v \in 1..MaxTip /\ ~Contains(feed, v)
  <2>1. v \in 1..MaxTip
    BY <1>5
  <2>2. ~Contains(feed, v)
    BY <1>5 DEF Contains
  <2> QED BY <2>1, <2>2
<1>7. Announced(Hands)' = Announced(Hands) \ {v} /\ v \in Announced(Hands)
  <2>1. "append" \in Hands /\ "loop" \notin Hands
    BY DEF Hands
  <2>2. ~(v > tip)
    BY <1>5
  <2>3. v \in Announced(Hands)
    BY <1>1, <1>6, <2>1 DEF Announced
  <2>4. Announced(Hands)' = {x \in 1..MaxTip : Contains(feed, x) \/ x > tip}
    BY <1>1, <2>1 DEF Announced
  <2>5. v \notin Announced(Hands)'
    BY <1>6, <2>2, <2>4
  <2>6. Announced(Hands) = Announced(Hands)' \cup {v}
    BY <1>1, <1>6, <2>1, <2>4 DEF Announced
  <2> QED BY <2>3, <2>5, <2>6
<1>8. ASSUME NextLookup = b, Safe(b, Lag) PROVE Safe(b, Lag)'
  <2>1. CASE v = b
    <3>1. Cardinality(Reach(msg["zmq"], Lag)) < WindowSize
      BY <1>6
    <3>2. Safe(msg["zmq"], Lag)'
      BY <3>1, ThreadNames, LastIsSafe
    <3>3. msg'["zmq"] = b
      BY <1>1, <2>1
    <3> QED BY <3>2, <3>3
  <2>2. CASE v # b
    <3>1. v \in Reach(b, Lag)
      <4>1. tip < v + Lag
        BY <1>1, ThreadNames DEF Prompt, Hands
      <4>2. b <= tip /\ tip < b + Lag
        <5>1. CASE pc["polling"] \in Hands
          BY <1>8, <5>1, ThreadNames DEF NextLookup, Prompt, InOrder
        <5>2. CASE pc["polling"] \notin Hands
          BY <1>5, <1>8, <5>2 DEF NextLookup
        <5> QED BY <5>1, <5>2
      <4>3. v < b + Lag /\ b < v + Lag
        BY <1>5, <4>1, <4>2
      <4> HIDE DEF v
      <4> QED BY <1>6, <2>2, <4>3 DEF Reach
    <3> DEFINE S == Reach(b, Lag) \cap Announced(Hands)
               T == Reach(b, Lag) \cap Announced(Hands)'
    <3>2. T = S \ {v} /\ v \in S
      BY <1>7, <3>1
    <3>3. IsFiniteSet(S) /\ Cardinality(S) \in Nat /\ Cardinality(T) \in Nat
      BY ReachFinite
    <3>4. PICK i \in 1..Len(last_tips) :
              last_tips[i] = b /\ Cardinality(S) < i + WindowSize - Len(last_tips)
      BY <1>8 DEF Safe
    <3>5. PICK d \in {0, 1} :
              /\ Len(last_tips') = Len(last_tips) + 1 - d
              /\ d = 1 => Len(last_tips) = WindowSize
              /\ \A j \in 1..Len(last_tips) : j > d => last_tips'[j - d] = last_tips[j]
      BY ThreadNames, PushTip
    <3> HIDE DEF S, T, v
    <3>6. Cardinality(T) = Cardinality(S) - 1
      BY <3>2, <3>3, FS_RemoveElement
    <3>7. Len(last_tips) \in Nat /\ WindowSize \in Nat
      BY ConstantTypes, LenProperties DEF TipInv, TypeOK
    <3>8. i > d /\ i - d \in 1..Len(last_tips')
      BY <3>3, <3>4, <3>5, <3>6, <3>7
    <3>9. last_tips'[i - d] = b
      BY <3>4, <3>5, <3>8
    <3>10. Cardinality(T) < (i - d) + WindowSize - Len(last_tips')
      BY <3>3, <3>4, <3>5, <3>6, <3>7
    <3> QED BY <3>8, <3>9, <3>10 DEF Safe, T
  <2> QED BY <2>1, <2>2
<1>9. Done(b, Lag) => Done(b, Lag)'
  BY <1>1, <1>4, <1>8 DEF Done
<1> QED BY <1>2, <1>3, <1>9 DEF Repeats

-----------------------------------------------------------------------------
(* All steps.                                                              *)

LEMMA OthersQuiet ==
    ASSUME TipInv,
           \/ GoAway \/ ComeBack \/ Ask \/ Call \/ activate \/ terminate
           \/ Loop("notify") \/ GetMessage \/ Lock \/ \E s \in 1..Subs : Notify(s)
    PROVE  /\ UNCHANGED <<tip, feed, last_tips>>
           /\ \A t \in Feeders : pc'[t] = pc[t] /\ msg'[t] = msg[t]
           /\ status' = "IDLE" => status = "IDLE"
<1>1. CASE GoAway \/ ComeBack \/ Ask \/ Call \/ terminate
  BY <1>1 DEF GoAway, ComeBack, Ask, Call, terminate, threadVars, bitcoindVars
<1>2. CASE activate \/ Loop("notify") \/ GetMessage \/ Lock \/ \E s \in 1..Subs : Notify(s)
  <2>1. UNCHANGED <<tip, feed, last_tips>> /\ (status' = "IDLE" => status = "IDLE")
    BY <1>2 DEF activate, Loop, GetMessage, Lock, Notify, bitcoindVars
  <2>2. \A t \in Feeders : pc'[t] = pc[t] /\ msg'[t] = msg[t]
    BY <1>2, ThreadNames DEF activate, Loop, GetMessage, Lock, Notify, Take, Goto, TipInv, TypeOK
  <2> QED BY <2>1, <2>2
<1> QED BY <1>1, <1>2

LEMMA OthersTotal ==
    ASSUME TipInv, EndInv, NEW b \in 0..MaxTip,
           \/ GoAway \/ ComeBack \/ Ask \/ Call \/ activate \/ terminate
           \/ Loop("notify") \/ GetMessage \/ Lock \/ \E s \in 1..Subs : Notify(s)
    PROVE  Total(b)' = Total(b)
<1>1. CASE GoAway \/ ComeBack \/ Ask \/ Call
  BY <1>1, TotalAlone DEF GoAway, ComeBack, Ask, Call, threadVars
<1>2. CASE activate \/ Loop("notify")
  <2>1. /\ UNCHANGED <<sent, queue, msg>>
        /\ {pc["notify"], pc'["notify"]} \cap {"lock", "send"} = {}
    BY <1>2, ThreadNames DEF activate, Loop, First, Goto, TipInv, TypeOK, Asleep
  <2> QED BY <2>1, TotalAlone
<1>3. CASE Lock
  <2>1. /\ UNCHANGED <<sent, queue, msg>> /\ pc["notify"] = "lock" /\ pc'["notify"] = "send"
    BY <1>3, ThreadNames DEF Lock, Goto, TipInv, TypeOK
  <2>2. Len(sent[1]) = Len(sent[Subs])
    BY <2>1, ConstantTypes DEF EndInv, Served
  <2>3. InHand(b)' <=> InHand(b)
    BY <2>1, <2>2 DEF InHand
  <2> QED BY <2>1, <2>3 DEF Total
<1> QED BY <1>1, <1>2, <1>3, TotalEnd, TotalGet, TotalNotify

LEMMA StepOrder == TipInv /\ InOrder /\ [Next]_vars => InOrder'
<1> SUFFICES ASSUME TipInv, InOrder, [Next]_vars PROVE InOrder'
  OBVIOUS
<1>1. CASE \/ GoAway \/ ComeBack \/ Ask \/ Call \/ activate \/ terminate
           \/ Loop("notify") \/ GetMessage \/ Lock \/ \E s \in 1..Subs : Notify(s)
  BY <1>1, OthersQuiet, OrderAlone
<1>2. CASE NewTip \/ monitor_chain \/ Answer \/ Recv
  BY <1>2, NewTipOrder, monitor_chainOrder, AnswerOrder, RecvOrder
<1>3. CASE NoAnswer \/ \E t \in Feeders : Loop(t) \/ Enqueue(t)
  BY <1>3, ThreadNames, EnqueueOrder
<1>4. CASE UNCHANGED vars
  BY <1>4, OrderAlone DEF vars, bitcoindVars, threadVars
<1> QED BY <1>1, <1>2, <1>3, <1>4, ThreadNames DEF Next, Polling, Zmq, NotifySubscribers

LEMMA StepRepeats ==
    ASSUME NEW Lag \in Nat \ {0}, \A c \in 1..MaxTip : Cardinality(Reach(c, Lag)) < WindowSize,
           TipInv, TipInv', EndInv, InOrder, Prompt(Lag), [Next]_vars,
           NEW b \in 0..MaxTip, Repeats(b, Lag)
    PROVE  Repeats(b, Lag)'
<1>1. TypeOK /\ TypeOK'
  BY DEF TipInv
<1>2. CASE \/ GoAway \/ ComeBack \/ Ask \/ Call \/ activate \/ terminate
           \/ Loop("notify") \/ GetMessage \/ Lock \/ \E s \in 1..Subs : Notify(s)
  BY <1>1, <1>2, OthersQuiet, OthersTotal, RepeatsAlone
<1>3. CASE NewTip \/ monitor_chain
  BY <1>3, NewTipRepeats, monitor_chainRepeats
<1>4. CASE Recv \/ Loop("zmq") \/ Enqueue("zmq")
  BY <1>4, ZmqRepeats, ZmqPutRepeats, ZmqAppendRepeats DEF Enqueue
<1>5. CASE Loop("polling") \/ Answer \/ NoAnswer \/ Enqueue("polling")
  BY <1>5, PollingRepeats, PollingPutRepeats, PollingAppendRepeats DEF Enqueue
<1>6. CASE UNCHANGED vars
  <2>1. UNCHANGED <<tip, feed, last_tips, pc, msg, sent, queue>>
    BY <1>6 DEF vars, bitcoindVars, threadVars
  <2>2. Total(b)' = Total(b)
    BY <2>1, TotalAlone
  <2> QED BY <1>1, <2>1, <2>2, RepeatsAlone
<1> QED BY <1>2, <1>3, <1>4, <1>5, <1>6 DEF Next, Polling, Zmq, NotifySubscribers

LEMMA InitRepeats ==
    ASSUME Init, NEW b, NEW Lag
    PROVE  Repeats(b, Lag)
<1>1. sent[1] = <<>> /\ queue = <<>> /\ pc["notify"] = "none"
  BY ConstantTypes, ThreadNames DEF Init
<1>2. Positions(sent[1], b) = {} /\ Positions(queue, b) = {} /\ ~InHand(b)
  BY <1>1 DEF Positions, InHand
<1>3. Cardinality({}) = 0
  BY FS_EmptySet
<1>4. Total(b) = 0
  BY <1>2, <1>3 DEF Total
<1>5. ToCome(b) \in {0, 1}
  BY DEF ToCome
<1> QED BY <1>4, <1>5 DEF Repeats

(* No thread has been half a window behind, so none is.                    *)
LEMMA StepPrompt ==
    ASSUME NEW Lag \in Nat \ {0}, HalfWindow(Lag),
           TipInv, TipInv', [Next]_vars, Prompt(Lag), ~heldUp'
    PROVE  Prompt(Lag)'
<1>1. /\ tip \in Nat /\ tip' \in Nat
      /\ \A t \in Feeders : t \in Threads /\ msg[t] \in Nat /\ msg'[t] \in Nat
  BY ConstantTypes, ThreadNames DEF TipInv, TypeOK
<1>2. CASE \/ GoAway \/ ComeBack \/ Ask \/ Call \/ activate \/ terminate
           \/ Loop("notify") \/ GetMessage \/ Lock \/ \E s \in 1..Subs : Notify(s)
  BY <1>2, OthersQuiet DEF Prompt
<1>3. CASE NewTip
  <2>1. UNCHANGED <<pc, msg>> /\ \A t \in Feeders : pc[t] \in Hands => ~FarBehind(msg[t], tip')
    BY <1>3 DEF NewTip, threadVars
  <2>2. ASSUME NEW t \in Feeders, pc[t] \in Hands PROVE tip' < msg[t] + Lag
    BY <1>1, <2>1, <2>2 DEF HalfWindow
  <2> QED BY <2>1, <2>2 DEF Prompt
<1>4. CASE monitor_chain
  <2>1. \A t \in Feeders : pc'[t] = "loop"
    BY <1>4 DEF monitor_chain, TipInv, TypeOK, Threads, Feeders
  <2> QED BY <2>1 DEF Prompt, Hands
<1>5. CASE Answer
  <2>1. /\ tip' = tip /\ pc'["zmq"] = pc["zmq"] /\ msg'["zmq"] = msg["zmq"] /\ msg'["polling"] = tip
    BY <1>5, ThreadNames DEF Answer, Take, Goto, bitcoindVars, TipInv, TypeOK
  <2>2. tip < tip + Lag
    BY <1>1
  <2>3. ASSUME NEW t \in Feeders, pc'[t] \in Hands PROVE tip' < msg'[t] + Lag
    <3>1. CASE t = "polling"
      BY <2>1, <2>2, <3>1
    <3>2. CASE t = "zmq"
      BY <2>1, <2>3, <3>2 DEF Prompt
    <3> QED BY <3>1, <3>2 DEF Feeders
  <2> QED BY <2>3 DEF Prompt
<1>6. CASE Recv
  <2>1. /\ tip' = tip /\ pc'["polling"] = pc["polling"] /\ msg'["polling"] = msg["polling"]
        /\ msg'["zmq"] = Head(feed) /\ ~FarBehind(Head(feed), tip)
    BY <1>6, ThreadNames DEF Recv, Take, Goto, TipInv, TypeOK
  <2>2. tip < msg'["zmq"] + Lag
    BY <1>1, <2>1, ThreadNames DEF HalfWindow
  <2>3. ASSUME NEW t \in Feeders, pc'[t] \in Hands PROVE tip' < msg'[t] + Lag
    <3>1. CASE t = "zmq"
      BY <2>1, <2>2, <3>1
    <3>2. CASE t = "polling"
      BY <2>1, <2>3, <3>2 DEF Prompt
    <3> QED BY <3>1, <3>2 DEF Feeders
  <2> QED BY <2>3 DEF Prompt
<1>7. CASE NoAnswer \/ \E t \in Feeders : Loop(t) \/ Enqueue(t)
  <2>1. PICK t \in Feeders : \/ t = "polling" /\ NoAnswer
                             \/ Loop(t) \/ Check(t) \/ Put(t) \/ AppendTip(t)
    BY <1>7, ThreadNames DEF Enqueue
  <2>2. UNCHANGED <<tip, msg>> /\ \A x \in Feeders : x # t => pc'[x] = pc[x]
    BY <2>1, ThreadNames
       DEF NoAnswer, Loop, Check, Put, AppendTip, Goto, bitcoindVars, TipInv, TypeOK
  <2>3. pc'[t] \in Hands => pc[t] \in Hands
    <3>1. CASE Loop(t) \/ (t = "polling" /\ NoAnswer)
      BY <3>1, ThreadNames DEF Loop, NoAnswer, Goto, First, Hands, Feeders, TipInv, TypeOK
    <3>2. CASE Check(t) \/ Put(t) \/ AppendTip(t)
      BY <3>2 DEF Check, Put, AppendTip, Hands
    <3> QED BY <2>1, <3>1, <3>2
  <2> QED BY <2>2, <2>3 DEF Prompt
<1>8. CASE UNCHANGED vars
  BY <1>8 DEF vars, bitcoindVars, threadVars, Prompt
<1> QED BY <1>2, <1>3, <1>4, <1>5, <1>6, <1>7, <1>8, ThreadNames
        DEF Next, Polling, Zmq, NotifySubscribers

LEMMA OnceHeldUp == [Next]_vars /\ heldUp => heldUp'
<1> SUFFICES ASSUME [Next]_vars, heldUp PROVE heldUp'
  OBVIOUS
<1>1. CASE NewTip \/ Recv
  BY <1>1 DEF NewTip, Recv
<1>2. CASE GoAway \/ ComeBack \/ monitor_chain \/ activate \/ terminate \/ Ask \/ Call
  BY <1>2 DEF GoAway, ComeBack, monitor_chain, activate, terminate, Ask, Call, hist
<1>3. CASE Answer \/ NoAnswer \/ \E t \in Feeders : Enqueue(t)
  BY <1>3 DEF Answer, NoAnswer, Enqueue, Check, Put, AppendTip, hist
<1>4. CASE (\E t \in Threads : Loop(t)) \/ GetMessage \/ Lock \/ \E s \in 1..Subs : Notify(s)
  BY <1>4 DEF Loop, GetMessage, Lock, Notify, hist
<1>5. CASE UNCHANGED vars
  BY <1>5 DEF vars, hist
<1> QED BY <1>1, <1>2, <1>3, <1>4, <1>5, ThreadNames DEF Next, Polling, Zmq, NotifySubscribers

LEMMA TwiceInits ==
    ASSUME NEW Lag
    PROVE  Init => TwiceInv(Lag)
<1> SUFFICES ASSUME Init PROVE TwiceInv(Lag)
  OBVIOUS
<1>1. \A t \in Feeders : pc[t] \notin Hands
  BY ThreadNames DEF Init, Hands
<1> QED BY <1>1, InitOrder, InitRepeats DEF TwiceInv, Prompt

LEMMA TwiceSteps ==
    ASSUME NEW Lag \in Nat \ {0}, HalfWindow(Lag),
           \A b \in 1..MaxTip : Cardinality(Reach(b, Lag)) < WindowSize
    PROVE  TipInv /\ TipInv' /\ EndInv /\ TwiceInv(Lag) /\ [Next]_vars => TwiceInv(Lag)'
<1> SUFFICES ASSUME TipInv, TipInv', EndInv, TwiceInv(Lag), [Next]_vars
             PROVE  TwiceInv(Lag)'
  OBVIOUS
<1>1. InOrder'
  BY StepOrder DEF TwiceInv
<1>2. ASSUME ~heldUp' PROVE Prompt(Lag)' /\ \A b \in 0..MaxTip : Repeats(b, Lag)'
  <2>1. Prompt(Lag) /\ \A b \in 0..MaxTip : Repeats(b, Lag)
    BY <1>2, OnceHeldUp DEF TwiceInv
  <2>2. Prompt(Lag)'
    BY <1>2, <2>1, StepPrompt
  <2>3. \A b \in 0..MaxTip : Repeats(b, Lag)'
    BY <2>1, StepRepeats DEF TwiceInv
  <2> QED BY <2>2, <2>3
<1> QED BY <1>1, <1>2 DEF TwiceInv

LEMMA TwiceIsBound ==
    ASSUME NEW Lag
    PROVE  TipInv /\ TwiceInv(Lag) => TwiceAtMost
<1> SUFFICES ASSUME TipInv, TwiceInv(Lag), ~heldUp, NEW b \in 0..MaxTip PROVE Times(b) <= 2
  BY DEF TwiceAtMost
<1>1. Total(b) + ToCome(b) <= 2 /\ Total(b) \in Nat /\ ToCome(b) \in Nat
  BY TotalType DEF TipInv, TwiceInv, Repeats, Total, ToCome
<1> QED BY <1>1, TotalType DEF TipInv

(* Half a window around a tip takes in less than a window of others.       *)
LEMMA HalfIsEnough ==
    ASSUME NEW Lag \in Nat \ {0}, 2 * Lag <= WindowSize + 1, NEW b \in 1..MaxTip
    PROVE  Cardinality(Reach(b, Lag)) < WindowSize
<1> DEFINE below == (b - Lag + 1)..(b - 1)
           above == (b + 1)..(b + Lag - 1)
<1>1. /\ IsFiniteSet(below) /\ Cardinality(below) = Lag - 1
      /\ IsFiniteSet(above) /\ Cardinality(above) = Lag - 1
  <2>1. /\ b - Lag + 1 \in Int /\ b - 1 \in Int /\ b + 1 \in Int /\ b + Lag - 1 \in Int
        /\ (IF b - Lag + 1 > b - 1 THEN 0 ELSE (b - 1) - (b - Lag + 1) + 1) = Lag - 1
        /\ (IF b + 1 > b + Lag - 1 THEN 0 ELSE (b + Lag - 1) - (b + 1) + 1) = Lag - 1
    OBVIOUS
  <2>2. IsFiniteSet(below) /\ Cardinality(below) = Lag - 1
    BY <2>1, FS_Interval
  <2>3. IsFiniteSet(above) /\ Cardinality(above) = Lag - 1
    BY <2>1, FS_Interval
  <2> QED BY <2>2, <2>3
<1>2. below \cap above = {}
  OBVIOUS
<1>3. Reach(b, Lag) \in SUBSET (below \cup above)
  BY ConstantTypes DEF Reach
<1> HIDE DEF below, above
<1>4. IsFiniteSet(below \cup above) /\ Cardinality(below \cup above) = 2 * Lag - 2
  BY <1>1, <1>2, FS_Union, FS_EmptySet
<1>5. Cardinality(Reach(b, Lag)) <= 2 * Lag - 2
  BY <1>3, <1>4, FS_Subset
<1>6. Cardinality(Reach(b, Lag)) \in Nat
  BY ReachFinite
<1> QED BY <1>5, <1>6, ConstantTypes

(* What the subscribers are sent is bounded, however many tips there are:  *)
(* nothing after END, one message after the shutdown, and no block more    *)
(* than twice, although the two threads that look for tips race and read   *)
(* last_tips without the lock, until one of them is half a window of tips  *)
(* behind with a tip in its hands.                                         *)
THEOREM SentInBoundsHolds == Spec => []SentInBounds
<1>1. PICK Lag \in Nat \ {0} : WindowSize = 2 * Lag \/ WindowSize + 1 = 2 * Lag
  <2> DEFINE k == (WindowSize + 1) \div 2
  <2>1. k \in Nat \ {0} /\ (WindowSize = 2 * k \/ WindowSize + 1 = 2 * k)
    BY ConstantTypes
  <2> QED BY <2>1
<1>2. HalfWindow(Lag)
  BY <1>1, ConstantTypes DEF HalfWindow, FarBehind
<1>3. \A b \in 1..MaxTip : Cardinality(Reach(b, Lag)) < WindowSize
  <2>1. 2 * Lag <= WindowSize + 1
    BY <1>1, ConstantTypes
  <2> QED BY <2>1, HalfIsEnough
<1>4. Init => TwiceInv(Lag)
  BY TwiceInits
<1>5. TipInv /\ TipInv' /\ EndInv /\ TwiceInv(Lag) /\ [Next]_vars => TwiceInv(Lag)'
  BY <1>2, <1>3, TwiceSteps
<1>6. TipInv /\ TwiceInv(Lag) => TwiceAtMost
  BY TwiceIsBound
<1>7. TipInv => TypeOK
  BY DEF TipInv
<1>8. TypeOK /\ EndIsLast /\ OneAfterTerminate /\ TwiceAtMost => SentInBounds
  BY DEF SentInBounds
<1> QED BY <1>4, <1>5, <1>6, <1>7, <1>8, InitTips, StepTips, InitEnd, StepEnd, NothingAfterEnd, PTL
        DEF Spec

=============================================================================
