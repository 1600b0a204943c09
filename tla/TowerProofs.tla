----------------------------- MODULE TowerProofs -----------------------------
(***************************************************************************)
(* For any block tree, any number of starts and crashes and any reorg      *)
(* while the tower is down: no block is lost on its way to the Watcher and *)
(* the Responder, the Watcher leads while they catch up, and the teardown  *)
(* closes a database when all who use it are done.                         *)
(*                                                                         *)
(* The rare events do break these (see the README), and each theorem names *)
(* as a condition the absence of those that break it.                      *)
(***************************************************************************)
EXTENDS Tower, SequenceTheorems, FiniteSetTheorems, WellFoundedInduction, TLAPS

(* Requests end within the grace time, and the Gatekeeper's thread is up   *)
(* to date when it is told to end.                                         *)
Timely == Rare \cap {"slow request", "busy gatekeeper"} = {}

-----------------------------------------------------------------------------
(* The inductive invariant.                                                *)

Messages == Blocks \cup {END}

QuietTypes ==
    /\ queue \in Seq(Messages)
    /\ DOMAIN at = Comps

(* The teardown has come past api, request, END, or a thread's end.        *)
PastApi == {"join rpc", "stop internal", "terminate", "end", "join watcher", "join responder",
            "close appointments", "close users", "exit"}
PastRequests == PastApi \ {"join rpc", "stop internal"}
PastEnd == PastRequests \ {"terminate", "end"}
PastWatcher == PastEnd \ {"join watcher"}
PastThreads == PastWatcher \ {"join responder"}

Ends(q) == {i \in 1..Len(q) : q[i] = END}

(* END is put once in a life of the tower.                                 *)
EndOnce ==
    /\ \A i, j \in Ends(queue) : i = j
    /\ hand = END => Ends(queue) = {}
    /\ expiry \in {"last", "ended"} => hand # END /\ Ends(queue) = {}
    /\ main \notin PastEnd => hand # END /\ Ends(queue) = {} /\ expiry \notin {"last", "ended"}

Order ==
    /\ main \notin {"off", "close users", "exit"} => "appointments" \in open
    /\ main \notin {"off", "exit"} => "users" \in open
    /\ api => main \in {"serving", "stop api"}
    /\ main \in PastRequests => ~handler
    /\ main \in PastWatcher => at["watcher"] = "ended"
    /\ main \in PastThreads => at["responder"] = "ended"
    /\ main = "exit" => expiry = "ended"

QuietInv == QuietTypes /\ EndOnce /\ Order

TeardownInv == Timely /\ tip \in Blocks /\ QuietInv

-----------------------------------------------------------------------------
(* Sequences.                                                              *)

LEMMA EndsAppend ==
    ASSUME NEW q \in Seq(Messages), NEW m \in Messages
    PROVE  /\ Append(q, m) \in Seq(Messages)
           /\ m # END => Ends(Append(q, m)) = Ends(q)
           /\ m = END => Ends(Append(q, m)) = Ends(q) \cup {Len(q) + 1}
<1>1. /\ Append(q, m) \in Seq(Messages) /\ Len(Append(q, m)) = Len(q) + 1
      /\ \A i \in 1..Len(q) : Append(q, m)[i] = q[i]
      /\ Append(q, m)[Len(q) + 1] = m
  BY AppendProperties
<1>2. Len(q) \in Nat
  BY LenProperties
<1>3. 1..(Len(q) + 1) = (1..Len(q)) \cup {Len(q) + 1} /\ Len(q) + 1 \notin 1..Len(q)
  BY <1>2
<1> QED BY <1>1, <1>3 DEF Ends

LEMMA EndsTail ==
    ASSUME NEW q \in Seq(Messages), q # <<>>, \A i, j \in Ends(q) : i = j
    PROVE  /\ Tail(q) \in Seq(Messages) /\ Head(q) \in Messages
           /\ \A i, j \in Ends(Tail(q)) : i = j
           /\ Head(q) = END => Ends(Tail(q)) = {}
           /\ Ends(q) = {} => Head(q) # END /\ Ends(Tail(q)) = {}
<1>1. /\ Tail(q) \in Seq(Messages) /\ Len(Tail(q)) = Len(q) - 1 /\ Len(q) \in Nat /\ Len(q) # 0
      /\ \A i \in 1..Len(Tail(q)) : Tail(q)[i] = q[i + 1]
      /\ Head(q) = q[1] /\ Head(q) \in Messages
  BY HeadTailProperties, LenProperties, EmptySeq
<1>2. \A i \in Ends(Tail(q)) : i \in Nat /\ i > 0 /\ i + 1 \in Ends(q)
  BY <1>1 DEF Ends
<1>3. Head(q) = END => 1 \in Ends(q)
  BY <1>1 DEF Ends
<1>4. ASSUME NEW i \in Ends(Tail(q)), NEW j \in Ends(Tail(q)) PROVE i = j
  <2>1. i + 1 = j + 1
    BY <1>2
  <2> QED BY <1>2, <2>1
<1>5. ASSUME Head(q) = END, NEW i \in Ends(Tail(q)) PROVE FALSE
  <2>1. i + 1 = 1
    BY <1>2, <1>3, <1>5
  <2> QED BY <1>2, <2>1
<1> QED BY <1>1, <1>2, <1>3, <1>4, <1>5

-----------------------------------------------------------------------------
(* One lemma per action, or per group that leaves alone what matters.      *)

LEMMA InitQuiet == Init => QuietInv
<1> SUFFICES ASSUME Init PROVE QuietInv
  OBVIOUS
<1>1. queue = <<>> /\ Len(queue) = 0
  BY EmptySeq DEF Init
<1>2. Ends(queue) = {} /\ queue \in Seq(Messages)
  BY <1>1, EmptySeq DEF Ends
<1> QED BY <1>2, TowerAssumption DEF Init, QuietInv, QuietTypes, EndOnce, Order, PastApi,
          PastRequests, PastEnd, PastWatcher, PastThreads

(* A step of the main thread that touches neither messages nor threads.    *)
LEMMA MainQuiet ==
    ASSUME QuietInv, Timely,
           MonitorChain \/ FindAncestor \/ GetMissed \/ Join \/ StartServices \/ StopCommand
             \/ StopApi \/ JoinRpc \/ StopInternal \/ Terminate \/ JoinThread
    PROVE  QuietInv'
<1>1. UNCHANGED <<queue, at, hand, expiry, open>>
  BY DEF MonitorChain, FindAncestor, GetMissed, Join, StartServices, StopCommand, StopApi, JoinRpc,
         StopInternal, Terminate, JoinThread, bootVars, monitorVars, threadVars, serviceVars,
         diskVars, hist
<1>2. QuietTypes'
  BY <1>1 DEF QuietInv, QuietTypes
<1>3. main' \in PastEnd <=> main \in PastEnd
  BY DEF MonitorChain, FindAncestor, GetMissed, Join, StartServices, StopCommand, StopApi, JoinRpc,
         StopInternal, Terminate, JoinThread, PastApi, PastRequests, PastEnd
<1>4. EndOnce'
  BY <1>1, <1>3 DEF QuietInv, EndOnce, Ends
<1> USE <1>1 DEF QuietInv, Order, PastApi, PastRequests, PastEnd, PastWatcher, PastThreads,
                 bootVars, serviceVars
<1>5. ASSUME MonitorChain PROVE Order'
  BY <1>5 DEF MonitorChain
<1>6. ASSUME FindAncestor PROVE Order'
  BY <1>6 DEF FindAncestor
<1>7. ASSUME GetMissed PROVE Order'
  BY <1>7 DEF GetMissed
<1>8. ASSUME Join PROVE Order'
  BY <1>8 DEF Join
<1>9. ASSUME StartServices PROVE Order'
  BY <1>9 DEF StartServices
<1>10. ASSUME StopCommand PROVE Order'
  BY <1>10 DEF StopCommand
<1>11. ASSUME StopApi PROVE Order'
  BY <1>11 DEF StopApi
<1>12. ASSUME JoinRpc PROVE Order'
  BY <1>12 DEF JoinRpc
<1>13. ASSUME StopInternal PROVE Order'
  BY <1>13 DEF StopInternal, Timely
<1>14. ASSUME Terminate PROVE Order'
  BY <1>14 DEF Terminate
<1>15. ASSUME JoinThread PROVE Order'
  BY <1>15 DEF JoinThread
<1> QED BY <1>2, <1>4, <1>5, <1>6, <1>7, <1>8, <1>9, <1>10, <1>11, <1>12, <1>13, <1>14, <1>15

(* The threads are awoken, or fed.                                         *)
LEMMA LoadQuiet == QuietInv /\ (Load \/ Feed \/ Activate) => QuietInv'
<1> SUFFICES ASSUME QuietInv, Load \/ Feed \/ Activate PROVE QuietInv'
  OBVIOUS
<1>1. /\ UNCHANGED <<queue, hand, expiry, open, api, handler>> /\ DOMAIN at' = Comps
      /\ main \in {"load", "feed"} /\ main' \in {"ancestor", "feed", "join", "services"}
  BY DEF Load, Feed, Activate, monitorVars, threadVars, serviceVars, diskVars, QuietInv, QuietTypes
<1>2. QuietTypes'
  BY <1>1 DEF QuietInv, QuietTypes
<1>3. EndOnce'
  BY <1>1 DEF QuietInv, EndOnce, Ends, PastApi, PastRequests, PastEnd
<1>4. Order'
  BY <1>1 DEF QuietInv, Order, PastApi, PastRequests, PastEnd, PastWatcher, PastThreads
<1> QED BY <1>2, <1>3, <1>4 DEF QuietInv

(* END is put, for the first time.                                         *)
LEMMA PutEndQuiet == QuietInv /\ PutEnd => QuietInv'
<1> SUFFICES ASSUME QuietInv, PutEnd PROVE QuietInv'
  OBVIOUS
<1>1. /\ UNCHANGED <<hand, expiry, open, api, handler, at>>
      /\ main = "end" /\ main' = "join watcher" /\ queue' = Append(queue, END)
  BY DEF PutEnd, threadVars, serviceVars, diskVars
<1>2. Ends(queue) = {} /\ hand # END /\ expiry \notin {"last", "ended"}
  BY <1>1 DEF QuietInv, EndOnce, PastEnd, PastRequests, PastApi
<1>3. queue' \in Seq(Messages) /\ Ends(queue') = {Len(queue) + 1}
  BY <1>1, <1>2, EndsAppend DEF QuietInv, QuietTypes, Messages
<1>4. QuietTypes'
  BY <1>1, <1>3 DEF QuietInv, QuietTypes
<1>5. EndOnce'
  <2>1. \A i, j \in Ends(queue') : i = j
    BY <1>3
  <2> QED BY <1>1, <1>2, <2>1 DEF EndOnce, PastEnd, PastRequests, PastApi
<1>6. Order'
  BY <1>1 DEF QuietInv, Order, PastApi, PastRequests, PastEnd, PastWatcher, PastThreads
<1> QED BY <1>4, <1>5, <1>6 DEF QuietInv

LEMMA CloseQuiet == QuietInv /\ Timely /\ Close => QuietInv'
<1> SUFFICES ASSUME QuietInv, Timely, Close PROVE QuietInv'
  OBVIOUS
<1>1. UNCHANGED <<queue, hand, expiry, api, handler, at>>
  BY DEF Close, monitorVars, threadVars, serviceVars
<1>2. QuietTypes'
  BY <1>1 DEF QuietInv, QuietTypes
<1>3. EndOnce'
  BY <1>1 DEF Close, QuietInv, EndOnce, Ends, PastApi, PastRequests, PastEnd
<1>4. Order'
  BY <1>1 DEF Timely, Close, QuietInv, Order, PastApi, PastRequests, PastEnd, PastWatcher, PastThreads
<1> QED BY <1>2, <1>3, <1>4 DEF QuietInv

(* A new life, in which everything is as in the first.                     *)
LEMMA GoneQuiet == QuietInv /\ (Exit \/ Crash \/ Start) => QuietInv'
<1> SUFFICES ASSUME QuietInv, Exit \/ Crash \/ Start PROVE QuietInv'
  OBVIOUS
<1>1. CASE Gone
  <2>1. queue' = <<>> /\ Ends(<<>>) = {} /\ <<>> \in Seq(Messages)
    BY <1>1, EmptySeq DEF Gone, Ends
  <2>2. main' = "off" /\ hand' = None /\ expiry' = "none" /\ api' = FALSE /\ DOMAIN at' = Comps
    BY <1>1 DEF Gone
  <2> QED BY <2>1, <2>2, TowerAssumption DEF QuietInv, QuietTypes, EndOnce, Order, PastApi,
            PastRequests, PastEnd, PastWatcher, PastThreads
<1>2. CASE Start
  <2>1. /\ UNCHANGED <<queue, hand, api, handler, at>> /\ main = "off" /\ main' = "listen"
        /\ open' = {"appointments", "users"} /\ expiry' = "running"
    BY <1>2 DEF Start, monitorVars, serviceVars
  <2>2. QuietTypes' /\ Order'
    BY <2>1 DEF QuietInv, QuietTypes, Order, PastApi, PastRequests, PastEnd, PastWatcher, PastThreads
  <2>3. EndOnce'
    BY <2>1 DEF QuietInv, EndOnce, Ends, PastApi, PastRequests, PastEnd
  <2> QED BY <2>2, <2>3 DEF QuietInv
<1> QED BY <1>1, <1>2 DEF Exit, Crash

LEMMA NoticeQuiet == QuietInv /\ Notice /\ tip \in Blocks => QuietInv'
<1> SUFFICES ASSUME QuietInv, Notice, tip \in Blocks PROVE QuietInv'
  OBVIOUS
<1>1. UNCHANGED <<main, hand, expiry, open, api, handler, at>> /\ queue' = Append(queue, tip)
  BY DEF Notice, threadVars, serviceVars, diskVars
<1>2. queue' \in Seq(Messages) /\ Ends(queue') = Ends(queue)
  BY <1>1, EndsAppend, TowerAssumption DEF QuietInv, QuietTypes, Messages
<1>3. QuietTypes' /\ Order'
  BY <1>1, <1>2 DEF QuietInv, QuietTypes, Order
<1>4. EndOnce'
  BY <1>1, <1>2 DEF QuietInv, EndOnce
<1> QED BY <1>3, <1>4 DEF QuietInv

LEMMA NotifierQuiet == QuietInv /\ (NotifierGet \/ NotifierSend) => QuietInv'
<1> SUFFICES ASSUME QuietInv, NotifierGet \/ NotifierSend PROVE QuietInv'
  OBVIOUS
<1>1. CASE NotifierGet
  <2>1. /\ UNCHANGED <<main, expiry, open, api, handler, at>>
        /\ queue # <<>> /\ queue' = Tail(queue) /\ hand' = Head(queue)
    BY <1>1 DEF NotifierGet, threadVars, serviceVars, diskVars
  <2>2. /\ queue' \in Seq(Messages) /\ \A i, j \in Ends(queue') : i = j
        /\ hand' = END => Ends(queue') = {}
        /\ Ends(queue) = {} => hand' # END /\ Ends(queue') = {}
    BY <2>1, EndsTail DEF QuietInv, QuietTypes, EndOnce
  <2>3. QuietTypes' /\ Order'
    BY <2>1, <2>2 DEF QuietInv, QuietTypes, Order
  <2>4. EndOnce'
    BY <2>1, <2>2 DEF QuietInv, EndOnce
  <2> QED BY <2>3, <2>4 DEF QuietInv
<1>2. CASE NotifierSend
  <2>1. /\ UNCHANGED <<main, queue, open, api, handler, at>> /\ hand' = None
        /\ expiry' = IF hand = END THEN "last" ELSE expiry
    BY <1>2 DEF NotifierSend, serviceVars, diskVars
  <2>2. QuietTypes'
    BY <2>1 DEF QuietInv, QuietTypes
  <2>3. EndOnce'
    BY <2>1, TowerAssumption DEF QuietInv, EndOnce, Ends
  <2>4. Order'
    <3>1. main = "exit" => hand # END
      BY DEF QuietInv, Order, EndOnce
    <3> QED BY <2>1, <3>1 DEF QuietInv, Order
  <2> QED BY <2>2, <2>3, <2>4 DEF QuietInv
<1> QED BY <1>1, <1>2

(* A thread that has ended does nothing more.                              *)
LEMMA ThreadQuiet ==
    ASSUME QuietInv, NEW c \in Comps, Thread(c)
    PROVE  QuietInv'
<1>1. UNCHANGED <<main, queue, hand, expiry, open, api, handler>>
  BY DEF Thread, Begin, Get, Process, Store, monitorVars, serviceVars, diskVars, hist
<1>2. DOMAIN at' = Comps /\ \A d \in Comps : at[d] = "ended" => at'[d] = "ended"
  BY DEF Thread, Begin, Get, Process, Store, QuietInv, QuietTypes
<1>3. QuietTypes' /\ EndOnce'
  BY <1>1, <1>2 DEF QuietInv, QuietTypes, EndOnce, Ends
<1>4. Order'
  BY <1>1, <1>2 DEF QuietInv, Order, Comps
<1> QED BY <1>3, <1>4 DEF QuietInv

LEMMA OthersQuiet ==
    QuietInv /\ (Expire \/ RpcServe \/ Request \/ Respond \/ (\E b \in Blocks : NewTip(b))
                   \/ UNCHANGED vars)
        => QuietInv'
<1> SUFFICES ASSUME QuietInv,
                    Expire \/ RpcServe \/ Request \/ Respond \/ (\E b \in Blocks : NewTip(b))
                      \/ UNCHANGED vars
             PROVE  QuietInv'
  OBVIOUS
<1>1. /\ UNCHANGED <<main, queue, hand, open, api, at>>
      /\ expiry' = expiry \/ (expiry = "last" /\ expiry' = "ended")
  BY DEF Expire, RpcServe, Request, Respond, NewTip, monitorVars, threadVars, diskVars, serviceVars,
         vars
<1>2. CASE Request
  <2>1. api
    BY <1>2 DEF Request
  <2> QED BY <1>1, <2>1 DEF QuietInv, QuietTypes, EndOnce, Ends, Order, PastApi, PastRequests,
            PastEnd, PastWatcher, PastThreads
<1>3. CASE Respond
  <2>1. ~handler'
    BY <1>3 DEF Respond
  <2> QED BY <1>1, <2>1 DEF QuietInv, QuietTypes, EndOnce, Ends, Order, PastApi, PastRequests,
            PastEnd, PastWatcher, PastThreads
<1>4. CASE ~Request /\ ~Respond
  <2>1. handler' = handler
    BY <1>4 DEF Expire, RpcServe, NewTip, serviceVars, vars
  <2> QED BY <1>1, <2>1 DEF QuietInv, QuietTypes, EndOnce, Ends, Order, PastApi, PastRequests,
            PastEnd, PastWatcher, PastThreads
<1> QED BY <1>2, <1>3, <1>4

-----------------------------------------------------------------------------
LEMMA InitTeardown == Timely /\ Init => TeardownInv
BY InitQuiet DEF TeardownInv, Init

LEMMA StepTeardown == TeardownInv /\ [Next]_vars => TeardownInv'
<1> SUFFICES ASSUME TeardownInv, [Next]_vars PROVE TeardownInv'
  OBVIOUS
<1>1. Timely /\ tip \in Blocks /\ QuietInv
  BY DEF TeardownInv
<1>2. ASSUME Main PROVE QuietInv'
  BY <1>1, <1>2, MainQuiet, LoadQuiet, PutEndQuiet, CloseQuiet, GoneQuiet DEF Main
<1>3. ASSUME Monitor PROVE QuietInv'
  BY <1>1, <1>3, NoticeQuiet, NotifierQuiet DEF Monitor
<1>4. QuietInv'
  BY <1>1, <1>2, <1>3, MainQuiet, ThreadQuiet, GoneQuiet, OthersQuiet DEF Next
<1>5. tip' \in Blocks
  BY <1>1 DEF Next, NewTip, Monitor, Notice, NotifierGet, NotifierSend, Thread, Begin, Get, Process,
         Store, Expire, Start, Main, MonitorChain, Load, FindAncestor, GetMissed, Feed, Join, Activate,
         StartServices, StopApi, JoinRpc, StopInternal, Terminate, PutEnd, JoinThread, Close, Exit,
         Crash, Gone, StopCommand, RpcServe, Request, Respond, vars
<1>6. Timely'
  BY <1>1 DEF Timely
<1> QED BY <1>4, <1>5, <1>6 DEF TeardownInv

(* END is sent once in a life of the tower, and each step of the teardown  *)
(* finds done what the steps before it have waited for.                    *)
THEOREM TeardownInvariance == Timely /\ Spec => []TeardownInv
<1> QED BY InitTeardown, StepTeardown, PTL DEF Spec

(* No thread or request uses a database that has been closed.              *)
THEOREM ClosedIsQuietHolds == Timely /\ Spec => []ClosedIsQuiet
<1>1. TeardownInv => ClosedIsQuiet
  BY DEF TeardownInv, QuietInv, Order, ClosedIsQuiet, Comps, PastApi, PastRequests, PastEnd, PastWatcher, PastThreads
<1> QED BY <1>1, TeardownInvariance, PTL

-----------------------------------------------------------------------------
(* The way of the blocks, from missed or noticed to processed and stored.  *)

(* The tip moves block by block while the tower runs, not while the missed *)
(* blocks are looked up, and is noticed no more after the shutdown.        *)
Steady == Rare \cap {"skip", "moving tip", "busy end"} = {}

Below(b) == Chain(b) \ {b}

(* Who has S and goes through s meets no block before those it builds on.  *)
InOrder(s, S) ==
    \A k \in 1..Len(s) : s[k] \in Blocks => Below(s[k]) \subseteq S \cup {s[j] : j \in 1..(k - 1)}

(* What a component has, or has in its queue.                              *)
Ahead(c) == settled[c] \cup {cur[c]} \cup ToSet(block_queue[c])

(* What the first batches of a plan bring it.                              *)
Brought(P, c, n) == UNION {ToSet(P[j].blocks) : j \in {i \in 1..n : P[i].to = c}}

Early == {"off", "listen", "load", "ancestor", "missed"}
Feeds == {"feed", "join"}

Stages ==
    /\ main \in {"off", "listen"} => status = "IDLE" /\ last_tips = {} /\ queue = <<>>
    /\ main \in {"load", "ancestor", "missed"} \cup Feeds <=> status = "LISTENING"
    /\ main \in Early \cup Feeds => notifier = "none" /\ \A c \in Comps : at[c] # "ended"
    /\ main \in {"services", "serving", "stop api", "join rpc", "stop internal", "terminate"} => status = "ACTIVE"
    /\ hand = None <=> notifier # "send"
    /\ plan # <<>> => main \in Feeds
    /\ main = "join" => plan # <<>>
    /\ \A c \in Comps : cur[c] # None <=> at[c] \in {"work", "store"}
    /\ main \in Early \cup {"feed"} => \A c \in Comps : block_queue[c] = <<>> /\ cur[c] = None
    /\ main = "join" => \A c \in Comps : /\ c = Head(plan).to \/ (block_queue[c] = <<>> /\ cur[c] = None)
                                        /\ END \notin ToSet(block_queue[c])

Lasts ==
    /\ held \/ handler => \A c \in Comps : last[c] # None
    /\ \A c \in Comps : at[c] \in {"get", "work", "store", "ended"} => last[c] # None
    /\ main \notin {"off", "listen", "load"} => \A c \in Comps : at[c] # "none"
    /\ main \in {"ancestor", "missed"} => held
    /\ api => main \in {"serving", "stop api"}

Tips ==
    /\ last_tips \subseteq Chain(tip)
    /\ main \in Early => ToSet(queue) \subseteq Chain(tip)

CommonWith(a, c) == a \in Blocks /\ OnChain(a, tip) /\ OnChain(a, last[c])

Asked ==
    /\ main = "missed" => CommonWith(ancestor, Asking)
    /\ missed # None => /\ main \in {"ancestor", "missed"}
                        /\ \E a \in Blocks : CommonWith(a, "watcher") /\ missed = get_missed_blocks(a, tip)

Threads(c) ==
    /\ InOrder(block_queue[c], settled[c] \cup {cur[c]})
    /\ at[c] = "work" => Below(cur[c]) \subseteq settled[c]
    /\ at[c] = "store" => Chain(cur[c]) \subseteq settled[c]

(* A plan goes on where a component is that has S.                         *)
GoesOn(P, c, S) ==
    \A n \in 1..Len(P) : P[n].to = c => InOrder(P[n].blocks, S \cup Brought(P, c, n - 1))

(* What comes to a component after its queue: the plan, what is in hand,   *)
(* the queue of the monitor, and a tip that has not been noticed.          *)
Flow(c) ==
    LET fed == Ahead(c) \cup Brought(plan, c, Len(plan))
    IN  /\ GoesOn(plan, c, Ahead(c))
        /\ main = "join" /\ Head(plan).to = c => ToSet(Head(plan).blocks) \subseteq Ahead(c)
        /\ hand \in Blocks => Below(hand) \subseteq fed
        /\ InOrder(queue, fed \cup {hand})
        /\ status \in {"LISTENING", "ACTIVE"} =>
               Chain(tip) \ (IF tip \in last_tips THEN {} ELSE {tip})
                   \subseteq fed \cup {hand} \cup ToSet(queue)

(* The Responder is brought nothing that the Watcher does not have first.  *)
Follows(P, S) ==
    \A n \in 1..Len(P) : P[n].to = "responder" => ToSet(P[n].blocks) \subseteq S \cup Brought(P, "watcher", n - 1)

Leads ==
    /\ Follows(plan, Ahead("watcher"))
    /\ main \in Feeds =>
           (ToSet(block_queue["responder"]) \cup {cur["responder"]}) \cap Blocks \subseteq settled["watcher"]

WayInv ==
    /\ Steady /\ TypeOK /\ Stages /\ Lasts /\ Tips /\ Asked /\ NoGap
    /\ \A c \in Comps : Threads(c)
    /\ main \notin Early => Leads /\ \A c \in Comps : Flow(c)

-----------------------------------------------------------------------------
(* Numbers.                                                                *)

LEMMA Least ==
    ASSUME NEW T \in SUBSET Nat, T # {}
    PROVE  \E m \in T : \A n \in T : m <= n
<1> DEFINE R == OpToRel(<, Nat)
<1>1. IsWellFoundedOn(R, Nat)
  BY NatLessThanWellFounded, Zenon
<1>2. \A x, y \in Nat : x < y => <<x, y>> \in R
  BY DEF OpToRel
<1> HIDE DEF R
<1>3. PICK m \in T : \A n \in T : ~(<<n, m>> \in R)
  BY <1>1, WFMin
<1>4. \A n \in T : n \in Nat /\ m \in Nat /\ ~(n < m)
  BY <1>2, <1>3
<1>5. \A n \in T : m <= n
  BY <1>4
<1> QED BY <1>5

LEMMA Greatest ==
    ASSUME NEW T \in SUBSET Nat, T # {}, NEW b \in Nat, \A n \in T : n <= b
    PROVE  \E m \in T : \A n \in T : n <= m
<1> DEFINE U == {b - n : n \in T}
<1>1. \A n \in T : n \in Nat /\ n <= b /\ b - n \in Nat /\ b - n \in U
  OBVIOUS
<1>2. PICK u \in U : \A v \in U : u <= v
  BY <1>1, Least
<1>3. PICK m \in T : u = b - m
  BY <1>2
<1>4. \A n \in T : b - m <= b - n
  BY <1>1, <1>2, <1>3
<1>5. \A n \in T : n <= m
  BY <1>1, <1>4
<1> QED BY <1>5

-----------------------------------------------------------------------------
(* Chains.                                                                 *)

LEMMA PathIs ==
    ASSUME NEW b \in Blocks
    PROVE  /\ Path[b] \in Seq(Blocks) /\ Len(Path[b]) \in Nat /\ Len(Path[b]) > 0
           /\ DOMAIN Path[b] = 1..Len(Path[b]) /\ Path[b][Len(Path[b])] = b
           /\ \A i \in 1..Len(Path[b]) : Path[b][i] \in Blocks
           /\ Chain(b) = {Path[b][i] : i \in 1..Len(Path[b])}
           /\ b \in Chain(b) /\ Chain(b) \subseteq Blocks
<1>1. Path[b] \in Seq(Blocks) /\ Len(Path[b]) > 0 /\ Path[b][Len(Path[b])] = b
  BY PathAssumption
<1>2. Len(Path[b]) \in Nat /\ DOMAIN Path[b] = 1..Len(Path[b]) /\ \A i \in 1..Len(Path[b]) : Path[b][i] \in Blocks
  BY <1>1, LenProperties, ElementOfSeq
<1> QED BY <1>1, <1>2 DEF Chain

(* The path to a block of the path is the part up to it.                   *)
LEMMA PathOn ==
    ASSUME NEW t \in Blocks, NEW i \in 1..Len(Path[t])
    PROVE  /\ Len(Path[Path[t][i]]) = i
           /\ \A j \in 1..i : Path[Path[t][i]][j] = Path[t][j]
<1>1. /\ Path[t] \in Seq(Blocks) /\ Len(Path[t]) \in Nat
      /\ \A j \in 1..Len(Path[t]) : Path[t][j] \in Blocks
  BY PathIs
<1>2. Path[Path[t][i]] = SubSeq(Path[t], 1, i)
  BY PathAssumption
<1>3. i \in Nat /\ i > 0 /\ \A j \in 1..i : Path[t][j] \in Blocks
  BY <1>1
<1>4. /\ Len(SubSeq(Path[t], 1, i)) = IF 1 <= i THEN i - 1 + 1 ELSE 0
      /\ \A j \in 1..(i - 1 + 1) : SubSeq(Path[t], 1, i)[j] = Path[t][1 + j - 1]
  BY <1>1, <1>3, SubSeqProperties
<1>5. ASSUME NEW j \in 1..i PROVE SubSeq(Path[t], 1, i)[j] = Path[t][j]
  <2>1. j \in 1..(i - 1 + 1) /\ 1 + j - 1 = j
    BY <1>3
  <2> QED BY <1>4, <2>1
<1> QED BY <1>2, <1>3, <1>4, <1>5

LEMMA OnePlace ==
    ASSUME NEW t \in Blocks, NEW i \in 1..Len(Path[t]), NEW j \in 1..Len(Path[t]), Path[t][i] = Path[t][j]
    PROVE  i = j
BY PathOn

LEMMA ChainOn ==
    ASSUME NEW t \in Blocks, NEW i \in 1..Len(Path[t])
    PROVE  /\ Path[t][i] \in Blocks
           /\ Chain(Path[t][i]) = {Path[t][j] : j \in 1..i}
           /\ Below(Path[t][i]) = {Path[t][j] : j \in 1..(i - 1)}
<1> DEFINE a == Path[t][i]
<1>1. a \in Blocks /\ Len(Path[a]) = i /\ (\A j \in 1..i : Path[a][j] = Path[t][j]) /\ Len(Path[t]) \in Nat
  BY PathIs, PathOn
<1>2. Chain(a) = {Path[a][j] : j \in 1..i}
  BY <1>1, PathIs
<1>3. Chain(a) = {Path[t][j] : j \in 1..i}
  BY <1>1, <1>2
<1>4. 1..i = 1..(i - 1) \cup {i} /\ \A j \in 1..(i - 1) : Path[t][j] # Path[t][i]
  <2>1. \A j \in 1..(i - 1) : j \in 1..Len(Path[t]) /\ j # i
    BY <1>1
  <2> QED BY <1>1, <2>1, OnePlace
<1> QED BY <1>1, <1>3, <1>4 DEF Below

LEMMA OnChainIs ==
    ASSUME NEW a, NEW t \in Blocks, OnChain(a, t)
    PROVE  /\ a \in Blocks /\ Len(Path[a]) \in 1..Len(Path[t]) /\ Path[t][Len(Path[a])] = a
           /\ Chain(a) \subseteq Chain(t)
           /\ Chain(a) = {Path[t][j] : j \in 1..Len(Path[a])}
<1>1. PICK i \in 1..Len(Path[t]) : Path[t][i] = a
  BY PathIs DEF OnChain
<1>2. Len(Path[a]) = i /\ a \in Blocks /\ Chain(a) = {Path[t][j] : j \in 1..i}
  BY <1>1, PathOn, ChainOn
<1>3. Len(Path[t]) \in Nat /\ Chain(t) = {Path[t][j] : j \in 1..Len(Path[t])}
  BY PathIs
<1> QED BY <1>1, <1>2, <1>3

LEMMA ChildChain ==
    ASSUME NEW p \in Blocks, NEW b \in Blocks, IsParent(p, b)
    PROVE  Chain(b) = Chain(p) \cup {b} /\ Below(b) = Chain(p) /\ b \notin Chain(p)
<1> DEFINE n == Len(Path[b])
<1>1. n \in Nat /\ n > 1 /\ Path[b][n - 1] = p /\ Path[b][n] = b
  BY PathIs DEF IsParent
<1>2. n - 1 \in 1..n /\ n \in 1..n
  BY <1>1
<1>3. Chain(p) = {Path[b][j] : j \in 1..(n - 1)}
  BY <1>1, <1>2, ChainOn
<1>4. Chain(b) = {Path[b][j] : j \in 1..n} /\ Below(b) = {Path[b][j] : j \in 1..(n - 1)}
  BY <1>1, <1>2, ChainOn
<1>5. b \in Chain(b)
  BY PathIs
<1> QED BY <1>3, <1>4, <1>5 DEF Below

(* The walk back from b meets the best chain, at the genesis block at last. *)
LEMMA Ancestor ==
    ASSUME NEW b \in Blocks, NEW t \in Blocks
    PROVE  LET a == find_last_common_ancestor(b, t)
           IN  a \in Blocks /\ OnChain(a, b) /\ OnChain(a, t)
<1> DEFINE C == {a \in Blocks : OnChain(a, b) /\ OnChain(a, t)}
           H == {Height(a) : a \in C}
           Is(a) == /\ OnChain(a, b) /\ OnChain(a, t)
                    /\ \A c \in Blocks : OnChain(c, b) /\ OnChain(c, t) => Height(c) <= Height(a)
<1>1. Path[b][1] \in C
  <2>1. 1 \in DOMAIN Path[b] /\ 1 \in DOMAIN Path[t] /\ Path[b][1] \in Blocks /\ Path[b][1] = Path[t][1]
    BY PathIs, GenesisAssumption
  <2> QED BY <2>1 DEF OnChain
<1>2. Len(Path[b]) \in Nat /\ \A a \in C : Height(a) \in Nat /\ Height(a) <= Len(Path[b])
  <2>1. Len(Path[b]) \in Nat
    BY PathIs
  <2>2. \A a \in C : Len(Path[a]) \in 1..Len(Path[b])
    BY OnChainIs
  <2> QED BY <2>1, <2>2 DEF Height
<1>3. H \in SUBSET Nat /\ H # {} /\ \A n \in H : n <= Len(Path[b])
  BY <1>1, <1>2
<1>4. PICK m \in H : \A n \in H : n <= m
  BY <1>2, <1>3, Greatest
<1>5. PICK a \in C : m = Height(a)
  BY <1>4
<1>6. a \in Blocks /\ Is(a)
  BY <1>4, <1>5
<1>7. \E x \in Blocks : Is(x)
  BY <1>6
<1>8. find_last_common_ancestor(b, t) = CHOOSE x \in Blocks : Is(x)
  BY DEF find_last_common_ancestor
<1> HIDE DEF Is
<1>9. (CHOOSE x \in Blocks : Is(x)) \in Blocks /\ Is(CHOOSE x \in Blocks : Is(x))
  BY <1>7
<1> QED BY <1>8, <1>9 DEF Is

-----------------------------------------------------------------------------
(* Queues.                                                                 *)

LEMMA ItemsAre ==
    ASSUME NEW T, NEW s \in Seq(T)
    PROVE  ToSet(s) = {s[i] : i \in 1..Len(s)} /\ ToSet(s) \subseteq T /\ Len(s) \in Nat
BY LenProperties, ElementOfSeq DEF ToSet

LEMMA AppendItems ==
    ASSUME NEW T, NEW s \in Seq(T), NEW x \in T
    PROVE  /\ Append(s, x) \in Seq(T) /\ Len(Append(s, x)) = Len(s) + 1 /\ Len(s) \in Nat
           /\ Append(s, x)[Len(s) + 1] = x /\ \A i \in 1..Len(s) : Append(s, x)[i] = s[i]
           /\ ToSet(Append(s, x)) = ToSet(s) \cup {x}
<1> DEFINE a == Append(s, x)
<1>1. /\ a \in Seq(T) /\ Len(a) = Len(s) + 1 /\ Len(s) \in Nat
      /\ a[Len(s) + 1] = x /\ \A i \in 1..Len(s) : a[i] = s[i]
  BY AppendProperties, LenProperties
<1> HIDE DEF a
<1>2. ToSet(a) = {a[i] : i \in 1..Len(a)} /\ ToSet(s) = {s[i] : i \in 1..Len(s)}
  BY <1>1, ItemsAre
<1>3. 1..Len(a) = 1..Len(s) \cup {Len(s) + 1}
  BY <1>1
<1>4. ToSet(a) = ToSet(s) \cup {x}
  BY <1>1, <1>2, <1>3
<1> QED BY <1>1, <1>4 DEF a

LEMMA TailItems ==
    ASSUME NEW T, NEW s \in Seq(T), s # <<>>
    PROVE  /\ Tail(s) \in Seq(T) /\ Head(s) \in T /\ Head(s) = s[1] /\ Len(s) \in Nat /\ Len(s) > 0
           /\ Len(Tail(s)) = Len(s) - 1 /\ \A i \in 1..(Len(s) - 1) : Tail(s)[i] = s[i + 1]
           /\ ToSet(s) = {Head(s)} \cup ToSet(Tail(s))
<1> DEFINE a == Tail(s)
<1>1. /\ a \in Seq(T) /\ Len(a) = Len(s) - 1 /\ Len(s) \in Nat /\ Len(s) # 0
      /\ \A i \in 1..Len(a) : a[i] = s[i + 1]
      /\ Head(s) = s[1] /\ Head(s) \in T
  BY HeadTailProperties, LenProperties, EmptySeq
<1> HIDE DEF a
<1>2. ToSet(a) = {a[i] : i \in 1..Len(a)} /\ ToSet(s) = {s[i] : i \in 1..Len(s)}
  BY <1>1, ItemsAre
<1>3. \A i \in 1..Len(s) : i = 1 \/ (i - 1 \in 1..Len(a) /\ i = (i - 1) + 1)
  BY <1>1
<1>4. \A i \in 1..Len(a) : i + 1 \in 1..Len(s)
  BY <1>1
<1>5. 1 \in 1..Len(s)
  BY <1>1
<1>6. ToSet(s) \subseteq {s[1]} \cup ToSet(a)
  <2> SUFFICES ASSUME NEW i \in 1..Len(s), i # 1 PROVE s[i] \in ToSet(a)
    BY <1>2
  <2>1. i - 1 \in 1..Len(a) /\ a[i - 1] = s[i]
    BY <1>1, <1>3
  <2> QED BY <1>2, <2>1
<1>7. {s[1]} \cup ToSet(a) \subseteq ToSet(s)
  BY <1>1, <1>2, <1>4, <1>5
<1> QED BY <1>1, <1>6, <1>7 DEF a

LEMMA BelowIsBlocks == \A b \in Blocks : Below(b) \subseteq Blocks
BY PathIs DEF Below

(* More than the blocks of S, and it still goes on.                        *)
LEMMA InOrderMore ==
    ASSUME NEW s, NEW S, NEW T, S \cap Blocks \subseteq T, InOrder(s, S)
    PROVE  InOrder(s, T)
BY BelowIsBlocks DEF InOrder

LEMMA InOrderNone == ASSUME NEW S PROVE InOrder(<<>>, S) /\ ToSet(<<>>) = {}
BY EmptySeq DEF InOrder, ToSet

LEMMA InOrderAppend ==
    ASSUME NEW T, NEW s \in Seq(T), NEW x \in T, NEW S, InOrder(s, S),
           x \in Blocks => Below(x) \subseteq S \cup ToSet(s)
    PROVE  InOrder(Append(s, x), S)
<1> DEFINE a == Append(s, x)
<1>1. /\ Len(a) = Len(s) + 1 /\ Len(s) \in Nat
      /\ a[Len(s) + 1] = x /\ \A i \in 1..Len(s) : a[i] = s[i]
  BY AppendItems
<1>2. ToSet(s) = {s[i] : i \in 1..Len(s)}
  BY ItemsAre
<1> HIDE DEF a
<1> SUFFICES ASSUME NEW k \in 1..Len(a), a[k] \in Blocks
             PROVE  Below(a[k]) \subseteq S \cup {a[j] : j \in 1..(k - 1)}
  BY DEF InOrder, a
<1>3. CASE k \in 1..Len(s)
  <2>1. \A j \in 1..(k - 1) : a[j] = s[j]
    BY <1>1, <1>3
  <2>2. Below(s[k]) \subseteq S \cup {s[j] : j \in 1..(k - 1)}
    BY <1>1, <1>3 DEF InOrder
  <2> QED BY <1>1, <1>3, <2>1, <2>2
<1>4. CASE k = Len(s) + 1
  <2>1. 1..(k - 1) = 1..Len(s)
    BY <1>1, <1>4
  <2>2. {a[j] : j \in 1..(k - 1)} = ToSet(s)
    BY <1>1, <1>2, <2>1
  <2> QED BY <1>1, <1>4, <2>2
<1> QED BY <1>1, <1>3, <1>4

LEMMA InOrderTail ==
    ASSUME NEW T, NEW s \in Seq(T), s # <<>>, NEW S, InOrder(s, S)
    PROVE  /\ Head(s) \in Blocks => Below(Head(s)) \subseteq S
           /\ InOrder(Tail(s), S \cup {Head(s)})
<1> DEFINE a == Tail(s)
<1>1. /\ Head(s) = s[1] /\ Len(s) \in Nat /\ Len(s) > 0 /\ Len(a) = Len(s) - 1
      /\ \A i \in 1..(Len(s) - 1) : a[i] = s[i + 1]
  BY TailItems
<1> HIDE DEF a
<1>2. Head(s) \in Blocks => Below(Head(s)) \subseteq S
  <2>1. 1 \in 1..Len(s) /\ {s[j] : j \in 1..(1 - 1)} = {}
    BY <1>1
  <2> QED BY <1>1, <2>1 DEF InOrder
<1>3. ASSUME NEW k \in 1..Len(a), a[k] \in Blocks
      PROVE  Below(a[k]) \subseteq (S \cup {s[1]}) \cup {a[j] : j \in 1..(k - 1)}
  <2>1. k + 1 \in 1..Len(s) /\ a[k] = s[k + 1]
    BY <1>1
  <2>2. Below(s[k + 1]) \subseteq S \cup {s[j] : j \in 1..((k + 1) - 1)}
    BY <1>3, <2>1 DEF InOrder
  <2>3. ASSUME NEW j \in 1..((k + 1) - 1), j # 1
        PROVE  s[j] \in {a[i] : i \in 1..(k - 1)}
    <3>1. k \in Nat /\ k <= Len(s) - 1 /\ j \in Nat /\ 1 < j /\ j <= k
      BY <1>1, <1>3, <2>3
    <3>2. PICK i \in 1..(k - 1) : i + 1 = j
      <4>1. j - 1 \in 1..(k - 1) /\ (j - 1) + 1 = j
        BY <3>1
      <4> QED BY <4>1
    <3>3. i \in 1..(Len(s) - 1)
      BY <1>1, <3>1
    <3>4. a[i] = s[i + 1]
      BY <1>1, <3>3
    <3> QED BY <3>2, <3>4
  <2>4. {s[j] : j \in 1..((k + 1) - 1)} \subseteq {s[1]} \cup {a[j] : j \in 1..(k - 1)}
    BY <2>3
  <2> QED BY <2>1, <2>2, <2>4
<1>4. InOrder(a, S \cup {s[1]})
  BY <1>3 DEF InOrder
<1> QED BY <1>1, <1>2, <1>4 DEF a

-----------------------------------------------------------------------------
(* Plans.                                                                  *)

(* The blocks of a chain after the m-th, up to the n-th.                   *)
Part(t, m, n) == SubSeq(Path[t], m + 1, n)

LEMMA PartIs ==
    ASSUME NEW t \in Blocks, NEW m \in 0..Len(Path[t]), NEW n \in m..Len(Path[t])
    PROVE  /\ Part(t, m, n) \in Seq(Blocks) /\ Len(Part(t, m, n)) = n - m
           /\ \A i \in 1..(n - m) : Part(t, m, n)[i] = Path[t][m + i]
           /\ ToSet(Part(t, m, n)) = {Path[t][j] : j \in (m + 1)..n}
<1>1. Path[t] \in Seq(Blocks) /\ Len(Path[t]) \in Nat /\ \A i \in 1..Len(Path[t]) : Path[t][i] \in Blocks
  BY PathIs
<1> DEFINE s == Part(t, m, n)
<1>2. m + 1 \in Nat /\ m + 1 \in 1..(Len(Path[t]) + 1) /\ n \in Nat /\ \A i \in (m + 1)..n : Path[t][i] \in Blocks
  BY <1>1
<1>3. /\ s \in Seq(Blocks) /\ Len(s) = (IF m + 1 <= n THEN n - (m + 1) + 1 ELSE 0)
      /\ \A i \in 1..(n - (m + 1) + 1) : s[i] = Path[t][(m + 1) + i - 1]
  <2>1. m + 1 \in Int /\ n \in Int
    BY <1>2
  <2> QED BY <1>1, <1>2, <2>1, SubSeqProperties DEF Part
<1> HIDE DEF s
<1>4. Len(s) = n - m
  BY <1>1, <1>3
<1>5. ASSUME NEW i \in 1..(n - m) PROVE s[i] = Path[t][m + i]
  <2>1. i \in 1..(n - (m + 1) + 1) /\ (m + 1) + i - 1 = m + i
    BY <1>1
  <2> QED BY <1>3, <2>1
<1>6. ToSet(s) = {s[i] : i \in 1..(n - m)}
  BY <1>3, <1>4, ItemsAre
<1>7. \A j \in (m + 1)..n : j - m \in 1..(n - m) /\ j = m + (j - m)
  BY <1>1
<1>8. \A i \in 1..(n - m) : m + i \in (m + 1)..n
  BY <1>1
<1>9. {s[i] : i \in 1..(n - m)} = {Path[t][j] : j \in (m + 1)..n}
  <2>1. ASSUME NEW j \in (m + 1)..n PROVE Path[t][j] \in {s[i] : i \in 1..(n - m)}
    <3>1. s[j - m] = Path[t][m + (j - m)]
      BY <1>5, <1>7
    <3>2. j - m \in 1..(n - m) /\ s[j - m] = Path[t][j]
      BY <1>7, <3>1
    <3> QED BY <3>2
  <2>2. ASSUME NEW i \in 1..(n - m) PROVE s[i] \in {Path[t][j] : j \in (m + 1)..n}
    BY <1>5, <1>8
  <2> QED BY <2>1, <2>2
<1> QED BY <1>3, <1>4, <1>5, <1>6, <1>9 DEF s

(* A part is in order for who has the blocks before it.                    *)
LEMMA PartInOrder ==
    ASSUME NEW t \in Blocks, NEW m \in 0..Len(Path[t]), NEW n \in m..Len(Path[t]), NEW S,
           \A j \in 1..m : Path[t][j] \in S
    PROVE  InOrder(Part(t, m, n), S)
<1>1. Len(Path[t]) \in Nat
  BY PathIs
<1> DEFINE s == Part(t, m, n)
<1>2. Len(s) = n - m /\ \A i \in 1..(n - m) : s[i] = Path[t][m + i]
  BY PartIs
<1> HIDE DEF s
<1>a. SUFFICES ASSUME NEW k \in 1..(n - m)
               PROVE  Below(s[k]) \subseteq S \cup {s[j] : j \in 1..(k - 1)}
  <2>1. 1..Len(s) = 1..(n - m)
    BY <1>2
  <2> QED BY <2>1 DEF InOrder, s
<1>3. m + k \in 1..Len(Path[t])
  BY <1>1
<1>4. Below(Path[t][m + k]) = {Path[t][j] : j \in 1..((m + k) - 1)}
  BY <1>3, ChainOn
<1>5. ASSUME NEW j \in 1..((m + k) - 1) PROVE Path[t][j] \in S \cup {s[i] : i \in 1..(k - 1)}
  <2>1. CASE j \in 1..m
    BY <2>1
  <2>2. CASE j \notin 1..m
    <3>1. j - m \in 1..(k - 1) /\ j - m \in 1..(n - m) /\ m + (j - m) = j
      BY <1>1, <2>2
    <3>2. s[j - m] = Path[t][j]
      BY <1>2, <3>1
    <3> QED BY <3>1, <3>2
  <2> QED BY <2>1, <2>2
<1>6. s[k] = Path[t][m + k]
  BY <1>2
<1> QED BY <1>4, <1>5, <1>6

(* The blocks of the longer list that are not in a shorter one.            *)
LEMMA DifferenceIs ==
    ASSUME NEW t \in Blocks, NEW m \in 0..Len(Path[t]), NEW n \in m..Len(Path[t])
    PROVE  block_diff(Part(t, m, Len(Path[t])), Part(t, n, Len(Path[t]))) = Part(t, m, n)
<1> DEFINE l == Len(Path[t])
           a == Part(t, m, l)
           b == Part(t, n, l)
           places == {i \in DOMAIN a : ~Contains(b, a[i])}
<1>1. l \in Nat /\ m \in 0..l /\ n \in 0..l /\ n \in m..l /\ l \in m..l /\ l \in n..l
  BY PathIs
<1>2. a \in Seq(Blocks) /\ Len(a) = l - m /\ \A i \in 1..(l - m) : a[i] = Path[t][m + i]
  BY <1>1, PartIs
<1>3. b \in Seq(Blocks) /\ Len(b) = l - n /\ \A i \in 1..(l - n) : b[i] = Path[t][n + i]
  BY <1>1, PartIs
<1> HIDE DEF a, b
<1>4. DOMAIN a = 1..(l - m)
  BY <1>2, LenProperties
<1>5. ASSUME NEW i \in 1..(l - m) PROVE Contains(b, a[i]) <=> i > n - m
  <2>1. m + i \in 1..l
    BY <1>1
  <2>2. ASSUME i > n - m PROVE Contains(b, a[i])
    <3>1. (m + i) - n \in 1..(l - n)
      BY <1>1, <2>2
    <3>2. PICK j \in 1..(l - n) : j = (m + i) - n
      BY <3>1
    <3>3. n + j = m + i /\ b[j] = Path[t][n + j] /\ a[i] = Path[t][m + i]
      <4>1. n + j = m + i
        BY <1>1, <3>2
      <4>2. b[j] = Path[t][n + j]
        BY <1>3
      <4>3. a[i] = Path[t][m + i]
        BY <1>2
      <4> QED BY <4>1, <4>2, <4>3
    <3> QED BY <1>3, <3>3 DEF Contains
  <2>3. ASSUME Contains(b, a[i]) PROVE i > n - m
    <3>1. PICK j \in 1..(l - n) : b[j] = a[i]
      BY <1>3, <2>3 DEF Contains
    <3>2. n + j \in 1..l /\ Path[t][n + j] = Path[t][m + i]
      <4>1. n + j \in 1..l
        BY <1>1
      <4>2. b[j] = Path[t][n + j]
        BY <1>3
      <4>3. a[i] = Path[t][m + i]
        BY <1>2
      <4> QED BY <3>1, <4>1, <4>2, <4>3
    <3>3. n + j = m + i
      BY <2>1, <3>2, OnePlace
    <3> QED BY <1>1, <3>3
  <2> QED BY <2>2, <2>3
<1>6. places = 1..(n - m)
  BY <1>1, <1>4, <1>5
<1> HIDE DEF places
<1>7. Cardinality(places) = n - m
  <2>1. Cardinality(1..(n - m)) = IF 1 > n - m THEN 0 ELSE (n - m) - 1 + 1
    BY <1>1, FS_Interval
  <2> QED BY <1>1, <1>6, <2>1
<1>8. ASSUME NEW i \in places PROVE Cardinality({j \in places : j <= i}) = i
  <2>1. {j \in places : j <= i} = 1..i
    BY <1>1, <1>6
  <2>2. Cardinality(1..i) = IF 1 > i THEN 0 ELSE i - 1 + 1
    BY <1>1, <1>6, FS_Interval
  <2>3. i \in 1..(n - m)
    BY <1>6
  <2>4. Cardinality(1..i) = i
    BY <1>1, <2>2, <2>3
  <2> QED BY <2>1, <2>4
<1>9. ASSUME NEW k \in 1..(n - m)
      PROVE  (CHOOSE i \in places : Cardinality({j \in places : j <= i}) = k) = k
  <2>1. k \in places /\ Cardinality({j \in places : j <= k}) = k
    BY <1>6, <1>8
  <2>2. \A i \in places : Cardinality({j \in places : j <= i}) = k => i = k
    BY <1>8
  <2> QED BY <2>1, <2>2
<1>10. block_diff(a, b) = [k \in 1..(n - m) |-> a[CHOOSE i \in places : Cardinality({j \in places : j <= i}) = k]]
  BY <1>7 DEF block_diff, places
<1>11. block_diff(a, b) = [k \in 1..(n - m) |-> a[k]]
  BY <1>9, <1>10
<1>12. block_diff(a, b) = [k \in 1..(n - m) |-> Path[t][m + k]]
  <2>1. \A k \in 1..(n - m) : k \in 1..(l - m) /\ a[k] = Path[t][m + k]
    BY <1>1, <1>2
  <2> QED BY <1>11, <2>1
<1>13. Part(t, m, n) \in Seq(Blocks) /\ Len(Part(t, m, n)) = n - m
       /\ \A i \in 1..(n - m) : Part(t, m, n)[i] = Path[t][m + i]
  BY PartIs
<1>14. Part(t, m, n) = [k \in 1..(n - m) |-> Path[t][m + k]]
  BY <1>13, LenProperties
<1> QED BY <1>12, <1>14 DEF a, b

-----------------------------------------------------------------------------
LEMMA HalfIs ==
    ASSUME NEW h \in Nat
    PROVE  /\ (2 * h - 1) % 2 = 1 /\ (2 * h) % 2 = 0
           /\ ((2 * h - 1) + 1) \div 2 = h /\ (2 * h + 1) \div 2 = h
OBVIOUS

LEMMA Halves ==
    ASSUME NEW k \in Nat, NEW i \in 1..2 * k
    PROVE  \E h \in 1..k : i = 2 * h - 1 \/ i = 2 * h
<1> DEFINE h == (i + 1) \div 2
<1>1. h \in 1..k /\ (i = 2 * h - 1 \/ i = 2 * h)
  OBVIOUS
<1> QED BY <1>1

LEMMA BroughtHas ==
    ASSUME NEW P, NEW c, NEW n \in Nat, NEW j \in 1..n, P[j].to = c
    PROVE  ToSet(P[j].blocks) \subseteq Brought(P, c, n)
BY DEF Brought

LEMMA OneItem ==
    ASSUME NEW T, NEW b \in T
    PROVE  <<b>> \in Seq(T) /\ Len(<<b>>) = 1 /\ <<b>>[1] = b /\ ToSet(<<b>>) = {b}
<1>1. <<b>> \in Seq(T) /\ Len(<<b>>) = 1 /\ <<b>>[1] = b
  OBVIOUS
<1>2. ToSet(<<b>>) = {<<b>>[i] : i \in 1..1}
  BY <1>1, ItemsAre
<1>3. 1..1 = {1}
  OBVIOUS
<1> QED BY <1>1, <1>2, <1>3

LEMMA InOrderOne ==
    ASSUME NEW b \in Blocks, NEW S, Below(b) \subseteq S
    PROVE  InOrder(<<b>>, S)
BY OneItem DEF InOrder

(* Each of the two has its blocks in order, when the one behind has caught *)
(* up; and the Watcher has each before the Responder.                      *)
LEMMA UpdatePlan ==
    ASSUME NEW t \in Blocks, NEW p \in 0..Len(Path[t]), NEW q \in 0..Len(Path[t])
    PROVE  LET L == Len(Path[t])
               P == update_states(Part(t, p, L), Part(t, q, L))
               d == IF p = q THEN 0 ELSE 1
           IN  /\ P \in Seq(Batches) /\ Len(P) = d + 2 * (L - p)
               /\ q < p => P[1] = Batch("responder", Part(t, q, p))
               /\ p < q => P[1] = Batch("watcher", Part(t, p, q))
               /\ \A h \in 1..(L - p) :
                     /\ P[d + (2 * h - 1)] = Batch("watcher", <<Path[t][p + h]>>)
                     /\ P[d + 2 * h] = Batch("responder", <<Path[t][p + h]>>)
<1> DEFINE L == Len(Path[t])
           mw == Part(t, p, L)
           mr == Part(t, q, L)
           k == L - p
           d == IF p = q THEN 0 ELSE 1
           D == Difference(mw, mr)
           U == [i \in 1..2 * Len(mw) |-> Batch(IF i % 2 = 1 THEN "watcher" ELSE "responder", <<mw[(i + 1) \div 2]>>)]
<1>1. L \in Nat /\ p \in 0..L /\ q \in 0..L /\ L \in p..L /\ L \in q..L
  BY PathIs
<1>2. /\ mw \in Seq(Blocks) /\ Len(mw) = k /\ mr \in Seq(Blocks) /\ Len(mr) = L - q
      /\ \A i \in 1..k : mw[i] = Path[t][p + i]
  BY <1>1, PartIs
<1>3. q < p => q \in 0..L /\ p \in q..L /\ D = <<Batch("responder", Part(t, q, p))>> /\ Part(t, q, p) \in Seq(Blocks)
  <2> SUFFICES ASSUME q < p PROVE p \in q..L /\ D = <<Batch("responder", Part(t, q, p))>> /\ Part(t, q, p) \in Seq(Blocks)
    BY <1>1
  <2>1. p \in q..L
    BY <1>1
  <2>2. block_diff(mr, mw) = Part(t, q, p)
    BY <1>1, <2>1, DifferenceIs
  <2>3. Len(mr) > Len(mw)
    BY <1>1, <1>2
  <2>4. Part(t, q, p) \in Seq(Blocks)
    BY <1>1, <2>1, PartIs
  <2> HIDE DEF mw, mr
  <2> QED BY <2>1, <2>2, <2>3, <2>4 DEF Difference
<1>4. p < q => D = <<Batch("watcher", Part(t, p, q))>> /\ Part(t, p, q) \in Seq(Blocks)
  <2> SUFFICES ASSUME p < q PROVE D = <<Batch("watcher", Part(t, p, q))>> /\ Part(t, p, q) \in Seq(Blocks)
    OBVIOUS
  <2>1. q \in p..L
    BY <1>1
  <2>2. block_diff(mw, mr) = Part(t, p, q)
    BY <1>1, <2>1, DifferenceIs
  <2>3. Len(mw) > Len(mr) /\ ~(Len(mr) > Len(mw))
    BY <1>1, <1>2
  <2>4. Part(t, p, q) \in Seq(Blocks)
    BY <1>1, <2>1, PartIs
  <2> HIDE DEF mw, mr
  <2> QED BY <2>2, <2>3, <2>4 DEF Difference
<1>5. p = q => D = <<>>
  <2>1. p = q => ~(Len(mw) > Len(mr)) /\ ~(Len(mr) > Len(mw))
    BY <1>1, <1>2
  <2> HIDE DEF mw, mr
  <2> QED BY <2>1 DEF Difference
<1>6. update_states(mw, mr) = D \o U
  BY DEF update_states
<1>0. d \in {0, 1} /\ (p # q => d = 1) /\ (p = q => d = 0)
  OBVIOUS
<1> HIDE DEF D, mw, mr, d
<1>7. /\ D \in Seq(Batches) /\ Len(D) = d
      /\ q < p => D[1] = Batch("responder", Part(t, q, p))
      /\ p < q => D[1] = Batch("watcher", Part(t, p, q))
  <2>1. p < q \/ q < p \/ p = q
    BY <1>1
  <2>2. \A s \in Seq(Blocks), c \in Comps : Batch(c, s) \in Batches
    BY DEF Batch, Batches
  <2>3. "watcher" \in Comps /\ "responder" \in Comps
    BY DEF Comps
  <2>4. CASE q < p
    <3>1. Batch("responder", Part(t, q, p)) \in Batches
      BY <1>3, <2>2, <2>3, <2>4
    <3>2. D = <<Batch("responder", Part(t, q, p))>> /\ d = 1 /\ ~(p < q)
      BY <1>0, <1>1, <1>3, <2>4
    <3> QED BY <3>1, <3>2, OneItem
  <2>5. CASE p < q
    <3>1. Batch("watcher", Part(t, p, q)) \in Batches
      BY <1>4, <2>2, <2>3, <2>5
    <3>2. D = <<Batch("watcher", Part(t, p, q))>> /\ d = 1 /\ ~(q < p)
      BY <1>0, <1>1, <1>4, <2>5
    <3> QED BY <3>1, <3>2, OneItem
  <2>6. CASE p = q
    BY <1>0, <1>1, <1>5, <2>6, EmptySeq
  <2> QED BY <2>1, <2>4, <2>5, <2>6
<1>8. k \in Nat
  BY <1>1
<1>9. ASSUME NEW h \in 1..k
      PROVE  /\ h \in Nat /\ mw[h] \in Blocks /\ mw[h] = Path[t][p + h]
             /\ 2 * h - 1 \in 1..2 * k /\ 2 * h \in 1..2 * k
             /\ U[2 * h - 1] = Batch("watcher", <<mw[h]>>)
             /\ U[2 * h] = Batch("responder", <<mw[h]>>)
  <2>1. h \in Nat /\ 2 * h - 1 \in 1..2 * k /\ 2 * h \in 1..2 * k /\ p + h \in 1..Len(Path[t])
    BY <1>1, <1>8
  <2>2. mw[h] = Path[t][p + h] /\ mw[h] \in Blocks
    BY <1>2, <2>1, PathIs
  <2>3. U[2 * h - 1] = Batch("watcher", <<mw[((2 * h - 1) + 1) \div 2]>>)
    BY <1>2, <2>1, HalfIs
  <2>4. U[2 * h] = Batch("responder", <<mw[(2 * h + 1) \div 2]>>)
    BY <1>2, <2>1, HalfIs
  <2> QED BY <2>1, <2>2, <2>3, <2>4, HalfIs
<1>10. U \in Seq(Batches) /\ Len(U) = 2 * k
  <2>1. \A i \in 1..2 * k : U[i] \in Batches
    <3> SUFFICES ASSUME NEW i \in 1..2 * k PROVE U[i] \in Batches
      OBVIOUS
    <3>1. PICK h \in 1..k : i = 2 * h - 1 \/ i = 2 * h
      BY <1>8, Halves
    <3>2. mw[h] \in Blocks /\ <<mw[h]>> \in Seq(Blocks)
      BY <1>9, OneItem
    <3>3. Batch("watcher", <<mw[h]>>) \in Batches /\ Batch("responder", <<mw[h]>>) \in Batches
      BY <3>2 DEF Batch, Batches, Comps
    <3>4. U[2 * h - 1] \in Batches /\ U[2 * h] \in Batches
      <4> HIDE DEF U, Batches
      <4> QED BY <1>9, <3>3
    <3> HIDE DEF U, Batches
    <3> QED BY <3>1, <3>4
  <2>2. U = [i \in 1..2 * k |-> U[i]]
    BY <1>2
  <2> HIDE DEF U, Batches
  <2> DEFINE kk == 2 * k
  <2>3. kk \in Nat
    BY <1>8
  <2> HIDE DEF kk
  <2>4. (\A i \in 1..kk : U[i] \in Batches) /\ U = [i \in 1..kk |-> U[i]]
    BY <2>1, <2>2 DEF kk
  <2>5. U \in Seq(Batches) /\ Len(U) = kk
    BY <2>3, <2>4
  <2> QED BY <2>5 DEF kk
<1> HIDE DEF U
<1>11. /\ D \o U \in Seq(Batches) /\ Len(D \o U) = d + 2 * k
       /\ \A i \in 1..(d + 2 * k) : (D \o U)[i] = IF i <= d THEN D[i] ELSE U[i - d]
  <2>1. /\ D \o U \in Seq(Batches) /\ Len(D \o U) = Len(D) + Len(U)
        /\ \A i \in 1..(Len(D) + Len(U)) : (D \o U)[i] = IF i <= Len(D) THEN D[i] ELSE U[i - Len(D)]
    BY <1>7, <1>10, ConcatProperties
  <2> QED BY <1>7, <1>10, <2>1
<1>12. \A i \in 1..2 * k : (D \o U)[d + i] = U[i]
  <2> SUFFICES ASSUME NEW i \in 1..2 * k PROVE (D \o U)[d + i] = U[i]
    OBVIOUS
  <2>1. d + i \in 1..(d + 2 * k) /\ ~(d + i <= d) /\ (d + i) - d = i
    BY <1>8, <1>0
  <2> QED BY <1>11, <2>1
<1>13. p # q => (D \o U)[1] = D[1]
  <2>1. p # q => 1 \in 1..(d + 2 * k) /\ 1 <= d
    BY <1>0, <1>8
  <2> QED BY <1>11, <2>1
<1>14. /\ q < p => (D \o U)[1] = Batch("responder", Part(t, q, p))
       /\ p < q => (D \o U)[1] = Batch("watcher", Part(t, p, q))
  <2>1. p \in Nat /\ q \in Nat
    BY <1>1
  <2>2. (q < p => p # q) /\ (p < q => p # q)
    BY <2>1
  <2> QED BY <1>7, <1>13, <2>2
<1>15. \A h \in 1..k : /\ (D \o U)[d + (2 * h - 1)] = Batch("watcher", <<Path[t][p + h]>>)
                       /\ (D \o U)[d + 2 * h] = Batch("responder", <<Path[t][p + h]>>)
  BY <1>9, <1>12
<1> QED BY <1>6, <1>11, <1>14, <1>15 DEF mw, mr, d

(* What is fed to both goes on where each of them is, and ends at the tip. *)
LEMMA UpdateOK ==
    ASSUME NEW t \in Blocks, NEW p \in 0..Len(Path[t]), NEW q \in 0..Len(Path[t]), NEW Sw, NEW Sr,
           \A j \in 1..p : Path[t][j] \in Sw, \A j \in 1..q : Path[t][j] \in Sr
    PROVE  LET P == update_states(Part(t, p, Len(Path[t])), Part(t, q, Len(Path[t])))
           IN  /\ P \in Seq(Batches)
               /\ GoesOn(P, "watcher", Sw) /\ GoesOn(P, "responder", Sr) /\ Follows(P, Sw)
               /\ Chain(t) \subseteq Sw \cup Brought(P, "watcher", Len(P))
               /\ Chain(t) \subseteq Sr \cup Brought(P, "responder", Len(P))
<1> DEFINE L == Len(Path[t])
           P == update_states(Part(t, p, L), Part(t, q, L))
           d == IF p = q THEN 0 ELSE 1
<1>0. d \in {0, 1} /\ (p # q => d = 1) /\ (p = q => d = 0)
  OBVIOUS
<1>1. L \in Nat /\ p \in 0..L /\ q \in 0..L /\ L - p \in Nat /\ p \in Nat /\ q \in Nat /\ L \in 0..L
  BY PathIs
<1>2. /\ P \in Seq(Batches) /\ Len(P) = d + 2 * (L - p)
      /\ q < p => P[1] = Batch("responder", Part(t, q, p))
      /\ p < q => P[1] = Batch("watcher", Part(t, p, q))
      /\ \A h \in 1..(L - p) : /\ P[d + (2 * h - 1)] = Batch("watcher", <<Path[t][p + h]>>)
                               /\ P[d + 2 * h] = Batch("responder", <<Path[t][p + h]>>)
  BY UpdatePlan
<1> HIDE DEF P, d
<1>3. ASSUME NEW h \in 1..(L - p)
      PROVE  /\ h \in Nat /\ p + h \in 1..L /\ Path[t][p + h] \in Blocks
             /\ P[d + (2 * h - 1)].to = "watcher" /\ ToSet(P[d + (2 * h - 1)].blocks) = {Path[t][p + h]}
             /\ P[d + 2 * h].to = "responder" /\ ToSet(P[d + 2 * h].blocks) = {Path[t][p + h]}
             /\ P[d + (2 * h - 1)].blocks = <<Path[t][p + h]>> /\ P[d + 2 * h].blocks = <<Path[t][p + h]>>
  <2>1. h \in Nat /\ p + h \in 1..L
    BY <1>1
  <2>2. Path[t][p + h] \in Blocks
    BY <2>1, PathIs
  <2>3. ToSet(<<Path[t][p + h]>>) = {Path[t][p + h]}
    BY <2>2, OneItem
  <2>4. /\ P[d + (2 * h - 1)] = Batch("watcher", <<Path[t][p + h]>>)
        /\ P[d + 2 * h] = Batch("responder", <<Path[t][p + h]>>)
    BY <1>2
  <2> DEFINE b == Path[t][p + h]
  <2>5. \A c : Batch(c, <<b>>).to = c /\ Batch(c, <<b>>).blocks = <<b>>
    BY DEF Batch
  <2> HIDE DEF b
  <2>6. /\ P[d + (2 * h - 1)].to = "watcher" /\ P[d + (2 * h - 1)].blocks = <<b>>
        /\ P[d + 2 * h].to = "responder" /\ P[d + 2 * h].blocks = <<b>>
    BY <2>4, <2>5 DEF b
  <2>7. ToSet(<<b>>) = {b}
    BY <2>3 DEF b
  <2> QED BY <2>1, <2>2, <2>6, <2>7 DEF b
(* What has come by the h-th pair. *)
<1>4. ASSUME NEW h \in 1..(L - p), NEW j \in 1..(p + h - 1), NEW n \in Nat, n >= d + (2 * h - 2)
      PROVE  /\ Path[t][j] \in Sw \cup Brought(P, "watcher", n)
             /\ Path[t][j] \in Sr \cup Brought(P, "responder", n)
  <2>1. j \in Nat /\ h \in Nat
    BY <1>1
  <2>2. CASE j > p
    <3>1. PICK i \in 1..(L - p) : p + i = j /\ i < h
      <4>1. j - p \in 1..(L - p) /\ p + (j - p) = j /\ j - p < h
        BY <1>1, <2>1, <2>2
      <4> QED BY <4>1
    <3>2. i \in Nat /\ i < h /\ d + (2 * i - 1) \in 1..n /\ d + 2 * i \in 1..n
      BY <1>0, <1>1, <1>4, <2>1, <3>1
    <3> DEFINE x == d + (2 * i - 1)
               y == d + 2 * i
    <3>3. x \in 1..n /\ y \in 1..n /\ P[x].to = "watcher" /\ P[y].to = "responder"
          /\ Path[t][j] \in ToSet(P[x].blocks) /\ Path[t][j] \in ToSet(P[y].blocks)
      BY <1>3, <3>1, <3>2
    <3> HIDE DEF x, y
    <3> QED BY <3>3, BroughtHas
  <2>3. CASE j <= p
    <3>1. j \in 1..p
      BY <1>1, <2>1, <2>3
    <3>2. Path[t][j] \in Sr \cup Brought(P, "responder", n)
      <4>1. CASE j <= q
        BY <1>1, <2>1, <4>1
      <4>2. CASE j > q
        <5>1. q < p /\ d = 1 /\ 1 \in 1..n /\ p \in q..L /\ j \in (q + 1)..p
          BY <1>0, <1>1, <1>4, <2>1, <3>1, <4>2
        <5>2. P[1].to = "responder" /\ P[1].blocks = Part(t, q, p)
          BY <1>2, <5>1 DEF Batch
        <5>3. Path[t][j] \in ToSet(Part(t, q, p))
          BY <5>1, PartIs
        <5> QED BY <5>1, <5>2, <5>3, BroughtHas
      <4> QED BY <1>1, <2>1, <4>1, <4>2
    <3> QED BY <3>1, <3>2
  <2> QED BY <1>1, <2>1, <2>2, <2>3
<1>5. ASSUME NEW n \in 1..Len(P)
      PROVE  \/ n = 1 /\ q < p /\ P[n] = Batch("responder", Part(t, q, p)) /\ p \in q..L
             \/ n = 1 /\ p < q /\ P[n] = Batch("watcher", Part(t, p, q)) /\ q \in p..L
             \/ \E h \in 1..(L - p) : n = d + (2 * h - 1)
             \/ \E h \in 1..(L - p) : n = d + 2 * h
  <2>1. CASE n <= d
    <3>1. n = 1 /\ p # q /\ (p < q \/ q < p)
      BY <1>0, <1>1, <2>1
    <3> QED BY <1>1, <1>2, <3>1
  <2>2. CASE n > d
    <3>1. n - d \in 1..2 * (L - p)
      BY <1>0, <1>1, <1>2, <2>2
    <3>2. PICK h \in 1..(L - p) : n - d = 2 * h - 1 \/ n - d = 2 * h
      BY <1>1, <3>1, Halves
    <3>3. n = d + (2 * h - 1) \/ n = d + 2 * h
      BY <1>0, <1>1, <3>2
    <3> QED BY <3>3
  <2> QED BY <1>0, <1>1, <1>2, <2>1, <2>2
<1>6. GoesOn(P, "watcher", Sw)
  <2> SUFFICES ASSUME NEW n \in 1..Len(P), P[n].to = "watcher"
               PROVE  InOrder(P[n].blocks, Sw \cup Brought(P, "watcher", n - 1))
    BY DEF GoesOn
  <2>1. CASE n = 1 /\ p < q /\ P[n] = Batch("watcher", Part(t, p, q)) /\ q \in p..L
    BY <1>1, <2>1, PartInOrder DEF Batch
  <2>2. CASE \E h \in 1..(L - p) : n = d + (2 * h - 1)
    <3>1. PICK h \in 1..(L - p) : n = d + (2 * h - 1)
      BY <2>2
    <3>2. n - 1 \in Nat /\ n - 1 >= d + (2 * h - 2) /\ (p + h) - 1 = p + h - 1
      BY <1>0, <1>1, <1>3, <3>1
    <3>3. Below(Path[t][p + h]) = {Path[t][j] : j \in 1..((p + h) - 1)}
      BY <1>3, ChainOn
    <3>4. Below(Path[t][p + h]) \subseteq Sw \cup Brought(P, "watcher", n - 1)
      <4> DEFINE B == Sw \cup Brought(P, "watcher", n - 1)
      <4>1. ASSUME NEW j \in 1..((p + h) - 1) PROVE Path[t][j] \in B
        <5>1. PICK m \in Nat : m = n - 1
          BY <3>2
        <5>2. m >= d + (2 * h - 2)
          BY <3>2, <5>1
        <5>3. Path[t][j] \in Sw \cup Brought(P, "watcher", m)
          BY <1>4, <5>2
        <5> QED BY <5>1, <5>3
      <4> HIDE DEF B
      <4>2. Below(Path[t][p + h]) \subseteq B
        BY <3>3, <4>1
      <4> QED BY <4>2 DEF B
    <3> QED BY <1>3, <3>1, <3>4, InOrderOne
  <2>3. (\E h \in 1..(L - p) : n = d + 2 * h) => P[n].to = "responder"
    BY <1>3
  <2>4. P[n] = Batch("responder", Part(t, q, p)) => P[n].to = "responder"
    BY DEF Batch
  <2> QED BY <1>5, <2>1, <2>2, <2>3, <2>4
<1>7. GoesOn(P, "responder", Sr)
  <2> SUFFICES ASSUME NEW n \in 1..Len(P), P[n].to = "responder"
               PROVE  InOrder(P[n].blocks, Sr \cup Brought(P, "responder", n - 1))
    BY DEF GoesOn
  <2>1. CASE n = 1 /\ q < p /\ P[n] = Batch("responder", Part(t, q, p)) /\ p \in q..L
    BY <1>1, <2>1, PartInOrder DEF Batch
  <2>2. CASE \E h \in 1..(L - p) : n = d + 2 * h
    <3>1. PICK h \in 1..(L - p) : n = d + 2 * h
      BY <2>2
    <3>2. n - 1 \in Nat /\ n - 1 >= d + (2 * h - 2) /\ (p + h) - 1 = p + h - 1
      BY <1>0, <1>1, <1>3, <3>1
    <3>3. Below(Path[t][p + h]) = {Path[t][j] : j \in 1..((p + h) - 1)}
      BY <1>3, ChainOn
    <3>4. Below(Path[t][p + h]) \subseteq Sr \cup Brought(P, "responder", n - 1)
      <4>1. ASSUME NEW j \in 1..(p + h - 1) PROVE Path[t][j] \in Sr \cup Brought(P, "responder", n - 1)
        <5>1. PICK m \in Nat : m = n - 1
          BY <3>2
        <5>2. m >= d + (2 * h - 2)
          BY <3>2, <5>1
        <5>3. Path[t][j] \in Sr \cup Brought(P, "responder", m)
          BY <1>4, <5>2
        <5> QED BY <5>1, <5>3
      <4> QED BY <3>3, <4>1
    <3> QED BY <1>3, <3>1, <3>4, InOrderOne
  <2>3. (\E h \in 1..(L - p) : n = d + (2 * h - 1)) => P[n].to = "watcher"
    BY <1>3
  <2>4. P[n] = Batch("watcher", Part(t, p, q)) => P[n].to = "watcher"
    BY DEF Batch
  <2> QED BY <1>5, <2>1, <2>2, <2>3, <2>4
<1>8. Follows(P, Sw)
  <2> SUFFICES ASSUME NEW n \in 1..Len(P), P[n].to = "responder"
               PROVE  ToSet(P[n].blocks) \subseteq Sw \cup Brought(P, "watcher", n - 1)
    BY DEF Follows
  <2>1. CASE n = 1 /\ q < p /\ P[n] = Batch("responder", Part(t, q, p)) /\ p \in q..L
    <3>1. ToSet(P[n].blocks) = {Path[t][j] : j \in (q + 1)..p}
      <4>1. ToSet(Part(t, q, p)) = {Path[t][j] : j \in (q + 1)..p}
        BY <1>1, <2>1, PartIs
      <4> QED BY <2>1, <4>1 DEF Batch
    <3>2. \A j \in (q + 1)..p : j \in 1..p
      BY <1>1
    <3> QED BY <3>1, <3>2
  <2>2. CASE \E h \in 1..(L - p) : n = d + 2 * h
    <3>1. PICK h \in 1..(L - p) : n = d + 2 * h
      BY <2>2
    <3> DEFINE x == d + (2 * h - 1)
    <3>2. n - 1 \in Nat /\ x \in 1..(n - 1)
      BY <1>0, <1>1, <1>3, <3>1
    <3>3. P[x].to = "watcher" /\ ToSet(P[x].blocks) = {Path[t][p + h]} /\ ToSet(P[n].blocks) = {Path[t][p + h]}
      BY <1>3, <3>1
    <3> HIDE DEF x
    <3>4. ToSet(P[x].blocks) \subseteq Brought(P, "watcher", n - 1)
      BY <3>2, <3>3, BroughtHas
    <3> QED BY <3>3, <3>4
  <2>3. (\E h \in 1..(L - p) : n = d + (2 * h - 1)) => P[n].to = "watcher"
    BY <1>3
  <2>4. P[n] = Batch("watcher", Part(t, p, q)) => P[n].to = "watcher"
    BY DEF Batch
  <2> QED BY <1>5, <2>1, <2>2, <2>3, <2>4
<1>9. /\ Chain(t) \subseteq Sw \cup Brought(P, "watcher", Len(P))
      /\ Chain(t) \subseteq Sr \cup Brought(P, "responder", Len(P))
  <2>1. Chain(t) = {Path[t][j] : j \in 1..L}
    BY PathIs
  <2> SUFFICES ASSUME NEW j \in 1..L
               PROVE  /\ Path[t][j] \in Sw \cup Brought(P, "watcher", Len(P))
                      /\ Path[t][j] \in Sr \cup Brought(P, "responder", Len(P))
    BY <2>1
  <2>2. Len(P) \in Nat
    BY <1>0, <1>1, <1>2
  <2>3. CASE p < L /\ j < L
    <3>1. L - p \in 1..(L - p) /\ j \in 1..(p + (L - p) - 1) /\ Len(P) >= d + (2 * (L - p) - 2)
      BY <1>0, <1>1, <1>2, <2>3
    <3> QED BY <1>4, <2>2, <3>1
  <2>4. CASE p < L /\ j = L
    <3> DEFINE h == L - p
               x == d + (2 * h - 1)
               y == d + 2 * h
    <3>1. h \in 1..(L - p) /\ p + h = j /\ x \in 1..Len(P) /\ y \in 1..Len(P)
      BY <1>0, <1>1, <1>2, <2>4
    <3>2. /\ P[x].to = "watcher" /\ Path[t][j] \in ToSet(P[x].blocks)
          /\ P[y].to = "responder" /\ Path[t][j] \in ToSet(P[y].blocks)
      BY <1>3, <3>1
    <3> HIDE DEF h, x, y
    <3> QED BY <2>2, <3>1, <3>2, BroughtHas
  <2>5. CASE p = L
    <3>1. j \in 1..p
      BY <2>5
    <3>2. CASE j <= q
      BY <1>1, <3>1, <3>2
    <3>3. CASE j > q
      <4>1. q < p /\ d = 1 /\ 1 \in 1..Len(P) /\ p \in q..L /\ j \in (q + 1)..p
        BY <1>0, <1>1, <1>2, <2>5, <3>1, <3>3
      <4>2. P[1].to = "responder" /\ P[1].blocks = Part(t, q, p)
        BY <1>2, <4>1 DEF Batch
      <4>3. Path[t][j] \in ToSet(Part(t, q, p))
        BY <4>1, PartIs
      <4>4. Path[t][j] \in Brought(P, "responder", Len(P))
        BY <2>2, <4>1, <4>2, <4>3, BroughtHas
      <4> QED BY <3>1, <4>4
    <3> QED BY <1>1, <3>1, <3>2, <3>3
  <2> QED BY <1>1, <2>3, <2>4, <2>5
<1> QED BY <1>2, <1>6, <1>7, <1>8, <1>9 DEF P

LEMMA BroughtOne ==
    ASSUME NEW c, NEW e, NEW s
    PROVE  /\ Brought(<<Batch(e, s)>>, c, 0) = {}
           /\ c = e => Brought(<<Batch(e, s)>>, c, 1) = ToSet(s)
<1> DEFINE P == <<Batch(e, s)>>
<1>1. P[1].to = e /\ P[1].blocks = s
  BY DEF Batch
<1>2. 1..1 = {1} /\ 1..0 = {}
  OBVIOUS
<1> HIDE DEF P
<1>3. Brought(P, c, 0) = {}
  BY <1>2 DEF Brought
<1>4. c = e => Brought(P, c, 1) = ToSet(s)
  <2> SUFFICES ASSUME c = e PROVE Brought(P, c, 1) = ToSet(s)
    OBVIOUS
  <2>1. {i \in 1..1 : P[i].to = c} = {1}
    BY <1>1, <1>2
  <2>2. Brought(P, c, 1) = UNION {ToSet(P[j].blocks) : j \in {1}}
    BY <2>1 DEF Brought
  <2> QED BY <1>1, <2>2
<1> QED BY <1>3, <1>4 DEF P

LEMMA FeedingOK ==
    ASSUME NEW t \in Blocks, NEW p \in 0..Len(Path[t]), NEW q \in 0..Len(Path[t]), NEW Sw, NEW Sr,
           \A j \in 1..p : Path[t][j] \in Sw, \A j \in 1..q : Path[t][j] \in Sr
    PROVE  LET P == Feeding(Part(t, p, Len(Path[t])), Part(t, q, Len(Path[t])))
           IN  /\ P \in Seq(Batches)
               /\ GoesOn(P, "watcher", Sw) /\ GoesOn(P, "responder", Sr) /\ Follows(P, Sw)
               /\ Chain(t) \subseteq Sw \cup Brought(P, "watcher", Len(P))
               /\ Chain(t) \subseteq Sr \cup Brought(P, "responder", Len(P))
<1> DEFINE L == Len(Path[t])
           mw == Part(t, p, L)
           mr == Part(t, q, L)
           P == Feeding(mw, mr)
<1>1. L \in Nat /\ p \in 0..L /\ q \in 0..L /\ L \in p..L /\ L \in q..L
  BY PathIs
<1>2. /\ mw \in Seq(Blocks) /\ Len(mw) = L - p /\ ToSet(mw) = {Path[t][j] : j \in (p + 1)..L}
      /\ mr \in Seq(Blocks) /\ Len(mr) = L - q /\ ToSet(mr) = {Path[t][j] : j \in (q + 1)..L}
  BY <1>1, PartIs
<1>3. InOrder(mw, Sw) /\ InOrder(mr, Sr)
  BY <1>1, PartInOrder
<1>4. Chain(t) = {Path[t][j] : j \in 1..L}
  BY PathIs
<1>5. (mw = <<>> => p = L) /\ (mr = <<>> => q = L)
  BY <1>1, <1>2, EmptySeq
<1>6. Chain(t) \subseteq Sw \cup ToSet(mw) /\ Chain(t) \subseteq Sr \cup ToSet(mr)
  <2>1. \A j \in 1..L : (j \in 1..p \/ j \in (p + 1)..L) /\ (j \in 1..q \/ j \in (q + 1)..L)
    BY <1>1
  <2> QED BY <1>2, <1>4, <2>1
<1>7. (mw = <<>> => Chain(t) \subseteq Sw) /\ (mr = <<>> => Chain(t) \subseteq Sr)
  BY <1>4, <1>5
<1> HIDE DEF mw, mr
<1>8. CASE mw = <<>> /\ mr = <<>>
  <2>1. P = <<>> /\ Len(P) = 0
    BY <1>8, EmptySeq DEF Feeding
  <2> HIDE DEF P
  <2>2. 1..0 = {}
    OBVIOUS
  <2>3. GoesOn(P, "watcher", Sw) /\ GoesOn(P, "responder", Sr) /\ Follows(P, Sw)
    BY <2>1, <2>2 DEF GoesOn, Follows
  <2>4. P \in Seq(Batches)
    BY <2>1
  <2> QED BY <1>7, <1>8, <2>3, <2>4 DEF P, mw, mr
<1>9. CASE mw = <<>> /\ mr # <<>>
  <2>1. P = <<Batch("responder", mr)>> /\ Len(P) = 1 /\ P[1].to = "responder" /\ P[1].blocks = mr
    BY <1>9 DEF Feeding, Batch
  <2>2. Brought(P, "responder", 0) = {} /\ Brought(P, "responder", 1) = ToSet(mr)
    <3>1. /\ Brought(<<Batch("responder", mr)>>, "responder", 0) = {}
          /\ Brought(<<Batch("responder", mr)>>, "responder", 1) = ToSet(mr)
      BY BroughtOne
    <3> HIDE DEF P
    <3> QED BY <2>1, <3>1
  <2>3. Batch("responder", mr) \in Batches
    BY <1>2 DEF Batch, Batches, Comps
  <2>4. P \in Seq(Batches)
    BY <2>1, <2>3, OneItem
  <2> HIDE DEF P
  <2>5. 1..1 = {1} /\ 1 - 1 = 0
    OBVIOUS
  <2>6. GoesOn(P, "watcher", Sw) /\ GoesOn(P, "responder", Sr)
    <3>1. InOrder(mr, Sr \cup {})
      <4>1. Sr \cup {} = Sr
        OBVIOUS
      <4> QED BY <1>3, <4>1
    <3> QED BY <2>1, <2>2, <2>5, <3>1 DEF GoesOn
  <2>7. Follows(P, Sw)
    <3>1. ToSet(mr) \subseteq Chain(t)
      <4>1. \A j \in (q + 1)..L : j \in 1..L
        BY <1>1
      <4> QED BY <1>2, <1>4, <4>1
    <3> QED BY <1>7, <1>9, <2>1, <2>5, <3>1 DEF Follows
  <2> QED BY <1>6, <1>7, <1>9, <2>1, <2>2, <2>4, <2>6, <2>7 DEF P, mw, mr
<1>10. CASE mw # <<>> /\ mr = <<>>
  <2>1. P = <<Batch("watcher", mw)>> /\ Len(P) = 1 /\ P[1].to = "watcher" /\ P[1].blocks = mw
    BY <1>10 DEF Feeding, Batch
  <2>2. Brought(P, "watcher", 0) = {} /\ Brought(P, "watcher", 1) = ToSet(mw)
    <3>1. /\ Brought(<<Batch("watcher", mw)>>, "watcher", 0) = {}
          /\ Brought(<<Batch("watcher", mw)>>, "watcher", 1) = ToSet(mw)
      BY BroughtOne
    <3> HIDE DEF P
    <3> QED BY <2>1, <3>1
  <2>3. Batch("watcher", mw) \in Batches
    BY <1>2 DEF Batch, Batches, Comps
  <2>4. P \in Seq(Batches)
    BY <2>1, <2>3, OneItem
  <2> HIDE DEF P
  <2>5. 1..1 = {1} /\ 1 - 1 = 0
    OBVIOUS
  <2>6. GoesOn(P, "watcher", Sw) /\ GoesOn(P, "responder", Sr) /\ Follows(P, Sw)
    <3>1. InOrder(mw, Sw \cup {})
      <4>1. Sw \cup {} = Sw
        OBVIOUS
      <4> QED BY <1>3, <4>1
    <3> QED BY <2>1, <2>2, <2>5, <3>1 DEF GoesOn, Follows
  <2> QED BY <1>6, <1>7, <1>10, <2>1, <2>2, <2>4, <2>6 DEF P, mw, mr
<1>11. CASE mw # <<>> /\ mr # <<>>
  <2>1. P = update_states(mw, mr)
    BY <1>11 DEF Feeding
  <2> HIDE DEF P
  <2> QED BY <2>1, UpdateOK DEF P, mw, mr
<1> QED BY <1>8, <1>9, <1>10, <1>11

LEMMA MissedIs ==
    ASSUME NEW a, NEW t \in Blocks, OnChain(a, t)
    PROVE  /\ get_missed_blocks(a, t) = Part(t, Len(Path[a]), Len(Path[t]))
           /\ Len(Path[a]) \in 0..Len(Path[t])
           /\ Chain(a) = {Path[t][j] : j \in 1..Len(Path[a])}
           /\ get_missed_blocks(a, t) \in Seq(Blocks)
<1>1. Len(Path[a]) \in 1..Len(Path[t]) /\ Chain(a) = {Path[t][j] : j \in 1..Len(Path[a])} /\ Len(Path[t]) \in Nat
  BY OnChainIs, PathIs
<1>2. Len(Path[a]) \in 0..Len(Path[t]) /\ Len(Path[t]) \in Len(Path[a])..Len(Path[t])
  BY <1>1
<1>3. get_missed_blocks(a, t) = Part(t, Len(Path[a]), Len(Path[t]))
  BY DEF get_missed_blocks, Part
<1> QED BY <1>1, <1>2, <1>3, PartIs

-----------------------------------------------------------------------------
(* What a step leaves as it is.                                            *)

LEMMA PlanTyped ==
    ASSUME NEW P \in Seq(Batches)
    PROVE  /\ Len(P) \in Nat
           /\ \A n \in 1..Len(P) : P[n].to \in Comps /\ P[n].blocks \in Seq(Blocks) /\ ToSet(P[n].blocks) \subseteq Blocks
           /\ \A c : Brought(P, c, Len(P)) \subseteq Blocks
<1>1. Len(P) \in Nat /\ \A n \in 1..Len(P) : P[n] \in Batches
  BY ElementOfSeq, LenProperties
<1>2. ASSUME NEW n \in 1..Len(P) PROVE P[n].to \in Comps /\ P[n].blocks \in Seq(Blocks) /\ ToSet(P[n].blocks) \subseteq Blocks
  <2>1. P[n].to \in Comps /\ P[n].blocks \in Seq(Blocks)
    BY <1>1 DEF Batches
  <2> QED BY <2>1, ItemsAre
<1>3. \A c : Brought(P, c, Len(P)) \subseteq Blocks
  BY <1>2 DEF Brought
<1> QED BY <1>1, <1>2, <1>3

LEMMA NotBlocks == None \notin Blocks /\ END \notin Blocks /\ None # END
BY TowerAssumption

(* A component that gets on, with what comes to it as it was.              *)
LEMMA FlowKept ==
    ASSUME NEW c \in Comps, Flow(c), plan \in Seq(Batches), UNCHANGED <<plan, hand, queue, tip, last_tips>>,
           tip \in Blocks, Ahead(c) \cap Blocks \subseteq Ahead(c)',
           main' = "join" /\ Head(plan).to = c => ToSet(Head(plan).blocks) \subseteq Ahead(c)',
           status' \in {"LISTENING", "ACTIVE"} => status \in {"LISTENING", "ACTIVE"}
    PROVE  Flow(c)'
<1> DEFINE B == Brought(plan, c, Len(plan))
           fed == Ahead(c) \cup B
           new == Ahead(c)' \cup B
<1>1. Brought(plan, c, Len(plan))' = B
  BY DEF Brought
<1>2. B \subseteq Blocks
  BY PlanTyped
<1>3. fed \cap Blocks \subseteq new
  BY <1>2
<1>4. GoesOn(plan, c, Ahead(c)') 
  <2> SUFFICES ASSUME NEW n \in 1..Len(plan), plan[n].to = c
               PROVE  InOrder(plan[n].blocks, Ahead(c)' \cup Brought(plan, c, n - 1))
    BY DEF GoesOn
  <2>1. InOrder(plan[n].blocks, Ahead(c) \cup Brought(plan, c, n - 1))
    BY DEF Flow, GoesOn
  <2> DEFINE S == Ahead(c) \cup Brought(plan, c, n - 1)
             T == Ahead(c)' \cup Brought(plan, c, n - 1)
  <2>2. S \cap Blocks \subseteq T
    OBVIOUS
  <2> HIDE DEF S, T
  <2>3. InOrder(plan[n].blocks, S) => InOrder(plan[n].blocks, T)
    BY <2>2, InOrderMore
  <2> QED BY <2>1, <2>3 DEF S, T
<1>5. hand \in Blocks => Below(hand) \subseteq new
  <2>1. hand \in Blocks => Below(hand) \subseteq fed
    BY DEF Flow
  <2> QED BY <1>3, <2>1, BelowIsBlocks
<1>6. InOrder(queue, new \cup {hand})
  <2>1. InOrder(queue, fed \cup {hand})
    BY DEF Flow
  <2> DEFINE S == fed \cup {hand}
             T == new \cup {hand}
  <2>2. S \cap Blocks \subseteq T
    BY <1>3
  <2> HIDE DEF S, T
  <2>3. InOrder(queue, S) => InOrder(queue, T)
    BY <2>2, InOrderMore
  <2> QED BY <2>1, <2>3 DEF S, T
<1>7. status' \in {"LISTENING", "ACTIVE"} =>
        Chain(tip) \ (IF tip \in last_tips THEN {} ELSE {tip}) \subseteq new \cup {hand} \cup ToSet(queue)
  <2>1. status' \in {"LISTENING", "ACTIVE"} =>
          Chain(tip) \ (IF tip \in last_tips THEN {} ELSE {tip}) \subseteq fed \cup {hand} \cup ToSet(queue)
    BY DEF Flow
  <2>2. Chain(tip) \subseteq Blocks
    BY PathIs
  <2> HIDE DEF fed, new
  <2> QED BY <1>3, <2>1, <2>2
<1>8. /\ GoesOn(plan, c, Ahead(c))' <=> GoesOn(plan, c, Ahead(c)')
      /\ InOrder(queue, new \cup {hand}) <=> InOrder(queue', new \cup {hand'})
      /\ (hand' \in Blocks => Below(hand') \subseteq new) <=> (hand \in Blocks => Below(hand) \subseteq new)
  BY DEF GoesOn, InOrder, Brought, Below, Chain
<1>9. Chain(tip)' = Chain(tip) /\ ToSet(queue)' = ToSet(queue) /\ Below(hand)' = Below(hand)
      /\ ToSet(Head(plan).blocks)' = ToSet(Head(plan).blocks)
  BY DEF Below, Chain, ToSet
<1>10. InOrder(queue, fed \cup {hand})' <=> InOrder(queue, new \cup {hand})
  BY <1>1 DEF InOrder, Below, Chain
<1> HIDE DEF B, new
<1> QED BY <1>1, <1>4, <1>5, <1>6, <1>7, <1>8, <1>9, <1>10 DEF Flow, new

LEMMA LeadsKept ==
    ASSUME Leads, plan \in Seq(Batches), UNCHANGED plan,
           Ahead("watcher") \cap Blocks \subseteq Ahead("watcher")', settled["watcher"] \subseteq settled'["watcher"],
           main' \in Feeds =>
               /\ main \in Feeds
               /\ (ToSet(block_queue'["responder"]) \cup {cur'["responder"]}) \cap Blocks
                      \subseteq ToSet(block_queue["responder"]) \cup {cur["responder"]}
    PROVE  Leads'
<1>1. Follows(plan, Ahead("watcher")')
  <2> SUFFICES ASSUME NEW n \in 1..Len(plan), plan[n].to = "responder"
               PROVE  ToSet(plan[n].blocks) \subseteq Ahead("watcher")' \cup Brought(plan, "watcher", n - 1)
    BY DEF Follows
  <2>1. ToSet(plan[n].blocks) \subseteq Ahead("watcher") \cup Brought(plan, "watcher", n - 1)
    BY DEF Leads, Follows
  <2>2. ToSet(plan[n].blocks) \subseteq Blocks
    BY PlanTyped
  <2> QED BY <2>1, <2>2
<1>2. Follows(plan, Ahead("watcher"))' <=> Follows(plan, Ahead("watcher")')
  BY DEF Follows, Brought
<1>3. main' \in Feeds =>
        (ToSet(block_queue'["responder"]) \cup {cur'["responder"]}) \cap Blocks \subseteq settled'["watcher"]
  BY DEF Leads
<1>4. ToSet(block_queue["responder"])' = ToSet(block_queue'["responder"])
  BY DEF ToSet
<1> QED BY <1>1, <1>2, <1>3, <1>4 DEF Leads, Feeds

-----------------------------------------------------------------------------
(* The steps that move no block.                                           *)

LEMMA WayIs ==
    WayInv => /\ Steady /\ TypeOK /\ Stages /\ Lasts /\ Tips /\ Asked /\ NoGap
              /\ \A c \in Comps : Threads(c)
              /\ main \notin Early => Leads /\ Flow("watcher") /\ Flow("responder")
BY DEF WayInv, Comps

(* A step that leaves all blocks where they are.                           *)
LEMMA StillKept ==
    ASSUME WayInv, TypeOK', Stages', Lasts', Tips', Asked',
           UNCHANGED <<tip, plan, last_tips, queue, hand, block_queue, at, cur, last, settled>>,
           main' \notin Early => main \notin Early,
           main' = "join" => main = "join", main' \in Feeds => main \in Feeds,
           main' \notin Early /\ status' \in {"LISTENING", "ACTIVE"} => status \in {"LISTENING", "ACTIVE"}
    PROVE  WayInv'
<1>1. Steady' /\ NoGap'
  BY DEF WayInv, Steady, NoGap, Chain
<1>2. \A c \in Comps : Ahead(c)' = Ahead(c)
  BY DEF Ahead, ToSet
<1>3. ASSUME NEW c \in Comps PROVE Threads(c)'
  <2>1. Threads(c)
    BY DEF WayInv
  <2>2. InOrder(block_queue[c], settled[c] \cup {cur[c]})' <=> InOrder(block_queue[c], settled[c] \cup {cur[c]})
    BY DEF InOrder, Below, Chain
  <2> QED BY <2>1, <2>2 DEF Threads, Below, Chain
<1>4. ASSUME main' \notin Early, NEW c \in Comps PROVE Flow(c)'
  <2>1. Flow(c) /\ plan \in Seq(Batches) /\ tip \in Blocks
    BY <1>4 DEF WayInv, TypeOK
  <2>2. main' = "join" /\ Head(plan).to = c => ToSet(Head(plan).blocks) \subseteq Ahead(c)'
    BY <1>2, <2>1 DEF Flow
  <2> QED BY <1>2, <1>4, <2>1, <2>2, FlowKept
<1>5. ASSUME main' \notin Early PROVE Leads'
  <2>1. Leads /\ plan \in Seq(Batches) /\ Ahead("watcher")' = Ahead("watcher")
    BY <1>2, <1>5 DEF WayInv, TypeOK, Comps
  <2> QED BY <2>1, LeadsKept
<1> QED BY <1>1, <1>3, <1>4, <1>5 DEF WayInv

LEMMA ServiceWay ==
    ASSUME WayInv,
           StartServices \/ StopCommand \/ StopApi \/ JoinRpc \/ StopInternal \/ JoinThread \/ Close
             \/ RpcServe \/ Request \/ Respond \/ Expire
    PROVE  WayInv'
<1>1. UNCHANGED <<tip, bootVars, monitorVars, block_queue, at, cur, last, settled>>
  BY DEF StartServices, StopCommand, StopApi, JoinRpc, StopInternal, JoinThread, Close, RpcServe, Request,
         Respond, Expire, monitorVars, threadVars, diskVars, hist
<1>2. \/ main' = main
      \/ /\ main \in {"services", "serving", "stop api", "join rpc", "stop internal"}
         /\ main' \in {"serving", "stop api", "join rpc", "stop internal", "terminate"}
      \/ /\ main \in {"join watcher", "join responder", "close appointments", "close users"}
         /\ main' \in {"join responder", "close appointments", "close users", "exit"}
  BY DEF StartServices, StopCommand, StopApi, JoinRpc, StopInternal, JoinThread, Close, RpcServe, Request,
         Respond, Expire
<1>3. TypeOK /\ Stages /\ Lasts /\ Tips /\ Asked
  BY DEF WayInv
<1> USE <1>1 DEF bootVars, monitorVars
<1>4. TypeOK'
  <2>1. main' \in Bootstrap \cup Teardown \cup {"off", "services", "serving"}
    BY <1>2, <1>3 DEF TypeOK, Teardown
  <2>2. expiry' \in {"none", "running", "last", "ended"}
    BY <1>3 DEF StartServices, StopCommand, StopApi, JoinRpc, StopInternal, JoinThread, Close, RpcServe, Request,
           Respond, Expire, threadVars, TypeOK
  <2>3. api' \in BOOLEAN /\ rpc' \in BOOLEAN /\ handler' \in BOOLEAN
    BY <1>3 DEF StartServices, StopCommand, StopApi, JoinRpc, StopInternal, JoinThread, Close, RpcServe, Request,
           Respond, Expire, serviceVars, TypeOK
  <2>4. open' \subseteq {"appointments", "users"} /\ held' \in BOOLEAN /\ starts' = starts
    BY <1>3 DEF StartServices, StopCommand, StopApi, JoinRpc, StopInternal, JoinThread, Close, RpcServe, Request,
           Respond, Expire, diskVars, hist, TypeOK
  <2> QED BY <1>3, <2>1, <2>2, <2>3, <2>4 DEF TypeOK
<1>5. Stages'
  BY <1>2, <1>3 DEF Stages, Early, Feeds, ToSet
<1>6. Lasts'
  <2>1. held' \/ handler' => \A c \in Comps : last[c] # None
    <3>1. CASE Request
      <4>1. \A c \in Comps : at[c] # "start" /\ at[c] # "none"
        BY <1>3, <3>1 DEF Request, Lasts
      <4> QED BY <1>3, <4>1 DEF Lasts, TypeOK
    <3>2. CASE Respond
      BY <1>3, <3>2 DEF Respond, Lasts, TypeOK
    <3>3. CASE ~Request /\ ~Respond
      <4>1. held' = held /\ handler' = handler
        BY <3>3 DEF StartServices, StopCommand, StopApi, JoinRpc, StopInternal, JoinThread, Close, RpcServe,
               Expire, diskVars, serviceVars
      <4> QED BY <1>3, <4>1 DEF Lasts
    <3> QED BY <3>1, <3>2, <3>3
  <2>2. api' => main' \in {"serving", "stop api"}
    BY <1>3 DEF StartServices, StopCommand, StopApi, JoinRpc, StopInternal, JoinThread, Close, RpcServe, Request,
           Respond, Expire, serviceVars, Lasts
  <2>3. main' \in {"ancestor", "missed"} => main' = main /\ held' = TRUE
    <3>1. main' \in {"ancestor", "missed"} => main' = main /\ held
      BY <1>2, <1>3 DEF Lasts
    <3>2. held => held' = TRUE
      BY <1>3 DEF StartServices, StopCommand, StopApi, JoinRpc, StopInternal, JoinThread, Close, RpcServe, Request,
             Respond, Expire, diskVars, TypeOK
    <3> QED BY <3>1, <3>2
  <2>4. main' \notin {"off", "listen", "load"} => main \notin {"off", "listen", "load"}
    BY <1>2
  <2> QED BY <1>3, <2>1, <2>2, <2>3, <2>4 DEF Lasts
<1>7. Tips' /\ Asked'
  <2>1. (main' \in Early => main \in Early) /\ (main' = "missed" <=> main = "missed") /\ (main \in {"ancestor", "missed"} => main' = main)
    BY <1>2 DEF Early
  <2>2. Tips'
    BY <1>3, <2>1 DEF Tips, Chain, ToSet
  <2>3. Asked'
    BY <1>3, <2>1 DEF Asked, CommonWith, Asking
  <2> QED BY <2>2, <2>3
<1>8. /\ main' \notin Early => main \notin Early
      /\ main' = "join" => main = "join"
      /\ main' \in Feeds => main \in Feeds
  BY <1>2 DEF Early, Feeds
<1> QED BY <1>4, <1>5, <1>6, <1>7, <1>8, StillKept

LEMMA TurnWay ==
    ASSUME WayInv, Activate \/ Terminate \/ Start \/ MonitorChain \/ UNCHANGED vars
    PROVE  WayInv'
<1>1. TypeOK /\ Stages /\ Lasts /\ Tips /\ Asked
  BY DEF WayInv
<1>2. CASE Activate
  <2>1. /\ UNCHANGED <<tip, bootVars, last_tips, queue, hand, threadVars, serviceVars, diskVars, hist>>
        /\ main = "feed" /\ plan = <<>> /\ main' = "services" /\ status' = "ACTIVE" /\ notifier' = "get"
    BY <1>2 DEF Activate
  <2> USE <2>1 DEF bootVars, threadVars, serviceVars, diskVars, hist
  <2>2. status = "LISTENING" /\ hand = None /\ missed = None
    BY <1>1 DEF Stages, Feeds, Asked, Early
  <2>3. TypeOK'
    BY <1>1 DEF TypeOK
  <2>4. Stages'
    BY <1>1, <2>2 DEF Stages, Early, Feeds
  <2>5. Lasts'
    BY <1>1 DEF Lasts
  <2>6. Tips' /\ Asked'
    BY <1>1, <2>2 DEF Tips, Asked, Early, Chain
  <2> QED BY <2>2, <2>3, <2>4, <2>5, <2>6, StillKept DEF Early, Feeds
<1>3. CASE Terminate
  <2>1. /\ UNCHANGED <<tip, bootVars, last_tips, queue, notifier, hand, threadVars, serviceVars, diskVars, hist>>
        /\ main = "terminate" /\ main' = "end" /\ status' = "TERMINATED"
    BY <1>3 DEF Terminate
  <2> USE <2>1 DEF bootVars, threadVars, serviceVars, diskVars, hist
  <2>2. missed = None
    BY <1>1 DEF Asked
  <2>3. TypeOK'
    BY <1>1 DEF TypeOK, Teardown
  <2>4. Stages'
    BY <1>1 DEF Stages, Early, Feeds
  <2>5. Lasts'
    BY <1>1 DEF Lasts
  <2>6. Tips' /\ Asked'
    BY <1>1, <2>2 DEF Tips, Asked, Early, Chain
  <2> QED BY <2>3, <2>4, <2>5, <2>6, StillKept DEF Early, Feeds
<1>4. CASE Start
  <2>1. /\ UNCHANGED <<tip, bootVars, monitorVars, block_queue, at, cur, serviceVars, held, last, settled>>
        /\ main = "off" /\ main' = "listen" /\ open' = {"appointments", "users"} /\ expiry' = "running"
        /\ starts < MaxStarts /\ starts' = starts + 1
    BY <1>4 DEF Start
  <2> USE <2>1 DEF bootVars, monitorVars, serviceVars
  <2>2. missed = None
    BY <1>1 DEF Asked
  <2>3. TypeOK'
    <3>1. starts' \in 0..MaxStarts
      <4>1. starts \in 0..MaxStarts
        BY <1>1 DEF TypeOK
      <4>2. MaxStarts \in Nat
        BY TowerAssumption
      <4>3. \A m \in 0..MaxStarts : m < MaxStarts => m + 1 \in 0..MaxStarts
        BY <4>2
      <4> QED BY <4>1, <4>3
    <3> QED BY <1>1, <3>1 DEF TypeOK, Bootstrap
  <2>4. Stages'
    BY <1>1 DEF Stages, Early, Feeds
  <2>5. Lasts'
    BY <1>1 DEF Lasts
  <2>6. Tips' /\ Asked'
    BY <1>1, <2>2 DEF Tips, Asked, Early, Chain, ToSet
  <2> QED BY <2>3, <2>4, <2>5, <2>6, StillKept DEF Early, Feeds
<1>5. CASE MonitorChain
  <2>1. /\ UNCHANGED <<tip, bootVars, queue, notifier, hand, threadVars, serviceVars, diskVars, hist>>
        /\ main = "listen" /\ main' = "load" /\ status' = "LISTENING" /\ last_tips' = {tip}
    BY <1>5 DEF MonitorChain
  <2> USE <2>1 DEF bootVars, threadVars, serviceVars, diskVars, hist
  <2>2. missed = None /\ tip \in Blocks
    BY <1>1 DEF Asked, TypeOK
  <2>3. TypeOK'
    BY <1>1 DEF TypeOK, Bootstrap
  <2>4. Stages'
    BY <1>1 DEF Stages, Early, Feeds
  <2>5. Lasts'
    BY <1>1 DEF Lasts
  <2>6. Tips'
    <3>1. {tip} \subseteq Chain(tip)
      BY <2>2, PathIs
    <3> QED BY <1>1, <3>1 DEF Tips, Early, Chain, ToSet
  <2>7. Asked' /\ NoGap' /\ Steady' /\ main' \in Early
    BY <1>1, <2>2 DEF Asked, WayInv, NoGap, Chain, Steady, Early
  <2>8. ASSUME NEW c \in Comps PROVE Threads(c)'
    <3>1. Threads(c)
      BY DEF WayInv
    <3>2. InOrder(block_queue[c], settled[c] \cup {cur[c]})' <=> InOrder(block_queue[c], settled[c] \cup {cur[c]})
      BY DEF InOrder, Below, Chain
    <3> QED BY <3>1, <3>2 DEF Threads, Below, Chain
  <2> QED BY <2>3, <2>4, <2>5, <2>6, <2>7, <2>8 DEF WayInv
<1>6. CASE UNCHANGED vars
  <2> USE <1>6 DEF vars, bootVars, monitorVars, threadVars, serviceVars, diskVars, hist
  <2>1. TypeOK'
    BY <1>1 DEF TypeOK
  <2>4. Lasts'
    BY <1>1 DEF Lasts
  <2>2. Stages'
    BY <1>1 DEF Stages, ToSet
  <2>3. Tips' /\ Asked'
    BY <1>1 DEF Tips, Asked, CommonWith, Asking, Chain, ToSet
  <2> QED BY <2>1, <2>2, <2>3, <2>4, StillKept
<1> QED BY <1>2, <1>3, <1>4, <1>5, <1>6

(* A new life: what is kept is on disk.                                    *)
LEMMA GoneWay ==
    ASSUME WayInv, Exit \/ Crash
    PROVE  WayInv'
<1>1. TypeOK /\ Stages /\ Lasts /\ Tips /\ Asked /\ NoGap /\ Steady
  BY DEF WayInv
<1>2. Gone
  BY DEF Exit, Crash
<1>3. /\ UNCHANGED <<tip, held, last, settled, starts>>
      /\ main' = "off" /\ ancestor' = None /\ missed' = None /\ plan' = <<>>
      /\ status' = "IDLE" /\ last_tips' = {} /\ queue' = <<>>
      /\ notifier' = "none" /\ hand' = None
      /\ block_queue' = [c \in Comps |-> <<>>]
      /\ at' = [c \in Comps |-> "none"] /\ cur' = [c \in Comps |-> None] /\ expiry' = "none"
      /\ api' = FALSE /\ rpc' = FALSE /\ handler' = FALSE /\ open' = {}
  BY <1>2 DEF Gone, hist
<1> USE <1>3
<1>4. TypeOK'
  <2>1. \A T : <<>> \in Seq(T)
    OBVIOUS
  <2>2. /\ block_queue' \in [Comps -> Seq(Blocks \cup {END})]
        /\ at' \in [Comps -> {"none", "start", "get", "work", "store", "ended"}]
        /\ cur' \in [Comps -> Blocks \cup {None}]
    BY <2>1
  <2>3. plan' \in Seq(Batches) /\ queue' \in Seq(Blocks \cup {END})
    BY <2>1
  <2> QED BY <1>1, <2>2, <2>3 DEF TypeOK
<1>5. Stages'
  BY DEF Stages, Early, Feeds
<1>6. Lasts'
  BY <1>1 DEF Lasts
<1>7. Tips' /\ Asked' /\ NoGap' /\ Steady'
  <2>1. ToSet(queue') = {}
    BY InOrderNone
  <2>2. Tips'
    BY <2>1 DEF Tips, ToSet
  <2> QED BY <1>1, <2>2 DEF Asked, NoGap, Chain, Steady
<1>8. ASSUME NEW c \in Comps PROVE Threads(c)'
  <2>1. InOrder(<<>>, settled[c] \cup {None})
    BY InOrderNone
  <2>2. InOrder(block_queue[c], settled[c] \cup {cur[c]})'
    BY <2>1 DEF InOrder, Below, Chain
  <2> QED BY <2>2 DEF Threads
<1> QED BY <1>4, <1>5, <1>6, <1>7, <1>8 DEF WayInv, Early

-----------------------------------------------------------------------------
(* The bootstrap.                                                          *)

LEMMA EmptyPlan ==
    ASSUME NEW c, NEW S
    PROVE  GoesOn(<<>>, c, S) /\ Follows(<<>>, S) /\ Brought(<<>>, c, Len(<<>>)) = {} /\ \A n \in Nat : n = 0 => Brought(<<>>, c, n) = {}
<1>1. Len(<<>>) = 0 /\ 1..0 = {}
  BY EmptySeq
<1> QED BY <1>1 DEF GoesOn, Follows, Brought

LEMMA LoadWay ==
    ASSUME WayInv, Load
    PROVE  WayInv'
<1>1. TypeOK /\ Stages /\ Lasts /\ Tips /\ Asked /\ NoGap /\ Steady
  BY DEF WayInv
<1>2. /\ UNCHANGED <<tip, bootVars, monitorVars, block_queue, cur, expiry, serviceVars, diskVars, starts>>
      /\ main = "load" /\ main' = IF held THEN "ancestor" ELSE "feed"
      /\ at' = [c \in Comps |-> "start"]
      /\ settled' = IF held THEN settled ELSE [c \in Comps |-> settled[c] \cup Chain(tip)]
  BY DEF Load
<1> USE <1>2 DEF bootVars, monitorVars, serviceVars, diskVars
<1>3. tip \in Blocks /\ missed = None /\ plan = <<>> /\ hand = None /\ status = "LISTENING"
      /\ ToSet(queue) \subseteq Chain(tip)
      /\ \A c \in Comps : block_queue[c] = <<>> /\ cur[c] = None
  BY <1>1 DEF TypeOK, Asked, Stages, Tips, Early, Feeds
<1>4. Chain(tip) \subseteq Blocks /\ settled \in [Comps -> SUBSET Blocks]
  BY <1>1, <1>3, PathIs DEF TypeOK
<1>5. TypeOK'
  <2>1. settled' \in [Comps -> SUBSET Blocks]
    BY <1>4
  <2>2. at' \in [Comps -> {"none", "start", "get", "work", "store", "ended"}]
    OBVIOUS
  <2> QED BY <1>1, <2>1, <2>2 DEF TypeOK, Bootstrap
<1>6. Stages'
  BY <1>1, <1>3 DEF Stages, Early, Feeds, ToSet
<1>7. Lasts'
  BY <1>1 DEF Lasts
<1>8. Tips' /\ Asked'
  BY <1>1, <1>3 DEF Tips, Asked, Early, Chain, ToSet
<1>9. \A c \in Comps : settled[c] \subseteq settled'[c]
  BY <1>4
<1>10. NoGap' /\ Steady'
  <2>1. \A c \in Comps : last'[c] = last[c]
    BY <1>2
  <2>2. NoGap'
    <3> SUFFICES ASSUME NEW c \in Comps, last'[c] # None PROVE Chain(last'[c]) \subseteq settled'[c]
      BY DEF NoGap, Chain
    <3>1. Chain(last[c]) \subseteq settled[c]
      BY <1>1, <2>1 DEF NoGap
    <3> QED BY <1>9, <2>1, <3>1
  <2> QED BY <1>1, <2>2 DEF Steady
<1>11. ASSUME NEW c \in Comps PROVE Threads(c)'
  <2>1. InOrder(<<>>, settled'[c] \cup {cur'[c]})
    BY InOrderNone
  <2>2. InOrder(block_queue[c], settled[c] \cup {cur[c]})'
    BY <1>3, <2>1 DEF InOrder, Below, Chain
  <2> QED BY <2>2 DEF Threads
<1>12. CASE held
  BY <1>5, <1>6, <1>7, <1>8, <1>10, <1>11, <1>12 DEF WayInv, Early
<1>13. CASE ~held
  <2>1. \A c \in Comps : Chain(tip) \subseteq settled'[c]
    BY <1>4, <1>13
  <2>2. ASSUME NEW c \in Comps PROVE Flow(c)'
    <3> DEFINE B == Brought(<<>>, c, Len(<<>>))
               S == Ahead(c)' \cup B
    <3>1. Chain(tip) \subseteq S
      BY <2>1 DEF Ahead
    <3>2. GoesOn(<<>>, c, Ahead(c)') /\ B = {}
      BY EmptyPlan
    <3>3. InOrder(queue, S \cup {hand})
      <4>1. \A b \in Chain(tip) : Below(b) \subseteq Chain(tip)
        <5>1. \A b \in Chain(tip) : OnChain(b, tip)
          BY <1>3, PathIs DEF OnChain
        <5> QED BY <1>3, <5>1, OnChainIs DEF Below
      <4>2. \A k \in 1..Len(queue) : queue[k] \in ToSet(queue)
        BY <1>1, ItemsAre DEF TypeOK
      <4> HIDE DEF S
      <4> QED BY <1>3, <3>1, <4>1, <4>2 DEF InOrder
    <3>4. GoesOn(plan, c, Ahead(c))' <=> GoesOn(<<>>, c, Ahead(c)')
      BY <1>3 DEF GoesOn, Brought, InOrder, Below, Chain
    <3>5. Brought(plan, c, Len(plan))' = B
      BY <1>3 DEF Brought
    <3>6. InOrder(queue, (Ahead(c) \cup Brought(plan, c, Len(plan))) \cup {hand})' <=> InOrder(queue, S \cup {hand})
      BY <3>5 DEF InOrder, Below, Chain
    <3>7. Chain(tip)' = Chain(tip)
      BY DEF Chain
    <3> HIDE DEF B
    <3> QED BY <1>3, <1>13, <3>1, <3>2, <3>3, <3>4, <3>5, <3>6, <3>7, NotBlocks DEF Flow
  <2>3. Leads'
    <3>1. Follows(<<>>, Ahead("watcher")')
      BY EmptyPlan
    <3>2. Follows(plan, Ahead("watcher"))' <=> Follows(<<>>, Ahead("watcher")')
      BY <1>3 DEF Follows, Brought
    <3>3. ToSet(block_queue["responder"])' = {} /\ cur'["responder"] = None
      BY <1>3, InOrderNone DEF Comps, ToSet
    <3> QED BY <3>1, <3>2, <3>3, NotBlocks DEF Leads
  <2> QED BY <1>5, <1>6, <1>7, <1>8, <1>10, <1>11, <2>2, <2>3 DEF WayInv
<1> QED BY <1>12, <1>13

LEMMA FindAncestorWay ==
    ASSUME WayInv, FindAncestor
    PROVE  WayInv'
<1>1. TypeOK /\ Stages /\ Lasts /\ Tips /\ Asked /\ NoGap /\ Steady
  BY DEF WayInv
<1>2. /\ UNCHANGED <<tip, missed, plan, monitorVars, threadVars, serviceVars, diskVars, hist>>
      /\ main = "ancestor" /\ main' = "missed"
      /\ ancestor' = find_last_common_ancestor(last[Asking], tip)
  BY DEF FindAncestor
<1>3. Asking \in Comps /\ last[Asking] \in Blocks /\ tip \in Blocks
  BY <1>1, <1>2 DEF Asking, Comps, Lasts, TypeOK
<1>4. ancestor' \in Blocks /\ OnChain(ancestor', last[Asking]) /\ OnChain(ancestor', tip)
  BY <1>2, <1>3, Ancestor
<1> USE <1>2 DEF monitorVars, threadVars, serviceVars, diskVars, hist
<1>5. TypeOK'
  BY <1>1, <1>4 DEF TypeOK, Bootstrap
<1>6. Stages'
  BY <1>1 DEF Stages, Early, Feeds, ToSet
<1>7. Lasts'
  BY <1>1 DEF Lasts
<1>8. Tips'
  BY <1>1 DEF Tips, Early, Chain, ToSet
<1>9. Asked'
  <2>1. CommonWith(ancestor, Asking)'
    BY <1>4 DEF CommonWith, Asking, OnChain
  <2>2. missed # None => \E a \in Blocks : CommonWith(a, "watcher")' /\ missed' = get_missed_blocks(a, tip)'
    BY <1>1 DEF Asked, CommonWith, OnChain, get_missed_blocks
  <2> QED BY <2>1, <2>2 DEF Asked
<1>10. NoGap' /\ Steady'
  BY <1>1 DEF NoGap, Chain, Steady
<1>11. ASSUME NEW c \in Comps PROVE Threads(c)'
  <2>1. Threads(c)
    BY DEF WayInv
  <2>2. InOrder(block_queue[c], settled[c] \cup {cur[c]})' <=> InOrder(block_queue[c], settled[c] \cup {cur[c]})
    BY DEF InOrder, Below, Chain
  <2> QED BY <2>1, <2>2 DEF Threads, Below, Chain
<1> QED BY <1>5, <1>6, <1>7, <1>8, <1>9, <1>10, <1>11 DEF WayInv, Early

LEMMA GetMissedWay ==
    ASSUME WayInv, GetMissed
    PROVE  WayInv'
<1>1. TypeOK /\ Stages /\ Lasts /\ Tips /\ Asked /\ NoGap /\ Steady
  BY DEF WayInv
<1>2. /\ UNCHANGED <<tip, monitorVars, threadVars, serviceVars, diskVars, hist>>
      /\ main = "missed" /\ ancestor' = None
  BY DEF GetMissed
<1> USE <1>2 DEF monitorVars, threadVars, serviceVars, diskVars, hist
<1>3. tip \in Blocks /\ CommonWith(ancestor, Asking) /\ Asking \in Comps
  BY <1>1 DEF TypeOK, Asked, Asking, Comps
<1>4. /\ plan = <<>> /\ hand = None /\ status = "LISTENING" /\ held
      /\ \A c \in Comps : block_queue[c] = <<>> /\ cur[c] = None /\ last[c] \in Blocks
  BY <1>1 DEF Stages, Lasts, Early, Feeds, TypeOK
<1>5. NoGap' /\ Steady'
  BY <1>1 DEF NoGap, Chain, Steady
<1>6. ASSUME NEW c \in Comps PROVE Threads(c)'
  <2>1. Threads(c)
    BY DEF WayInv
  <2>2. InOrder(block_queue[c], settled[c] \cup {cur[c]})' <=> InOrder(block_queue[c], settled[c] \cup {cur[c]})
    BY DEF InOrder, Below, Chain
  <2> QED BY <2>1, <2>2 DEF Threads, Below, Chain
<1>7. Tips'
  BY <1>1, <1>2 DEF Tips, Early, Chain, ToSet
<1>8. CASE missed = None /\ last["watcher"] # last["responder"]
  <2>1. missed' = get_missed_blocks(ancestor, tip) /\ main' = "ancestor" /\ plan' = plan
    BY <1>8 DEF GetMissed
  <2>2. ancestor \in Blocks /\ OnChain(ancestor, tip) /\ CommonWith(ancestor, "watcher")
    BY <1>3, <1>8 DEF CommonWith, Asking
  <2>3. missed' \in Seq(Blocks)
    BY <1>3, <2>1, <2>2, MissedIs
  <2>4. TypeOK'
    BY <1>1, <2>1, <2>3 DEF TypeOK, Bootstrap
  <2>5. Stages' /\ Lasts'
    BY <1>1, <2>1 DEF Stages, Lasts, Early, Feeds, ToSet
  <2>6. Asked'
    <3>1. CommonWith(ancestor, "watcher") => /\ OnChain(ancestor, tip') /\ OnChain(ancestor, last'["watcher"])
      BY DEF CommonWith
    <3> QED BY <2>1, <2>2, <3>1 DEF Asked, CommonWith, OnChain, get_missed_blocks
  <2> QED BY <1>5, <1>6, <1>7, <2>1, <2>4, <2>5, <2>6 DEF WayInv, Early
<1>9. CASE ~(missed = None /\ last["watcher"] # last["responder"])
  <2> DEFINE blocks == get_missed_blocks(ancestor, tip)
             mw == IF missed = None THEN blocks ELSE missed
  <2>1. missed' = None /\ main' = "feed" /\ plan' = Feeding(mw, blocks)
    BY <1>9 DEF GetMissed
  <2>2. PICK a \in Blocks : CommonWith(a, "watcher") /\ mw = get_missed_blocks(a, tip)
    <3>1. CASE missed = None
      BY <1>3, <3>1 DEF CommonWith, Asking
    <3>2. CASE missed # None
      BY <1>1, <3>2 DEF Asked
    <3> QED BY <3>1, <3>2
  <2>3. CommonWith(ancestor, "responder")
    BY <1>3, <1>9 DEF CommonWith, Asking
  <2> DEFINE L == Len(Path[tip])
             p == Len(Path[a])
             q == Len(Path[ancestor])
  <2>4. /\ p \in 0..L /\ q \in 0..L
        /\ mw = Part(tip, p, L) /\ blocks = Part(tip, q, L)
        /\ Chain(a) = {Path[tip][j] : j \in 1..p} /\ Chain(ancestor) = {Path[tip][j] : j \in 1..q}
    BY <1>3, <2>2, <2>3, MissedIs DEF CommonWith
  <2>5. \A c \in Comps : Chain(last[c]) \subseteq settled[c]
    BY <1>1, <1>4, NotBlocks DEF NoGap
  <2>6. Chain(a) \subseteq Ahead("watcher") /\ Chain(ancestor) \subseteq Ahead("responder")
    <3>1. Chain(a) \subseteq Chain(last["watcher"]) /\ Chain(ancestor) \subseteq Chain(last["responder"])
      BY <1>4, <2>2, <2>3, OnChainIs DEF CommonWith, Comps
    <3> QED BY <2>5, <3>1 DEF Ahead, Comps
  <2>7. (\A j \in 1..p : Path[tip][j] \in Ahead("watcher")) /\ \A j \in 1..q : Path[tip][j] \in Ahead("responder")
    BY <2>4, <2>6
  <2> DEFINE P == Feeding(Part(tip, p, L), Part(tip, q, L))
  <2> HIDE DEF p, q
  <2>8. /\ P \in Seq(Batches)
        /\ GoesOn(P, "watcher", Ahead("watcher")) /\ GoesOn(P, "responder", Ahead("responder"))
        /\ Follows(P, Ahead("watcher"))
        /\ Chain(tip) \subseteq Ahead("watcher") \cup Brought(P, "watcher", Len(P))
        /\ Chain(tip) \subseteq Ahead("responder") \cup Brought(P, "responder", Len(P))
    BY <1>3, <2>4, <2>7, FeedingOK
  <2>9. plan' = P
    BY <2>1, <2>4
  <2> HIDE DEF P, blocks, mw
  <2>10. TypeOK'
    BY <1>1, <2>1, <2>8, <2>9 DEF TypeOK, Bootstrap
  <2>11. Stages' /\ Lasts'
    BY <1>1, <2>1 DEF Stages, Lasts, Early, Feeds, ToSet
  <2>12. Asked'
    BY <2>1 DEF Asked
  <2>13. ASSUME NEW c \in Comps PROVE Flow(c)'
    <3> DEFINE B == Brought(P, c, Len(P))
               S == Ahead(c) \cup B
    <3>1. Ahead(c)' = Ahead(c)
      BY DEF Ahead, ToSet
    <3>2. Chain(tip) \subseteq S /\ GoesOn(P, c, Ahead(c))
      BY <2>8 DEF Comps
    <3>3. InOrder(queue, S \cup {hand})
      <4>1. \A b \in Chain(tip) : Below(b) \subseteq Chain(tip)
        <5>1. \A b \in Chain(tip) : OnChain(b, tip)
          BY <1>3, PathIs DEF OnChain
        <5> QED BY <1>3, <5>1, OnChainIs DEF Below
      <4>2. \A k \in 1..Len(queue) : queue[k] \in ToSet(queue)
        BY <1>1, ItemsAre DEF TypeOK
      <4>3. ToSet(queue) \subseteq Chain(tip)
        BY <1>1 DEF Tips, Early
      <4> HIDE DEF S
      <4> QED BY <3>2, <4>1, <4>2, <4>3 DEF InOrder
    <3>4. GoesOn(plan, c, Ahead(c))' <=> GoesOn(P, c, Ahead(c)')
      BY <2>9 DEF GoesOn, Brought, InOrder, Below, Chain
    <3>5. Brought(plan, c, Len(plan))' = B
      BY <2>9 DEF Brought
    <3>6. InOrder(queue, (Ahead(c) \cup Brought(plan, c, Len(plan))) \cup {hand})' <=> InOrder(queue, S \cup {hand})
      BY <3>1, <3>5 DEF InOrder, Below, Chain
    <3>7. Chain(tip)' = Chain(tip)
      BY DEF Chain
    <3> HIDE DEF B
    <3> QED BY <1>4, <2>1, <3>1, <3>2, <3>3, <3>4, <3>5, <3>6, <3>7, NotBlocks DEF Flow
  <2>14. Leads'
    <3>1. Ahead("watcher")' = Ahead("watcher")
      BY DEF Ahead, ToSet
    <3>2. Follows(plan, Ahead("watcher"))' <=> Follows(P, Ahead("watcher"))
      BY <2>9, <3>1 DEF Follows, Brought
    <3>3. ToSet(block_queue["responder"])' = {} /\ cur'["responder"] = None
      BY <1>4, InOrderNone DEF Comps, ToSet
    <3> QED BY <2>8, <3>2, <3>3, NotBlocks DEF Leads
  <2> QED BY <1>5, <1>6, <1>7, <2>10, <2>11, <2>12, <2>13, <2>14 DEF WayInv
<1> QED BY <1>8, <1>9

(* The first batch of a plan, and the rest.                                *)
LEMMA FirstBatch ==
    ASSUME NEW P \in Seq(Batches), P # <<>>, NEW c
    PROVE  /\ 1 \in 1..Len(P) /\ Head(P) = P[1]
           /\ Brought(P, c, 1 - 1) = {}
           /\ Brought(P, c, Len(P)) \subseteq (IF P[1].to = c THEN ToSet(P[1].blocks) ELSE {}) \cup Brought(Tail(P), c, Len(Tail(P)))
           /\ \A n \in 1..Len(Tail(P)) :
                 /\ n + 1 \in 1..Len(P) /\ Tail(P)[n] = P[n + 1]
                 /\ Brought(P, c, (n + 1) - 1) \subseteq
                        (IF P[1].to = c THEN ToSet(P[1].blocks) ELSE {}) \cup Brought(Tail(P), c, n - 1)
<1> DEFINE T == Tail(P)
           F == IF P[1].to = c THEN ToSet(P[1].blocks) ELSE {}
<1>1. /\ T \in Seq(Batches) /\ Head(P) = P[1] /\ Len(P) \in Nat /\ Len(P) > 0
      /\ Len(T) = Len(P) - 1 /\ \A i \in 1..(Len(P) - 1) : T[i] = P[i + 1]
  BY TailItems
<1> HIDE DEF T
<1>2. ASSUME NEW m \in 1..Len(P) PROVE Brought(P, c, m) \subseteq F \cup Brought(T, c, m - 1)
  <2> SUFFICES ASSUME NEW j \in 1..m, P[j].to = c, j # 1 PROVE ToSet(P[j].blocks) \subseteq Brought(T, c, m - 1)
    BY DEF Brought
  <2>1. PICK i \in 1..(m - 1) : i + 1 = j /\ i \in 1..(Len(P) - 1)
    <3>1. j - 1 \in 1..(m - 1) /\ (j - 1) + 1 = j /\ j - 1 \in 1..(Len(P) - 1)
      BY <1>1
    <3> QED BY <3>1
  <2>2. T[i] = P[j]
    BY <1>1, <2>1
  <2> QED BY <2>2 DEF Brought
<1>3. Brought(P, c, 1 - 1) = {}
  <2>1. 1..(1 - 1) = {}
    OBVIOUS
  <2> QED BY <2>1 DEF Brought
<1>4. ASSUME NEW n \in 1..Len(T)
      PROVE  n + 1 \in 1..Len(P) /\ T[n] = P[n + 1] /\ Brought(P, c, (n + 1) - 1) \subseteq F \cup Brought(T, c, n - 1)
  <2>1. n + 1 \in 1..Len(P) /\ n \in 1..(Len(P) - 1) /\ (n + 1) - 1 = n /\ n \in 1..Len(P)
    BY <1>1
  <2> QED BY <1>1, <1>2, <2>1
<1>5. 1 \in 1..Len(P) /\ Len(P) \in 1..Len(P) /\ Len(P) - 1 = Len(T)
  BY <1>1
<1> QED BY <1>1, <1>2, <1>3, <1>4, <1>5 DEF T

LEMMA FeedWay ==
    ASSUME WayInv, Feed
    PROVE  WayInv'
<1>1. TypeOK /\ Stages /\ Lasts /\ Tips /\ Asked /\ NoGap /\ Steady
  BY DEF WayInv
<1>2. /\ UNCHANGED <<tip, bootVars, monitorVars, at, cur, expiry, serviceVars, diskVars, hist>>
      /\ main = "feed" /\ main' = "join" /\ plan # <<>>
      /\ block_queue' = [block_queue EXCEPT ![Head(plan).to] = @ \o Head(plan).blocks]
  BY DEF Feed
<1> USE <1>2 DEF bootVars, monitorVars, serviceVars, diskVars, hist
<1>3. Leads /\ \A c \in Comps : Flow(c)
  BY DEF WayInv, Early
<1>4. plan \in Seq(Batches) /\ block_queue \in [Comps -> Seq(Blocks \cup {END})] /\ tip \in Blocks /\ missed = None
  BY <1>1 DEF TypeOK, Asked
<1>5. PICK e \in Comps, s \in Seq(Blocks) : Head(plan).to = e /\ Head(plan).blocks = s
  <2>1. Head(plan) \in Batches
    BY <1>4, TailItems
  <2> QED BY <2>1 DEF Batches
<1>6. Head(plan) = plan[1] /\ 1 \in 1..Len(plan) /\ \A c : Brought(plan, c, 1 - 1) = {}
  BY <1>4, FirstBatch
<1>7. \A c \in Comps : block_queue[c] = <<>> /\ cur[c] = None
  BY <1>1 DEF Stages
<1>8. /\ block_queue'[e] = s /\ \A c \in Comps : c # e => block_queue'[c] = <<>>
      /\ block_queue' = [c \in Comps |-> IF c = e THEN s ELSE <<>>]
  <2>1. <<>> \o s = s
    BY <1>5, ConcatEmptySeq
  <2> QED BY <1>4, <1>5, <1>7, <2>1
<1>9. ToSet(s) \subseteq Blocks /\ ToSet(<<>>) = {} /\ \A c : InOrder(<<>>, c)
  BY <1>5, ItemsAre, InOrderNone
<1>10. TypeOK'
  <2>1. block_queue' \in [Comps -> Seq(Blocks \cup {END})]
    <3>1. s \in Seq(Blocks \cup {END}) /\ <<>> \in Seq(Blocks \cup {END})
      BY <1>5
    <3> QED BY <1>8, <3>1
  <2> QED BY <1>1, <2>1 DEF TypeOK, Bootstrap
<1>11. Stages'
  <2>1. \A c \in Comps : END \notin ToSet(block_queue'[c])
    BY <1>8, <1>9, NotBlocks
  <2>2. \A c \in Comps : c = Head(plan').to \/ (block_queue'[c] = <<>> /\ cur'[c] = None)
    BY <1>5, <1>7, <1>8
  <2>3. \A c \in Comps : ToSet(block_queue[c])' = ToSet(block_queue'[c])
    BY DEF ToSet
  <2> QED BY <1>1, <2>1, <2>2, <2>3 DEF Stages, Early, Feeds
<1>12. Lasts'
  BY <1>1 DEF Lasts
<1>13. Tips' /\ Asked' /\ NoGap' /\ Steady'
  BY <1>1, <1>4 DEF Tips, Early, Asked, NoGap, Chain, Steady
<1>14. ASSUME NEW c \in Comps
       PROVE  Ahead(c) = settled[c] \cup {None} /\ Ahead(c)' = settled[c] \cup {None} \cup (IF c = e THEN ToSet(s) ELSE {})
  <2>1. Ahead(c) = settled[c] \cup {None}
    BY <1>7, <1>9 DEF Ahead
  <2>2. Ahead(c)' = settled[c] \cup {None} \cup ToSet(block_queue'[c])
    BY <1>7 DEF Ahead, ToSet
  <2> QED BY <1>8, <1>9, <2>1, <2>2
<1>15. ASSUME NEW c \in Comps PROVE Threads(c)'
  <2>1. at'[c] \notin {"work", "store"}
    BY <1>1, <1>7 DEF Stages
  <2>2. InOrder(block_queue'[c], settled[c] \cup {None})
    <3>1. CASE c = e
      <4>1. InOrder(s, Ahead(e) \cup Brought(plan, e, 1 - 1))
        BY <1>3, <1>5, <1>6 DEF Flow, GoesOn
      <4>2. Ahead(e) \cup Brought(plan, e, 1 - 1) = settled[e] \cup {None}
        BY <1>6, <1>14
      <4>3. InOrder(s, settled[e] \cup {None})
        BY <4>1, <4>2
      <4> QED BY <1>8, <3>1, <4>3
    <3>2. CASE c # e
      BY <1>8, <1>9, <3>2
    <3> QED BY <3>1, <3>2
  <2>3. InOrder(block_queue[c], settled[c] \cup {cur[c]})' <=> InOrder(block_queue'[c], settled[c] \cup {None})
    BY <1>7 DEF InOrder, Below, Chain
  <2> QED BY <2>1, <2>2, <2>3 DEF Threads
<1>16. ASSUME NEW c \in Comps PROVE Flow(c)'
  <2>1. Ahead(c) \cap Blocks \subseteq Ahead(c)'
    BY <1>14
  <2>2. Head(plan).to = c => ToSet(Head(plan).blocks) \subseteq Ahead(c)'
    BY <1>5, <1>14
  <2> QED BY <1>3, <1>4, <2>1, <2>2, FlowKept
<1>17. Leads'
  <2>1. Follows(plan, Ahead("watcher"))'
    <3>1. Ahead("watcher") \subseteq Ahead("watcher")'
      BY <1>14 DEF Comps
    <3>2. Follows(plan, Ahead("watcher")')
      BY <1>3, <3>1 DEF Leads, Follows
    <3>3. Follows(plan, Ahead("watcher"))' <=> Follows(plan, Ahead("watcher")')
      BY DEF Follows, Brought
    <3> QED BY <3>2, <3>3
  <2>2. (ToSet(block_queue'["responder"]) \cup {cur'["responder"]}) \cap Blocks \subseteq settled["watcher"]
    <3>1. CASE e = "responder"
      <4>1. ToSet(s) \subseteq Ahead("watcher") \cup Brought(plan, "watcher", 1 - 1)
        BY <1>3, <1>5, <1>6, <3>1 DEF Leads, Follows
      <4>2. Ahead("watcher") \cup Brought(plan, "watcher", 1 - 1) = settled["watcher"] \cup {None}
        BY <1>6, <1>14 DEF Comps
      <4>3. block_queue'["responder"] = s /\ cur'["responder"] = None
        BY <1>7, <1>8, <3>1
      <4> QED BY <4>1, <4>2, <4>3, NotBlocks
    <3>2. CASE e # "responder"
      <4>1. block_queue'["responder"] = <<>> /\ cur'["responder"] = None
        BY <1>7, <1>8, <3>2 DEF Comps
      <4> QED BY <1>9, <4>1, NotBlocks
    <3> QED BY <3>1, <3>2
  <2>3. ToSet(block_queue["responder"])' = ToSet(block_queue'["responder"])
    BY DEF ToSet
  <2> QED BY <2>1, <2>2, <2>3 DEF Leads
<1> QED BY <1>10, <1>11, <1>12, <1>13, <1>15, <1>16, <1>17 DEF WayInv

LEMMA JoinWay ==
    ASSUME WayInv, Join
    PROVE  WayInv'
<1>1. TypeOK /\ Stages /\ Lasts /\ Tips /\ Asked /\ NoGap /\ Steady
  BY DEF WayInv
<1>2. /\ UNCHANGED <<tip, ancestor, missed, monitorVars, threadVars, serviceVars, diskVars, hist>>
      /\ main = "join" /\ main' = "feed"
  BY DEF Join
<1>17. Joined(Head(plan).to) /\ plan' = Tail(plan)
  BY DEF Join
<1> USE <1>2 DEF monitorVars, threadVars, serviceVars, diskVars, hist
<1>3. Leads /\ \A c \in Comps : Flow(c)
  BY DEF WayInv, Early
<1>4. plan \in Seq(Batches) /\ tip \in Blocks /\ missed = None /\ plan # <<>>
  BY <1>1 DEF TypeOK, Asked, Stages
<1> DEFINE T == Tail(plan)
<1>5. T \in Seq(Batches)
  BY <1>4, TailItems
<1>6. \A c \in Comps : block_queue[c] = <<>> /\ cur[c] = None
  BY <1>1, <1>17 DEF Stages, Joined
<1>7. TypeOK'
  BY <1>1, <1>5, <1>17 DEF TypeOK, Bootstrap
<1>8. Stages'
  BY <1>1, <1>6, <1>17 DEF Stages, Early, Feeds, ToSet
<1>9. Lasts'
  BY <1>1 DEF Lasts
<1>10. Tips' /\ Asked' /\ NoGap' /\ Steady'
  BY <1>1, <1>4 DEF Tips, Early, Asked, NoGap, Chain, Steady
<1>11. ASSUME NEW c \in Comps PROVE Threads(c)'
  <2>1. Threads(c)
    BY DEF WayInv
  <2>2. InOrder(block_queue[c], settled[c] \cup {cur[c]})' <=> InOrder(block_queue[c], settled[c] \cup {cur[c]})
    BY DEF InOrder, Below, Chain
  <2> QED BY <2>1, <2>2 DEF Threads, Below, Chain
<1>12. ASSUME NEW c \in Comps PROVE Ahead(c)' = Ahead(c)
  BY DEF Ahead, ToSet
<1>13. ASSUME NEW c \in Comps
       PROVE  (IF plan[1].to = c THEN ToSet(plan[1].blocks) ELSE {}) \subseteq Ahead(c)
  BY <1>3, <1>4, FirstBatch DEF Flow
<1>14. ASSUME NEW c \in Comps, NEW n \in 1..Len(T)
       PROVE  /\ n + 1 \in 1..Len(plan) /\ T[n] = plan[n + 1]
              /\ Ahead(c) \cup Brought(plan, c, (n + 1) - 1) \subseteq Ahead(c) \cup Brought(T, c, n - 1)
  BY <1>4, <1>13, FirstBatch
<1>15. ASSUME NEW c \in Comps
       PROVE  Ahead(c) \cup Brought(plan, c, Len(plan)) \subseteq Ahead(c) \cup Brought(T, c, Len(T))
  BY <1>4, <1>13, FirstBatch
<1>0. plan' = T
  BY <1>17
<1> HIDE DEF T
<1>16. ASSUME NEW c \in Comps PROVE Flow(c)'
  <2> DEFINE fed == Ahead(c) \cup Brought(plan, c, Len(plan))
             new == Ahead(c) \cup Brought(T, c, Len(T))
  <2>1. GoesOn(T, c, Ahead(c))
    <3> SUFFICES ASSUME NEW n \in 1..Len(T), T[n].to = c
                 PROVE  InOrder(T[n].blocks, Ahead(c) \cup Brought(T, c, n - 1))
      BY DEF GoesOn
    <3> DEFINE X == Ahead(c) \cup Brought(plan, c, (n + 1) - 1)
               Y == Ahead(c) \cup Brought(T, c, n - 1)
    <3>1. n + 1 \in 1..Len(plan) /\ T[n] = plan[n + 1] /\ X \subseteq Y
      BY <1>14
    <3>2. InOrder(T[n].blocks, X)
      BY <1>3, <3>1 DEF Flow, GoesOn
    <3> HIDE DEF X, Y
    <3>3. InOrder(T[n].blocks, Y)
      BY <3>1, <3>2, InOrderMore
    <3> QED BY <3>3 DEF Y
  <2>2. fed \subseteq new
    BY <1>15
  <2>3. /\ hand \in Blocks => Below(hand) \subseteq fed
        /\ InOrder(queue, fed \cup {hand})
        /\ status \in {"LISTENING", "ACTIVE"} =>
               Chain(tip) \ (IF tip \in last_tips THEN {} ELSE {tip}) \subseteq fed \cup {hand} \cup ToSet(queue)
    BY <1>3 DEF Flow
  <2> HIDE DEF fed, new
  <2>4. InOrder(queue, new \cup {hand})
    <3> DEFINE X == fed \cup {hand}
               Y == new \cup {hand}
    <3>1. X \cap Blocks \subseteq Y
      BY <2>2
    <3> HIDE DEF X, Y
    <3>2. InOrder(queue, X) => InOrder(queue, Y)
      BY <3>1, InOrderMore
    <3> QED BY <2>3, <3>2 DEF X, Y
  <2>5. /\ hand \in Blocks => Below(hand) \subseteq new
        /\ status \in {"LISTENING", "ACTIVE"} =>
               Chain(tip) \ (IF tip \in last_tips THEN {} ELSE {tip}) \subseteq new \cup {hand} \cup ToSet(queue)
    BY <2>2, <2>3
  <2>6. GoesOn(plan, c, Ahead(c))' <=> GoesOn(T, c, Ahead(c))
    <3>1. GoesOn(plan, c, Ahead(c))' <=> GoesOn(T, c, Ahead(c)')
      BY <1>0 DEF GoesOn, Brought, InOrder, Below, Chain
    <3>2. Ahead(c)' = Ahead(c)
      BY <1>12
    <3> QED BY <3>1, <3>2
  <2>7. Brought(plan, c, Len(plan))' = Brought(T, c, Len(T)) /\ Ahead(c)' \cup Brought(T, c, Len(T)) = new
    BY <1>0, <1>12 DEF Brought, new
  <2>8. InOrder(queue, (Ahead(c) \cup Brought(plan, c, Len(plan))) \cup {hand})' <=> InOrder(queue, new \cup {hand})
    <3> DEFINE B == Brought(T, c, Len(T))
    <3>1. InOrder(queue, (Ahead(c) \cup Brought(plan, c, Len(plan))) \cup {hand})' <=> InOrder(queue, (Ahead(c)' \cup B) \cup {hand})
      <4> HIDE DEF B
      <4>1. Brought(plan, c, Len(plan))' = B
        BY <2>7 DEF B
      <4> QED BY <4>1 DEF InOrder, Below, Chain
    <3> QED BY <2>7, <3>1
  <2>9. Chain(tip)' = Chain(tip) /\ ToSet(queue)' = ToSet(queue) /\ Below(hand)' = Below(hand)
    BY DEF Chain, ToSet, Below
  <2> QED BY <2>1, <2>4, <2>5, <2>6, <2>7, <2>8, <2>9 DEF Flow
<1>18. Leads'
  <2>1. Follows(T, Ahead("watcher"))
    <3> SUFFICES ASSUME NEW n \in 1..Len(T), T[n].to = "responder"
                 PROVE  ToSet(T[n].blocks) \subseteq Ahead("watcher") \cup Brought(T, "watcher", n - 1)
      BY DEF Follows
    <3>1. /\ n + 1 \in 1..Len(plan) /\ T[n] = plan[n + 1]
          /\ Ahead("watcher") \cup Brought(plan, "watcher", (n + 1) - 1) \subseteq Ahead("watcher") \cup Brought(T, "watcher", n - 1)
      BY <1>14 DEF Comps
    <3>2. ToSet(plan[n + 1].blocks) \subseteq Ahead("watcher") \cup Brought(plan, "watcher", (n + 1) - 1)
      BY <1>3, <3>1 DEF Leads, Follows
    <3> QED BY <3>1, <3>2
  <2>2. Follows(plan, Ahead("watcher"))' <=> Follows(T, Ahead("watcher"))
    BY <1>0, <1>12 DEF Follows, Brought, Comps
  <2>3. ToSet(block_queue["responder"])' = {} /\ cur'["responder"] = None
    BY <1>6, InOrderNone DEF Comps, ToSet
  <2> QED BY <2>1, <2>2, <2>3, NotBlocks DEF Leads
<1> QED BY <1>7, <1>8, <1>9, <1>10, <1>11, <1>16, <1>18 DEF WayInv

-----------------------------------------------------------------------------
(* The tip moves, and word of it.                                          *)

LEMMA NewTipWay ==
    ASSUME WayInv, NEW b \in Blocks, NewTip(b)
    PROVE  WayInv'
<1>1. TypeOK /\ Stages /\ Lasts /\ Tips /\ Asked /\ NoGap /\ Steady
  BY DEF WayInv
<1>2. /\ UNCHANGED <<main, bootVars, monitorVars, threadVars, serviceVars, diskVars, hist>>
      /\ tip' = b
  BY DEF NewTip
<1> USE <1>2 DEF bootVars, monitorVars, threadVars, serviceVars, diskVars, hist
<1>3. /\ main # "missed" /\ missed = None
      /\ main = "off" \/ (IsParent(tip, b) /\ (status \in {"LISTENING", "ACTIVE"} => tip \in last_tips))
  BY <1>1 DEF NewTip, Steady
<1>4. tip \in Blocks /\ plan \in Seq(Batches)
  BY <1>1 DEF TypeOK
<1>5. main # "off" => Chain(b) = Chain(tip) \cup {b} /\ Below(b) = Chain(tip) /\ b \notin Chain(tip)
  BY <1>3, <1>4, ChildChain
<1>6. TypeOK'
  BY <1>1 DEF TypeOK
<1>7. Stages'
  BY <1>1 DEF Stages, ToSet
<1>8. Lasts'
  BY <1>1 DEF Lasts
<1>9. Tips'
  <2>1. CASE main = "off"
    <3>1. last_tips = {} /\ queue = <<>>
      BY <1>1, <2>1 DEF Stages
    <3> QED BY <3>1, InOrderNone DEF Tips, ToSet
  <2>2. CASE main # "off"
    <3>1. Chain(tip)' = Chain(b) /\ Chain(tip) \subseteq Chain(b) /\ ToSet(queue)' = ToSet(queue)
      BY <1>5, <2>2 DEF Chain, ToSet
    <3> QED BY <1>1, <3>1 DEF Tips
  <2> QED BY <2>1, <2>2
<1>10. Asked' /\ NoGap' /\ Steady'
  BY <1>1, <1>3 DEF Asked, NoGap, Chain, Steady
<1>11. ASSUME NEW c \in Comps PROVE Threads(c)'
  <2>1. Threads(c)
    BY DEF WayInv
  <2>2. InOrder(block_queue[c], settled[c] \cup {cur[c]})' <=> InOrder(block_queue[c], settled[c] \cup {cur[c]})
    BY DEF InOrder, Below, Chain
  <2> QED BY <2>1, <2>2 DEF Threads, Below, Chain
<1>12. ASSUME main' \notin Early, NEW c \in Comps PROVE Flow(c)'
  <2>1. main # "off" /\ Flow(c)
    BY <1>12 DEF WayInv, Early
  <2> DEFINE fed == Ahead(c) \cup Brought(plan, c, Len(plan))
  <2>2. Ahead(c)' = Ahead(c) /\ Brought(plan, c, Len(plan))' = Brought(plan, c, Len(plan))
    BY DEF Ahead, ToSet, Brought
  <2>3. GoesOn(plan, c, Ahead(c))' <=> GoesOn(plan, c, Ahead(c))
    <3>1. GoesOn(plan, c, Ahead(c))' <=> GoesOn(plan, c, Ahead(c)')
      BY DEF GoesOn, Brought, InOrder, Below, Chain
    <3> QED BY <2>2, <3>1
  <2>4. InOrder(queue, fed \cup {hand})' <=> InOrder(queue, fed \cup {hand})
    <3>1. fed' = fed
      BY <2>2
    <3> HIDE DEF fed
    <3> QED BY <3>1 DEF InOrder, Below, Chain
  <2>5. Below(hand)' = Below(hand) /\ ToSet(queue)' = ToSet(queue) /\ Chain(tip)' = Chain(b)
    BY DEF Below, Chain, ToSet
  <2>6. status \in {"LISTENING", "ACTIVE"} =>
            Chain(b) \ (IF b \in last_tips THEN {} ELSE {b}) \subseteq fed \cup {hand} \cup ToSet(queue)
    <3> SUFFICES ASSUME status \in {"LISTENING", "ACTIVE"}
                 PROVE  Chain(b) \ (IF b \in last_tips THEN {} ELSE {b}) \subseteq fed \cup {hand} \cup ToSet(queue)
      OBVIOUS
    <3>1. tip \in last_tips /\ b \notin last_tips
      BY <1>1, <1>3, <1>5, <2>1 DEF Tips
    <3>2. Chain(tip) \subseteq fed \cup {hand} \cup ToSet(queue)
      BY <2>1, <3>1 DEF Flow
    <3> HIDE DEF fed
    <3> QED BY <1>5, <2>1, <3>1, <3>2
  <2>7. ToSet(Head(plan).blocks)' = ToSet(Head(plan).blocks)
    BY DEF ToSet
  <2> QED BY <2>1, <2>2, <2>3, <2>4, <2>5, <2>6, <2>7 DEF Flow
<1>13. ASSUME main' \notin Early PROVE Leads'
  <2>1. Leads /\ Ahead("watcher")' = Ahead("watcher")
    BY <1>13 DEF WayInv, Ahead, ToSet
  <2> QED BY <1>4, <2>1, LeadsKept
<1> QED BY <1>6, <1>7, <1>8, <1>9, <1>10, <1>11, <1>12, <1>13 DEF WayInv

(* A message is put in the queue of the monitor.                           *)
LEMMA PutWay ==
    ASSUME WayInv, Notice \/ PutEnd
    PROVE  WayInv'
<1>1. TypeOK /\ Stages /\ Lasts /\ Tips /\ Asked /\ NoGap /\ Steady
  BY DEF WayInv
<1>2. PICK m \in Messages :
        /\ UNCHANGED <<tip, bootVars, status, notifier, hand, threadVars, serviceVars, diskVars, hist>>
        /\ queue' = Append(queue, m)
        /\ \/ /\ Notice /\ m = tip /\ tip \notin last_tips /\ last_tips' = last_tips \cup {tip} /\ main' = main
              /\ status \in {"LISTENING", "ACTIVE"}
           \/ PutEnd /\ m = END /\ last_tips' = last_tips /\ main = "end" /\ main' = "join watcher"
  BY <1>1 DEF Notice, PutEnd, Messages, TypeOK, Steady
<1>3. /\ tip \in Blocks /\ plan \in Seq(Batches) /\ queue \in Seq(Messages) /\ m \in Messages
      /\ Chain(tip) \subseteq Blocks /\ tip \in Chain(tip)
  BY <1>1, PathIs DEF TypeOK, Messages
<1>4. /\ queue' \in Seq(Messages) /\ ToSet(queue)' = ToSet(queue) \cup {m}
      /\ ToSet(queue') = ToSet(queue) \cup {m}
  <2>1. queue' = Append(queue, m)
    BY <1>2
  <2>2. Append(queue, m) \in Seq(Messages) /\ ToSet(Append(queue, m)) = ToSet(queue) \cup {m}
    BY <1>3, AppendItems
  <2>3. ToSet(queue)' = ToSet(queue')
    BY DEF ToSet
  <2> QED BY <2>1, <2>2, <2>3
<1>5. /\ UNCHANGED <<tip, bootVars, status, notifier, hand, threadVars, serviceVars, diskVars, hist>>
  BY <1>2
<1> USE <1>5 DEF bootVars, threadVars, serviceVars, diskVars, hist
<1>6. TypeOK'
  <2>1. main' \in Bootstrap \cup Teardown \cup {"off", "services", "serving"} /\ last_tips' \subseteq Blocks
    BY <1>1, <1>2, <1>3 DEF TypeOK, Teardown
  <2>2. queue' \in Seq(Blocks \cup {END})
    BY <1>4 DEF Messages
  <2> QED BY <1>1, <2>1, <2>2 DEF TypeOK
<1>14. \/ main' = main /\ status \in {"LISTENING", "ACTIVE"}
       \/ main = "end" /\ main' = "join watcher"
  BY <1>2
<1>7. Stages'
  BY <1>1, <1>14 DEF Stages, Early, Feeds, ToSet
<1>8. Lasts'
  BY <1>1, <1>14 DEF Lasts
<1>9. Tips'
  <2>1. last_tips' \subseteq Chain(tip)
    BY <1>1, <1>2, <1>3 DEF Tips
  <2>2. main' \in Early => ToSet(queue') \subseteq Chain(tip)
    BY <1>1, <1>2, <1>3, <1>4 DEF Tips, Early
  <2> QED BY <2>1, <2>2 DEF Tips, Chain, ToSet
<1>10. Asked' /\ NoGap' /\ Steady'
  <2>1. Asked'
    <3>1. CASE main' = main
      BY <1>1, <3>1 DEF Asked, CommonWith, Asking
    <3>2. CASE main = "end" /\ main' = "join watcher"
      BY <1>1, <3>2 DEF Asked
    <3> QED BY <1>2, <3>1, <3>2
  <2> QED BY <1>1, <2>1 DEF NoGap, Chain, Steady
<1>11. ASSUME NEW c \in Comps PROVE Threads(c)'
  <2>1. Threads(c)
    BY DEF WayInv
  <2>2. InOrder(block_queue[c], settled[c] \cup {cur[c]})' <=> InOrder(block_queue[c], settled[c] \cup {cur[c]})
    BY DEF InOrder, Below, Chain
  <2> QED BY <2>1, <2>2 DEF Threads, Below, Chain
<1>12. ASSUME main' \notin Early, NEW c \in Comps PROVE Flow(c)'
  <2>1. Flow(c)
    BY <1>2, <1>12 DEF WayInv, Early
  <2> DEFINE fed == Ahead(c) \cup Brought(plan, c, Len(plan))
             S == fed \cup {hand}
  <2>2. Ahead(c)' = Ahead(c) /\ Brought(plan, c, Len(plan))' = Brought(plan, c, Len(plan))
    BY DEF Ahead, ToSet, Brought
  <2>3. GoesOn(plan, c, Ahead(c))' <=> GoesOn(plan, c, Ahead(c))
    <3>1. GoesOn(plan, c, Ahead(c))' <=> GoesOn(plan, c, Ahead(c)')
      BY DEF GoesOn, Brought, InOrder, Below, Chain
    <3> QED BY <2>2, <3>1
  <2>4. InOrder(Append(queue, m), S)
    <3>1. InOrder(queue, S)
      BY <2>1 DEF Flow
    <3>2. m \in Blocks => Below(m) \subseteq S \cup ToSet(queue)
      <4> SUFFICES ASSUME m \in Blocks PROVE Below(m) \subseteq S \cup ToSet(queue)
        OBVIOUS
      <4>1. m = tip /\ tip \notin last_tips /\ status \in {"LISTENING", "ACTIVE"}
        BY <1>2, NotBlocks
      <4>2. Chain(tip) \ {tip} \subseteq S \cup ToSet(queue)
        BY <2>1, <4>1 DEF Flow
      <4> QED BY <4>1, <4>2 DEF Below
    <3> HIDE DEF S
    <3> QED BY <1>3, <3>1, <3>2, InOrderAppend
  <2>5. InOrder(queue, fed \cup {hand})' <=> InOrder(Append(queue, m), S)
    <3>1. fed' = fed /\ queue' = Append(queue, m)
      BY <1>2, <2>2
    <3> HIDE DEF fed
    <3> QED BY <3>1 DEF InOrder, Below, Chain
  <2>6. Below(hand)' = Below(hand) /\ Chain(tip)' = Chain(tip)
    BY DEF Below, Chain
  <2>7. status \in {"LISTENING", "ACTIVE"} =>
            Chain(tip) \ (IF tip \in last_tips' THEN {} ELSE {tip}) \subseteq S \cup ToSet(queue')
    <3> SUFFICES ASSUME status \in {"LISTENING", "ACTIVE"}
                 PROVE  Chain(tip) \ (IF tip \in last_tips' THEN {} ELSE {tip}) \subseteq S \cup ToSet(queue')
      OBVIOUS
    <3>1. Chain(tip) \ (IF tip \in last_tips THEN {} ELSE {tip}) \subseteq S \cup ToSet(queue)
      BY <2>1 DEF Flow
    <3>2. CASE m = tip
      <4> HIDE DEF S
      <4> QED BY <1>4, <3>1, <3>2
    <3>3. CASE last_tips' = last_tips
      <4> HIDE DEF S
      <4> QED BY <1>4, <3>1, <3>3
    <3> QED BY <1>2, <3>2, <3>3
  <2>8. ToSet(Head(plan).blocks)' = ToSet(Head(plan).blocks) /\ ToSet(queue)' = ToSet(queue') /\ (main' = "join" => main = "join")
    BY <1>2 DEF ToSet
  <2> QED BY <2>1, <2>2, <2>3, <2>4, <2>5, <2>6, <2>7, <2>8 DEF Flow
<1>13. ASSUME main' \notin Early PROVE Leads'
  <2>1. Leads /\ Ahead("watcher")' = Ahead("watcher") /\ (main' \in Feeds => main \in Feeds)
    BY <1>2, <1>13 DEF WayInv, Ahead, ToSet, Early, Feeds
  <2> QED BY <1>3, <2>1, LeadsKept
<1> QED BY <1>6, <1>7, <1>8, <1>9, <1>10, <1>11, <1>12, <1>13 DEF WayInv

LEMMA NotifierGetWay ==
    ASSUME WayInv, NotifierGet
    PROVE  WayInv'
<1>1. TypeOK /\ Stages /\ Lasts /\ Tips /\ Asked /\ NoGap /\ Steady
  BY DEF WayInv
<1>2. UNCHANGED <<tip, main, bootVars, status, last_tips, threadVars, serviceVars, diskVars, hist>>
  BY DEF NotifierGet
<1> USE <1>2 DEF bootVars, threadVars, serviceVars, diskVars, hist
<1>3. /\ notifier = "get" /\ queue # <<>> /\ notifier' = "send" /\ queue' = Tail(queue) /\ hand' = Head(queue)
      /\ main \notin Early \cup Feeds /\ hand = None /\ plan = <<>>
  BY <1>1 DEF NotifierGet, Stages
<1>4. queue \in Seq(Messages)
  BY <1>1 DEF TypeOK, Messages
<1>5. PICK m \in Messages, r \in Seq(Messages) :
         hand' = m /\ queue' = r /\ ToSet(queue) = {m} \cup ToSet(r) /\ m = Head(queue) /\ r = Tail(queue)
  BY <1>3, <1>4, TailItems
<1>6. TypeOK'
  <2>1. hand' \in Blocks \cup {END, None} /\ queue' \in Seq(Blocks \cup {END})
    BY <1>5 DEF Messages
  <2> QED BY <1>1, <1>3, <2>1 DEF TypeOK
<1>7. Stages'
  <2>1. hand' # None /\ main \notin {"off", "listen"}
    BY <1>3, <1>5, NotBlocks DEF Messages, Early
  <2> QED BY <1>1, <1>3, <2>1 DEF Stages, ToSet, Early
<1>8. Lasts'
  BY <1>1 DEF Lasts
<1>9. Tips' /\ Asked' /\ NoGap' /\ Steady'
  BY <1>1, <1>3 DEF Tips, Early, Asked, NoGap, Chain, Steady
<1>10. ASSUME NEW c \in Comps PROVE Threads(c)'
  <2>1. Threads(c)
    BY DEF WayInv
  <2>2. InOrder(block_queue[c], settled[c] \cup {cur[c]})' <=> InOrder(block_queue[c], settled[c] \cup {cur[c]})
    BY DEF InOrder, Below, Chain
  <2> QED BY <2>1, <2>2 DEF Threads, Below, Chain
<1>11. ASSUME NEW c \in Comps PROVE Flow(c)'
  <2>1. Flow(c) /\ tip \in Blocks
    BY <1>1, <1>3 DEF WayInv, TypeOK
  <2> DEFINE fed == Ahead(c) \cup Brought(plan, c, Len(plan))
  <2>2. Ahead(c)' = Ahead(c) /\ Brought(plan, c, Len(plan))' = Brought(plan, c, Len(plan))
    BY DEF Ahead, ToSet, Brought
  <2>3. GoesOn(plan, c, Ahead(c))' <=> GoesOn(plan, c, Ahead(c))
    <3>1. GoesOn(plan, c, Ahead(c))' <=> GoesOn(plan, c, Ahead(c)')
      BY DEF GoesOn, Brought, InOrder, Below, Chain
    <3> QED BY <2>2, <3>1
  <2>4. /\ InOrder(queue, fed \cup {None})
        /\ status \in {"LISTENING", "ACTIVE"} =>
               Chain(tip) \ (IF tip \in last_tips THEN {} ELSE {tip}) \subseteq fed \cup {None} \cup ToSet(queue)
        /\ GoesOn(plan, c, Ahead(c))
    BY <1>3, <2>1 DEF Flow
  <2>5. (m \in Blocks => Below(m) \subseteq fed) /\ InOrder(r, fed \cup {m})
    <3> DEFINE S == fed \cup {None}
               X == S \cup {m}
               Y == fed \cup {m}
    <3> HIDE DEF S
    <3>1. (Head(queue) \in Blocks => Below(Head(queue)) \subseteq S) /\ InOrder(Tail(queue), S \cup {Head(queue)})
      BY <1>3, <1>4, <2>4, InOrderTail DEF S
    <3>2. (m \in Blocks => Below(m) \subseteq S) /\ InOrder(r, X)
      BY <1>5, <3>1
    <3>3. X \cap Blocks \subseteq Y
      BY NotBlocks DEF S
    <3> HIDE DEF X, Y, fed
    <3>4. InOrder(r, Y)
      BY <3>2, <3>3, InOrderMore
    <3>5. m \in Blocks => Below(m) \subseteq fed
      BY <3>2, BelowIsBlocks, NotBlocks DEF S
    <3> QED BY <3>4, <3>5 DEF Y
  <2>6. InOrder(queue, fed \cup {hand})' <=> InOrder(r, fed \cup {m})
    <3>1. fed' = fed
      BY <2>2
    <3> HIDE DEF fed
    <3> QED BY <1>5, <3>1 DEF InOrder, Below, Chain
  <2>7. Below(hand)' = Below(m) /\ Chain(tip)' = Chain(tip)
    BY <1>5 DEF Below, Chain
  <2>8. ToSet(queue)' = ToSet(r)
    BY <1>5 DEF ToSet
  <2>9. status \in {"LISTENING", "ACTIVE"} =>
            Chain(tip) \ (IF tip \in last_tips THEN {} ELSE {tip}) \subseteq fed \cup {m} \cup ToSet(r)
    <3>1. Chain(tip) \subseteq Blocks
      BY <2>1, PathIs
    <3> HIDE DEF fed
    <3> QED BY <1>5, <2>4, <3>1, NotBlocks
  <2>10. main' # "join"
    BY <1>3 DEF Feeds
  <2> QED BY <1>5, <2>2, <2>3, <2>4, <2>5, <2>6, <2>7, <2>8, <2>9, <2>10 DEF Flow
<1>12. Leads'
  <2>1. Leads /\ Ahead("watcher")' = Ahead("watcher") /\ plan \in Seq(Batches)
    BY <1>1, <1>3 DEF WayInv, Ahead, ToSet, TypeOK
  <2> QED BY <1>3, <2>1, LeadsKept
<1> QED BY <1>6, <1>7, <1>8, <1>9, <1>10, <1>11, <1>12 DEF WayInv

LEMMA NotifierSendWay ==
    ASSUME WayInv, NotifierSend
    PROVE  WayInv'
<1>1. TypeOK /\ Stages /\ Lasts /\ Tips /\ Asked /\ NoGap /\ Steady
  BY DEF WayInv
<1>2. UNCHANGED <<tip, main, bootVars, status, last_tips, queue, at, cur, serviceVars, diskVars, hist>>
  BY DEF NotifierSend
<1> USE <1>2 DEF bootVars, serviceVars, diskVars, hist
<1>3. /\ notifier = "send" /\ hand' = None /\ notifier' = IF status = "TERMINATED" THEN "stopped" ELSE "get"
      /\ block_queue' = [c \in Comps |-> Append(block_queue[c], hand)]
      /\ expiry' = IF hand = END THEN "last" ELSE expiry
      /\ main \notin Early \cup Feeds /\ hand # None /\ plan = <<>>
  BY <1>1 DEF NotifierSend, Stages
<1>4. PICK m \in Messages : hand = m
  BY <1>1, <1>3 DEF TypeOK, Messages
<1>5. ASSUME NEW c \in Comps
      PROVE  /\ block_queue[c] \in Seq(Messages) /\ block_queue'[c] = Append(block_queue[c], m)
             /\ block_queue'[c] \in Seq(Messages) /\ ToSet(block_queue'[c]) = ToSet(block_queue[c]) \cup {m}
  <2>1. block_queue[c] \in Seq(Messages) /\ block_queue'[c] = Append(block_queue[c], m)
    BY <1>1, <1>3, <1>4 DEF TypeOK, Messages
  <2> QED BY <2>1, AppendItems
<1>6. TypeOK'
  <2>1. block_queue' \in [Comps -> Seq(Blocks \cup {END})]
    BY <1>3, <1>5 DEF Messages
  <2>2. expiry' \in {"none", "running", "last", "ended"} /\ notifier' \in {"none", "get", "send", "stopped"} /\ hand' = None
    BY <1>1, <1>3 DEF TypeOK
  <2> QED BY <1>1, <2>1, <2>2 DEF TypeOK
<1>7. Stages'
  BY <1>1, <1>3 DEF Stages, ToSet, Early, Feeds
<1>8. Lasts'
  BY <1>1 DEF Lasts
<1>9. Tips' /\ Asked' /\ NoGap' /\ Steady'
  BY <1>1, <1>3 DEF Tips, Early, Asked, NoGap, Chain, Steady
<1>10. ASSUME NEW c \in Comps
       PROVE  /\ Flow(c) /\ Threads(c) /\ tip \in Blocks
              /\ Ahead(c)' = Ahead(c) \cup {m} /\ Brought(plan, c, Len(plan)) = {} /\ Brought(plan, c, Len(plan))' = {}
  <2>1. Ahead(c)' = settled[c] \cup {cur[c]} \cup ToSet(block_queue'[c])
    BY DEF Ahead, ToSet
  <2>2. Brought(plan, c, Len(plan)) = {}
    BY <1>3, EmptyPlan
  <2>3. Brought(plan, c, Len(plan))' = Brought(plan, c, Len(plan))
    BY DEF Brought
  <2>4. Ahead(c)' = Ahead(c) \cup {m}
    BY <1>5, <2>1 DEF Ahead
  <2> QED BY <1>1, <1>3, <2>2, <2>3, <2>4 DEF WayInv, TypeOK
<1>11. ASSUME NEW c \in Comps PROVE Threads(c)'
  <2> DEFINE S == settled[c] \cup {cur[c]}
  <2>1. InOrder(block_queue[c], S) /\ (m \in Blocks => Below(m) \subseteq S \cup ToSet(block_queue[c]))
    BY <1>4, <1>10 DEF Flow, Threads, Ahead
  <2>2. InOrder(block_queue'[c], S)
    <3> HIDE DEF S
    <3>1. InOrder(Append(block_queue[c], m), S)
      BY <1>5, <2>1, InOrderAppend
    <3> QED BY <1>5, <3>1
  <2>3. InOrder(block_queue[c], S)' <=> InOrder(block_queue'[c], S)
    BY DEF InOrder, Below, Chain
  <2> QED BY <1>10, <2>2, <2>3 DEF Threads, Below, Chain
<1>12. ASSUME NEW c \in Comps PROVE Flow(c)'
  <2> DEFINE fed == Ahead(c)
             S == Ahead(c) \cup {m}
  <2>1. /\ InOrder(queue, fed \cup {m})
        /\ status \in {"LISTENING", "ACTIVE"} =>
               Chain(tip) \ (IF tip \in last_tips THEN {} ELSE {tip}) \subseteq fed \cup {m} \cup ToSet(queue)
    <3>1. fed \cup Brought(plan, c, Len(plan)) = fed
      BY <1>10
    <3> QED BY <1>4, <1>10, <3>1 DEF Flow
  <2>2. GoesOn(plan, c, Ahead(c))'
    <3>1. GoesOn(plan, c, Ahead(c)')
      BY <1>3, EmptyPlan
    <3>2. GoesOn(plan, c, Ahead(c))' <=> GoesOn(plan, c, Ahead(c)')
      BY DEF GoesOn, Brought, InOrder, Below, Chain
    <3> QED BY <3>1, <3>2
  <2>3. InOrder(queue, S \cup {None})
    <3> DEFINE T == S \cup {None}
    <3>1. S \cap Blocks \subseteq T
      OBVIOUS
    <3> HIDE DEF S, T
    <3>2. InOrder(queue, S) => InOrder(queue, T)
      BY <3>1, InOrderMore
    <3> QED BY <2>1, <3>2 DEF S, T
  <2>4. InOrder(queue, (Ahead(c) \cup Brought(plan, c, Len(plan))) \cup {hand})' <=> InOrder(queue, S \cup {None})
    <3>1. (Ahead(c)' \cup Brought(plan, c, Len(plan))') \cup {hand'} = S \cup {None}
      BY <1>3, <1>10
    <3> DEFINE U == (Ahead(c) \cup Brought(plan, c, Len(plan))) \cup {hand}
               V == S \cup {None}
    <3>2. U' = V
      BY <3>1
    <3> HIDE DEF S, U, V
    <3>3. InOrder(queue, U)' <=> InOrder(queue, V)
      BY <3>2 DEF InOrder, Below, Chain
    <3> QED BY <3>3 DEF U, V
  <2>5. Chain(tip)' = Chain(tip) /\ ToSet(queue)' = ToSet(queue)
    BY DEF Chain, ToSet
  <2>6. main' # "join"
    BY <1>3 DEF Feeds
  <2>7. status \in {"LISTENING", "ACTIVE"} =>
            Chain(tip) \ (IF tip \in last_tips THEN {} ELSE {tip})
                \subseteq (Ahead(c)' \cup Brought(plan, c, Len(plan))') \cup {hand'} \cup ToSet(queue)
    BY <1>10, <2>1
  <2> QED BY <1>3, <2>2, <2>3, <2>4, <2>5, <2>6, <2>7, NotBlocks DEF Flow
<1>13. Leads'
  <2>1. Leads /\ Ahead("watcher") \subseteq Ahead("watcher")' /\ plan \in Seq(Batches)
    BY <1>1, <1>3, <1>10 DEF WayInv, TypeOK, Comps
  <2> QED BY <1>3, <2>1, LeadsKept
<1> QED BY <1>6, <1>7, <1>8, <1>9, <1>11, <1>12, <1>13 DEF WayInv

-----------------------------------------------------------------------------
(* The threads.                                                            *)

LEMMA ThreadKept ==
    ASSUME WayInv, TypeOK', Stages', Lasts', Asked', NoGap', \A d \in Comps : Threads(d)',
           UNCHANGED <<tip, main, plan, monitorVars>>,
           \A d \in Comps : Ahead(d) \cap Blocks \subseteq Ahead(d)' /\ settled[d] \subseteq settled'[d],
           main \in Feeds =>
               (ToSet(block_queue'["responder"]) \cup {cur'["responder"]}) \cap Blocks
                   \subseteq ToSet(block_queue["responder"]) \cup {cur["responder"]}
    PROVE  WayInv'
<1> USE DEF monitorVars
<1>1. TypeOK /\ Tips /\ Steady
  BY DEF WayInv
<1>2. plan \in Seq(Batches) /\ tip \in Blocks
  BY <1>1 DEF TypeOK
<1>3. Tips' /\ Steady'
  <2>1. Chain(tip)' = Chain(tip) /\ ToSet(queue)' = ToSet(queue)
    BY DEF Chain, ToSet
  <2>2. Tips'
    BY <1>1, <2>1 DEF Tips
  <2> QED BY <1>1, <2>2 DEF Steady
<1>4. ASSUME main \notin Early, NEW d \in Comps PROVE Flow(d)'
  <2>1. Flow(d)
    BY <1>4 DEF WayInv
  <2>2. main' = "join" /\ Head(plan).to = d => ToSet(Head(plan).blocks) \subseteq Ahead(d)'
    <3> SUFFICES ASSUME main = "join", Head(plan).to = d PROVE ToSet(Head(plan).blocks) \subseteq Ahead(d)'
      OBVIOUS
    <3>1. plan # <<>>
      BY DEF WayInv, Stages
    <3>2. Head(plan) = plan[1] /\ 1 \in 1..Len(plan)
      BY <1>2, <3>1, FirstBatch
    <3>3. ToSet(Head(plan).blocks) \subseteq Blocks
      BY <1>2, <3>2, PlanTyped
    <3> QED BY <2>1, <3>3 DEF Flow
  <2> QED BY <1>2, <2>1, <2>2, FlowKept
<1>5. main \notin Early => Leads'
  <2>1. main \notin Early => Leads
    BY DEF WayInv
  <2> QED BY <1>2, <2>1, LeadsKept DEF Comps
<1> QED BY <1>3, <1>4, <1>5 DEF WayInv

LEMMA BeginWay ==
    ASSUME WayInv, NEW c \in Comps, Begin(c)
    PROVE  WayInv'
<1>1. TypeOK /\ Stages /\ Lasts /\ Tips /\ Asked /\ NoGap /\ Steady
  BY DEF WayInv
<1>2. UNCHANGED <<tip, main, bootVars, monitorVars, block_queue, cur, expiry, serviceVars, open, held, starts>>
  BY DEF Begin
<1> USE <1>2 DEF bootVars, monitorVars, serviceVars
<1>3. /\ at[c] = "start" /\ at' = [at EXCEPT ![c] = "get"]
      /\ IF last[c] = None
         THEN last' = [last EXCEPT ![c] = tip] /\ settled' = [settled EXCEPT ![c] = @ \cup Chain(tip)]
         ELSE last' = last /\ settled' = settled
  BY DEF Begin
<1>4. tip \in Blocks /\ Chain(tip) \subseteq Blocks
  BY <1>1, PathIs DEF TypeOK
<1>5. /\ settled \in [Comps -> SUBSET Blocks] /\ last \in [Comps -> Blocks \cup {None}]
      /\ at \in [Comps -> {"none", "start", "get", "work", "store", "ended"}]
  BY <1>1 DEF TypeOK
<1>6. /\ settled' \in [Comps -> SUBSET Blocks] /\ last' \in [Comps -> Blocks \cup {None}]
      /\ at' \in [Comps -> {"none", "start", "get", "work", "store", "ended"}]
      /\ last'[c] # None /\ at'[c] = "get"
      /\ \A d \in Comps : /\ settled[d] \subseteq settled'[d] /\ (last[d] # None => last'[d] = last[d])
                          /\ last'[d] = last[d] \/ Chain(last'[d]) \subseteq settled'[d]
                          /\ d # c => at'[d] = at[d] /\ last'[d] = last[d]
  <2>1. CASE last[c] = None
    BY <1>3, <1>4, <1>5, <2>1, NotBlocks
  <2>2. CASE last[c] # None
    BY <1>3, <1>5, <2>2
  <2> QED BY <2>1, <2>2
<1>7. TypeOK'
  BY <1>1, <1>6 DEF TypeOK
<1>8. Stages'
  <2>1. \A d \in Comps : at'[d] = at[d] \/ (d = c /\ at[d] = "start" /\ at'[d] = "get")
    BY <1>3, <1>6
  <2> QED BY <1>1, <2>1 DEF Stages, ToSet
<1>9. Lasts'
  <2>1. \A d \in Comps : at'[d] = at[d] \/ (d = c /\ at[d] = "start" /\ at'[d] = "get" /\ last'[d] # None)
    BY <1>3, <1>6
  <2>2. \A d \in Comps : last[d] # None => last'[d] # None
    BY <1>6
  <2> QED BY <1>1, <2>1, <2>2 DEF Lasts
<1>10. Asked'
  <2>1. main \in {"ancestor", "missed"} => last' = last
    BY <1>1, <1>3 DEF Lasts
  <2> QED BY <1>1, <2>1 DEF Asked, CommonWith, Asking
<1>11. NoGap'
  BY <1>1, <1>6 DEF NoGap, Chain
<1>12. ASSUME NEW d \in Comps PROVE Threads(d)'
  <2>1. Threads(d)
    BY DEF WayInv
  <2> DEFINE S == settled[d] \cup {cur[d]}
             T == settled'[d] \cup {cur[d]}
  <2>2. S \cap Blocks \subseteq T
    BY <1>6
  <2>3. InOrder(block_queue[d], S)
    BY <2>1 DEF Threads
  <2> HIDE DEF S, T
  <2>4. InOrder(block_queue[d], T)
    BY <2>2, <2>3, InOrderMore
  <2>5. InOrder(block_queue[d], settled[d] \cup {cur[d]})' <=> InOrder(block_queue[d], T)
    BY DEF InOrder, Below, Chain, T
  <2>6. at'[d] \in {"work", "store"} => at'[d] = at[d]
    BY <1>6
  <2> QED BY <1>6, <2>1, <2>4, <2>5, <2>6 DEF Threads, Below, Chain
<1>13. \A d \in Comps : Ahead(d) \cap Blocks \subseteq Ahead(d)' /\ settled[d] \subseteq settled'[d]
  BY <1>6 DEF Ahead, ToSet
<1> QED BY <1>7, <1>8, <1>9, <1>10, <1>11, <1>12, <1>13, ThreadKept

LEMMA GetWay ==
    ASSUME WayInv, NEW c \in Comps, Get(c)
    PROVE  WayInv'
<1>1. TypeOK /\ Stages /\ Lasts /\ Tips /\ Asked /\ NoGap /\ Steady
  BY DEF WayInv
<1>2. UNCHANGED <<tip, main, bootVars, monitorVars, expiry, serviceVars, diskVars, hist>>
  BY DEF Get
<1> USE <1>2 DEF bootVars, monitorVars, serviceVars, diskVars, hist
<1>3. /\ block_queue \in [Comps -> Seq(Messages)] /\ cur \in [Comps -> Blocks \cup {None}]
      /\ at \in [Comps -> {"none", "start", "get", "work", "store", "ended"}]
  BY <1>1 DEF TypeOK, Messages
<1>4. PICK m \in Messages, r \in Seq(Messages) :
         m = Head(block_queue[c]) /\ r = Tail(block_queue[c]) /\ ToSet(block_queue[c]) = {m} \cup ToSet(r)
  <2>1. block_queue[c] \in Seq(Messages) /\ block_queue[c] # <<>>
    BY <1>3 DEF Get
  <2>2. /\ Head(block_queue[c]) \in Messages /\ Tail(block_queue[c]) \in Seq(Messages)
        /\ ToSet(block_queue[c]) = {Head(block_queue[c])} \cup ToSet(Tail(block_queue[c]))
    BY <2>1, TailItems
  <2> QED BY <2>2
<1>5. at[c] = "get" /\ block_queue[c] # <<>> /\ cur[c] = None
  BY <1>1 DEF Get, Stages
<1>6. /\ block_queue' = [block_queue EXCEPT ![c] = r]
      /\ \/ m = END /\ at' = [at EXCEPT ![c] = "ended"] /\ cur' = cur
         \/ m \in Blocks /\ at' = [at EXCEPT ![c] = "work"] /\ cur' = [cur EXCEPT ![c] = m]
  BY <1>3, <1>4 DEF Get, Messages
<1>7. /\ block_queue' \in [Comps -> Seq(Messages)] /\ cur' \in [Comps -> Blocks \cup {None}]
      /\ at' \in [Comps -> {"none", "start", "get", "work", "store", "ended"}]
      /\ block_queue'[c] = r
      /\ \A d \in Comps : d # c => block_queue'[d] = block_queue[d] /\ cur'[d] = cur[d] /\ at'[d] = at[d]
      /\ \/ m = END /\ at'[c] = "ended" /\ cur'[c] = None
         \/ m \in Blocks /\ at'[c] = "work" /\ cur'[c] = m
  BY <1>3, <1>5, <1>6
<1>8. TypeOK'
  BY <1>1, <1>7 DEF TypeOK, Messages
<1>9. main \notin Early \cup {"feed"} /\ (main = "join" => c = Head(plan).to /\ m # END /\ END \notin ToSet(r))
  <2>1. main = "join" => END \notin ToSet(block_queue[c])
    BY <1>1 DEF Stages
  <2> QED BY <1>1, <1>4, <1>5, <2>1 DEF Stages
<1>10. Stages'
  <2>1. \A d \in Comps : ToSet(block_queue[d])' = ToSet(block_queue'[d])
    BY DEF ToSet
  <2>2. \A d \in Comps : cur'[d] # None <=> at'[d] \in {"work", "store"}
    <3>1. \A d \in Comps : cur[d] # None <=> at[d] \in {"work", "store"}
      BY <1>1 DEF Stages
    <3> QED BY <1>7, <3>1, NotBlocks
  <2>3. main \in Early \cup Feeds => \A d \in Comps : at'[d] # "ended"
    <3>1. main \in Early \cup Feeds => \A d \in Comps : at[d] # "ended"
      BY <1>1 DEF Stages
    <3> QED BY <1>7, <1>9, <3>1 DEF Feeds
  <2>4. main = "join" => \A d \in Comps : /\ d = Head(plan).to \/ (block_queue'[d] = <<>> /\ cur'[d] = None)
                                          /\ END \notin ToSet(block_queue'[d])
    <3>1. main = "join" => \A d \in Comps : /\ d = Head(plan).to \/ (block_queue[d] = <<>> /\ cur[d] = None)
                                            /\ END \notin ToSet(block_queue[d])
      BY <1>1 DEF Stages
    <3> QED BY <1>7, <1>9, <3>1
  <2> QED BY <1>1, <1>9, <2>1, <2>2, <2>3, <2>4 DEF Stages, ToSet
<1>11. Lasts'
  <2>1. last[c] # None
    BY <1>1, <1>5 DEF Lasts
  <2>2. \A d \in Comps : at'[d] = at[d] \/ (d = c /\ at'[d] # "none")
    BY <1>7
  <2> QED BY <1>1, <2>1, <2>2 DEF Lasts
<1>12. Asked' /\ NoGap'
  BY <1>1, <1>9 DEF Asked, Early, NoGap, Chain
<1>13. ASSUME NEW d \in Comps PROVE Threads(d)'
  <2>1. Threads(d)
    BY DEF WayInv
  <2>2. CASE d # c
    <3>1. block_queue'[d] = block_queue[d] /\ cur'[d] = cur[d] /\ at'[d] = at[d]
      BY <1>7, <2>2
    <3>2. InOrder(block_queue[d], settled[d] \cup {cur[d]})' <=> InOrder(block_queue[d], settled[d] \cup {cur[d]})
      BY <3>1 DEF InOrder, Below, Chain
    <3> QED BY <2>1, <3>1, <3>2 DEF Threads, Below, Chain
  <2>3. CASE d = c
    <3> DEFINE S == settled[c] \cup {None}
               X == S \cup {m}
               Y == settled[c] \cup {cur'[c]}
    <3>1. InOrder(block_queue[c], S)
      BY <1>5, <2>1, <2>3 DEF Threads
    <3> HIDE DEF S
    <3>2. (m \in Blocks => Below(m) \subseteq S) /\ InOrder(r, X)
      BY <1>3, <1>4, <1>5, <3>1, InOrderTail
    <3>3. X \cap Blocks \subseteq Y
      BY <1>7, NotBlocks DEF S
    <3> HIDE DEF X, Y
    <3>4. InOrder(r, Y)
      BY <3>2, <3>3, InOrderMore
    <3>5. InOrder(block_queue[c], settled[c] \cup {cur[c]})' <=> InOrder(r, Y)
      <4>1. block_queue'[c] = r
        BY <1>7
      <4> QED BY <4>1 DEF InOrder, Below, Chain, Y
    <3>6. at'[c] = "work" => Below(cur'[c]) \subseteq settled[c]
      <4>1. at'[c] = "work" => m \in Blocks /\ cur'[c] = m
        BY <1>7
      <4> QED BY <3>2, <4>1, BelowIsBlocks, NotBlocks DEF S
    <3>7. at'[c] # "store"
      BY <1>7
    <3>8. Below(cur[c])' = Below(cur'[c])
      BY DEF Below, Chain
    <3> QED BY <2>3, <3>4, <3>5, <3>6, <3>7, <3>8 DEF Threads
  <2> QED BY <2>2, <2>3
<1>14. \A d \in Comps : Ahead(d) \cap Blocks \subseteq Ahead(d)' /\ settled[d] \subseteq settled'[d]
  <2> SUFFICES ASSUME NEW d \in Comps PROVE Ahead(d) \cap Blocks \subseteq Ahead(d)'
    OBVIOUS
  <2>1. Ahead(d)' = settled[d] \cup {cur'[d]} \cup ToSet(block_queue'[d])
    BY DEF Ahead, ToSet
  <2>2. CASE d # c
    BY <1>7, <2>1, <2>2 DEF Ahead
  <2>3. CASE d = c
    BY <1>4, <1>5, <1>7, <2>1, <2>3, NotBlocks DEF Ahead
  <2> QED BY <2>2, <2>3
<1>15. (ToSet(block_queue'["responder"]) \cup {cur'["responder"]}) \cap Blocks
           \subseteq ToSet(block_queue["responder"]) \cup {cur["responder"]}
  <2>1. CASE c = "responder"
    BY <1>4, <1>7, <2>1, NotBlocks
  <2>2. CASE c # "responder"
    BY <1>7, <2>2 DEF Comps
  <2> QED BY <2>1, <2>2
<1> QED BY <1>8, <1>10, <1>11, <1>12, <1>13, <1>14, <1>15, ThreadKept

LEMMA ProcessWay ==
    ASSUME WayInv, NEW c \in Comps, Process(c)
    PROVE  WayInv'
<1>1. TypeOK /\ Stages /\ Lasts /\ Tips /\ Asked /\ NoGap /\ Steady
  BY DEF WayInv
<1>2. UNCHANGED <<tip, main, bootVars, monitorVars, block_queue, cur, expiry, serviceVars, diskVars, starts>>
  BY DEF Process
<1> USE <1>2 DEF bootVars, monitorVars, serviceVars, diskVars
<1>3. /\ settled \in [Comps -> SUBSET Blocks] /\ cur \in [Comps -> Blocks \cup {None}]
      /\ at \in [Comps -> {"none", "start", "get", "work", "store", "ended"}]
      /\ at[c] = "work" /\ cur[c] \in Blocks
  BY <1>1 DEF Process, TypeOK, Stages
<1>4. /\ settled' \in [Comps -> SUBSET Blocks]
      /\ at' \in [Comps -> {"none", "start", "get", "work", "store", "ended"}]
      /\ at'[c] = "store" /\ settled'[c] = settled[c] \cup {cur[c]}
      /\ \A d \in Comps : d # c => settled'[d] = settled[d] /\ at'[d] = at[d]
      /\ \A d \in Comps : settled[d] \subseteq settled'[d]
  BY <1>3 DEF Process
<1>5. TypeOK'
  BY <1>1, <1>4 DEF TypeOK
<1>6. Stages'
  <2>1. \A d \in Comps : at'[d] = at[d] \/ (d = c /\ at[d] = "work" /\ at'[d] = "store")
    BY <1>3, <1>4
  <2> QED BY <1>1, <2>1 DEF Stages, ToSet
<1>7. Lasts'
  <2>1. \A d \in Comps : at'[d] = at[d] \/ (d = c /\ at[d] = "work" /\ at'[d] = "store")
    BY <1>3, <1>4
  <2> QED BY <1>1, <2>1 DEF Lasts
<1>8. Asked' /\ NoGap'
  <2>1. Asked'
    BY <1>1 DEF Asked, CommonWith, Asking
  <2>2. NoGap'
    BY <1>1, <1>4 DEF NoGap, Chain
  <2> QED BY <2>1, <2>2
<1>9. ASSUME NEW d \in Comps PROVE Threads(d)'
  <2>1. Threads(d)
    BY DEF WayInv
  <2> DEFINE S == settled[d] \cup {cur[d]}
             T == settled'[d] \cup {cur[d]}
  <2>2. S \cap Blocks \subseteq T
    BY <1>4
  <2>3. InOrder(block_queue[d], S)
    BY <2>1 DEF Threads
  <2> HIDE DEF S, T
  <2>4. InOrder(block_queue[d], T)
    BY <2>2, <2>3, InOrderMore
  <2>5. InOrder(block_queue[d], settled[d] \cup {cur[d]})' <=> InOrder(block_queue[d], T)
    BY DEF InOrder, Below, Chain, T
  <2>6. at'[d] = "work" => Below(cur[d]) \subseteq settled'[d]
    BY <1>4, <2>1 DEF Threads
  <2>7. at'[d] = "store" => Chain(cur[d]) \subseteq settled'[d]
    <3>1. CASE d = c
      <4>1. Below(cur[c]) \subseteq settled[c] /\ cur[c] \in Chain(cur[c])
        BY <1>3, <2>1, <3>1, PathIs DEF Threads
      <4> QED BY <1>4, <3>1, <4>1 DEF Below
    <3>2. CASE d # c
      BY <1>4, <2>1, <3>2 DEF Threads
    <3> QED BY <3>1, <3>2
  <2>8. Below(cur[d])' = Below(cur[d]) /\ Chain(cur[d])' = Chain(cur[d])
    BY DEF Below, Chain
  <2> QED BY <2>4, <2>5, <2>6, <2>7, <2>8 DEF Threads
<1>10. \A d \in Comps : Ahead(d) \cap Blocks \subseteq Ahead(d)' /\ settled[d] \subseteq settled'[d]
  BY <1>4 DEF Ahead, ToSet
<1> QED BY <1>5, <1>6, <1>7, <1>8, <1>9, <1>10, ThreadKept

LEMMA StoreWay ==
    ASSUME WayInv, NEW c \in Comps, Store(c)
    PROVE  WayInv'
<1>1. TypeOK /\ Stages /\ Lasts /\ Tips /\ Asked /\ NoGap /\ Steady
  BY DEF WayInv
<1>2. UNCHANGED <<tip, main, bootVars, monitorVars, block_queue, expiry, serviceVars, open, held, hist>>
  BY DEF Store
<1> USE <1>2 DEF bootVars, monitorVars, serviceVars, hist
<1>3. /\ last \in [Comps -> Blocks \cup {None}] /\ cur \in [Comps -> Blocks \cup {None}]
      /\ at \in [Comps -> {"none", "start", "get", "work", "store", "ended"}]
      /\ at[c] = "store" /\ cur[c] \in Blocks
  BY <1>1 DEF Store, TypeOK, Stages
<1>4. /\ last' \in [Comps -> Blocks \cup {None}] /\ cur' \in [Comps -> Blocks \cup {None}]
      /\ at' \in [Comps -> {"none", "start", "get", "work", "store", "ended"}]
      /\ at'[c] = "get" /\ last'[c] = cur[c] /\ cur'[c] = None
      /\ \A d \in Comps : d # c => last'[d] = last[d] /\ at'[d] = at[d] /\ cur'[d] = cur[d]
  BY <1>3 DEF Store
<1>5. Threads(c) /\ Chain(cur[c]) \subseteq settled[c] /\ cur[c] \in settled[c]
  BY <1>3, PathIs DEF WayInv, Threads
<1>6. TypeOK'
  BY <1>1, <1>4 DEF TypeOK
<1>7. main \notin Early \cup {"feed"} /\ (main = "join" => c = Head(plan).to)
  BY <1>1, <1>3, NotBlocks DEF Stages
<1>8. Stages'
  <2>1. \A d \in Comps : \/ at'[d] = at[d] /\ cur'[d] = cur[d]
                         \/ d = c /\ at'[d] = "get" /\ cur'[d] = None
    BY <1>4
  <2>2. \A d \in Comps : cur'[d] # None <=> at'[d] \in {"work", "store"}
    <3>1. \A d \in Comps : cur[d] # None <=> at[d] \in {"work", "store"}
      BY <1>1 DEF Stages
    <3> QED BY <2>1, <3>1
  <2>3. main \in Early \cup Feeds => \A d \in Comps : at'[d] # "ended"
    <3>1. main \in Early \cup Feeds => \A d \in Comps : at[d] # "ended"
      BY <1>1 DEF Stages
    <3> QED BY <2>1, <3>1
  <2>4. main = "join" => \A d \in Comps : /\ d = Head(plan).to \/ (block_queue[d] = <<>> /\ cur'[d] = None)
                                          /\ END \notin ToSet(block_queue[d])
    <3>1. main = "join" => \A d \in Comps : /\ d = Head(plan).to \/ (block_queue[d] = <<>> /\ cur[d] = None)
                                            /\ END \notin ToSet(block_queue[d])
      BY <1>1 DEF Stages
    <3> QED BY <2>1, <3>1
  <2>5. \A d \in Comps : ToSet(block_queue[d])' = ToSet(block_queue[d])
    BY DEF ToSet
  <2>6. main \in Early \cup {"feed"} => \A d \in Comps : block_queue[d] = <<>> /\ cur'[d] = None
    BY <1>7
  <2>7. /\ main \in {"off", "listen"} => status = "IDLE" /\ last_tips = {} /\ queue = <<>>
        /\ main \in {"load", "ancestor", "missed"} \cup Feeds <=> status = "LISTENING"
        /\ main \in Early \cup Feeds => notifier = "none"
        /\ main \in {"services", "serving", "stop api", "join rpc", "stop internal", "terminate"} => status = "ACTIVE"
        /\ hand = None <=> notifier # "send"
        /\ plan # <<>> => main \in Feeds
        /\ main = "join" => plan # <<>>
    BY <1>1 DEF Stages
  <2> HIDE <1>2
  <2>8. UNCHANGED <<main, status, last_tips, queue, notifier, hand, plan, block_queue>>
    BY <1>2
  <2> QED BY <2>2, <2>3, <2>4, <2>5, <2>6, <2>7, <2>8 DEF Stages
<1>9. Lasts'
  <2>1. \A d \in Comps : \/ at'[d] = at[d] /\ last'[d] = last[d]
                         \/ d = c /\ at'[d] = "get" /\ last'[d] # None
    BY <1>3, <1>4, NotBlocks
  <2> QED BY <1>1, <2>1 DEF Lasts
<1>10. Asked'
  BY <1>1, <1>7 DEF Asked, Early
<1>11. NoGap'
  <2> SUFFICES ASSUME NEW d \in Comps, last'[d] # None PROVE Chain(last'[d]) \subseteq settled[d]
    BY DEF NoGap, Chain
  <2>1. CASE d = c
    BY <1>4, <1>5, <2>1
  <2>2. CASE d # c
    BY <1>1, <1>4, <2>2 DEF NoGap
  <2> QED BY <2>1, <2>2
<1>12. ASSUME NEW d \in Comps PROVE Threads(d)'
  <2>1. Threads(d)
    BY DEF WayInv
  <2> DEFINE S == settled[d] \cup {cur[d]}
             T == settled[d] \cup {cur'[d]}
  <2>2. S \cap Blocks \subseteq T
    BY <1>4, <1>5
  <2>3. InOrder(block_queue[d], S)
    BY <2>1 DEF Threads
  <2> HIDE DEF S, T
  <2>4. InOrder(block_queue[d], T)
    BY <2>2, <2>3, InOrderMore
  <2>5. InOrder(block_queue[d], settled[d] \cup {cur[d]})' <=> InOrder(block_queue[d], T)
    BY DEF InOrder, Below, Chain, T
  <2>6. (at'[d] = "work" => Below(cur'[d]) \subseteq settled[d]) /\ (at'[d] = "store" => Chain(cur'[d]) \subseteq settled[d])
    <3>1. CASE d = c
      BY <1>4, <3>1
    <3>2. CASE d # c
      BY <1>4, <2>1, <3>2 DEF Threads
    <3> QED BY <3>1, <3>2
  <2>7. Below(cur[d])' = Below(cur'[d]) /\ Chain(cur[d])' = Chain(cur'[d])
    BY DEF Below, Chain
  <2> QED BY <2>4, <2>5, <2>6, <2>7 DEF Threads
<1>13. \A d \in Comps : Ahead(d) \cap Blocks \subseteq Ahead(d)' /\ settled[d] \subseteq settled'[d]
  BY <1>4, <1>5 DEF Ahead, ToSet
<1>14. (ToSet(block_queue'["responder"]) \cup {cur'["responder"]}) \cap Blocks
           \subseteq ToSet(block_queue["responder"]) \cup {cur["responder"]}
  BY <1>4, NotBlocks DEF Comps
<1> QED BY <1>6, <1>8, <1>9, <1>10, <1>11, <1>12, <1>13, <1>14, ThreadKept

-----------------------------------------------------------------------------
LEMMA InitWay == Steady /\ Init => WayInv
<1> SUFFICES ASSUME Steady, Init PROVE WayInv
  OBVIOUS
<1>1. \A T : <<>> \in Seq(T)
  OBVIOUS
<1>2. TypeOK
  <2>1. starts \in 0..MaxStarts /\ plan \in Seq(Batches) /\ queue \in Seq(Blocks \cup {END})
    <3>1. MaxStarts \in Nat /\ starts = 0 /\ plan = <<>> /\ queue = <<>>
      BY TowerAssumption DEF Init
    <3> QED BY <1>1, <3>1
  <2>2. /\ block_queue \in [Comps -> Seq(Blocks \cup {END})]
        /\ at \in [Comps -> {"none", "start", "get", "work", "store", "ended"}]
        /\ cur \in [Comps -> Blocks \cup {None}] /\ last \in [Comps -> Blocks \cup {None}]
        /\ settled \in [Comps -> SUBSET Blocks]
    BY <1>1 DEF Init
  <2> QED BY <2>1, <2>2 DEF Init, TypeOK
<1>3. Stages /\ Lasts /\ Asked /\ NoGap
  BY DEF Init, Stages, Lasts, Asked, NoGap, Early, Feeds
<1>4. Tips
  BY InOrderNone DEF Init, Tips
<1>5. ASSUME NEW c \in Comps PROVE Threads(c)
  BY InOrderNone DEF Init, Threads
<1> QED BY <1>2, <1>3, <1>4, <1>5 DEF WayInv, Init, Early

LEMMA StepWay == WayInv /\ [Next]_vars => WayInv'
<1> SUFFICES ASSUME WayInv, [Next]_vars PROVE WayInv'
  OBVIOUS
<1>1. ASSUME Main PROVE WayInv'
  BY <1>1, ServiceWay, TurnWay, GoneWay, LoadWay, FindAncestorWay, GetMissedWay, FeedWay, JoinWay, PutWay DEF Main
<1>2. ASSUME NEW c \in Comps, Thread(c) PROVE WayInv'
  BY <1>2, BeginWay, GetWay, ProcessWay, StoreWay DEF Thread
<1>3. ASSUME Monitor PROVE WayInv'
  BY <1>3, PutWay, NotifierGetWay, NotifierSendWay DEF Monitor
<1> QED BY <1>1, <1>2, <1>3, NewTipWay, ServiceWay, TurnWay, GoneWay DEF Next

(* Every block is on its way, in the order of its chain: missed, planned,  *)
(* noticed, in hand, in a queue, processed, and only then the last one.    *)
THEOREM WayInvariance == Steady /\ Spec => []WayInv
<1> QED BY InitWay, StepWay, PTL DEF Spec

(* No block is lost between the disk, the missed blocks and the            *)
(* ChainMonitor, wherever the tower crashes.                               *)
THEOREM NoBlockLostHolds == Steady /\ Spec => []NoBlockLost
<1>1. WayInv => NoBlockLost
  <2> SUFFICES ASSUME WayInv PROVE NoBlockLost
    OBVIOUS
  <2>1. TypeOK /\ NoGap /\ Stages
    BY DEF WayInv
  <2>2. OnItsWay
    <3> SUFFICES ASSUME status = "ACTIVE", NEW c \in Comps, NEW b \in Chain(tip) \ settled[c]
                 PROVE  InHand(c, b) \/ (b = tip /\ tip \notin last_tips)
      BY DEF OnItsWay
    <3>1. main \notin Early \cup Feeds /\ plan = <<>>
      BY <2>1 DEF Stages, Early, Feeds
    <3>2. Flow(c)
      BY <3>1 DEF WayInv
    <3>3. Brought(plan, c, Len(plan)) = {}
      BY <3>1, EmptyPlan
    <3>4. \/ b \in {cur[c]} \cup ToSet(block_queue[c]) \cup {hand} \cup ToSet(queue)
          \/ b = tip /\ tip \notin last_tips
      BY <3>2, <3>3 DEF Flow, Ahead
    <3>5. /\ b \in ToSet(block_queue[c]) => Contains(block_queue[c], b)
          /\ b \in ToSet(queue) => Contains(queue, b)
      <4>1. block_queue[c] \in Seq(Blocks \cup {END}) /\ queue \in Seq(Blocks \cup {END})
        BY <2>1 DEF TypeOK
      <4> QED BY <4>1, ItemsAre DEF Contains
    <3> QED BY <3>4, <3>5 DEF InHand
  <2> QED BY <2>1, <2>2 DEF NoBlockLost
<1> QED BY <1>1, WayInvariance, PTL

(* While the tower catches up, the Responder meets no block before the     *)
(* Watcher.                                                                *)
THEOREM WatcherLeadsHolds == Steady /\ Spec => []WatcherLeads
<1>1. WayInv => WatcherLeads
  <2> SUFFICES ASSUME WayInv, main \in Feeds, at["responder"] = "work"
               PROVE  cur["responder"] \in settled["watcher"]
    BY DEF WatcherLeads, Feeds
  <2>1. Leads /\ TypeOK /\ Stages
    BY DEF WayInv, Early, Feeds
  <2>2. cur["responder"] \in Blocks
    BY <2>1 DEF Stages, TypeOK, Comps
  <2> QED BY <2>1, <2>2 DEF Leads
<1> QED BY <1>1, WayInvariance, PTL
=============================================================================
