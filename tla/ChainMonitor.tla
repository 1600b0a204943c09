---------------------------- MODULE ChainMonitor ----------------------------
(***************************************************************************)
(* src/teos/chain_monitor.py: two threads, one that polls bitcoind and one *)
(* that listens to its ZMQ feed, put each new tip in an internal queue; a  *)
(* third hands what is in that queue to every subscriber.  The three share *)
(* last_tips, the lock, the status and, with every blocking query of the   *)
(* tower (BlockProcessor._blocking_query), the bitcoind_reachable event.   *)
(*                                                                         *)
(* Tips are numbered in the order in which bitcoind moves to them; what    *)
(* they are to each other in the block tree is of no account here.         *)
(***************************************************************************)
EXTENDS Naturals, FiniteSets, Sequences, SequencesExt

CONSTANTS
    MaxTip,      \* bound on the tips of a behaviour
    MaxOutages,  \* bound on the times bitcoind goes away
    MaxLag,      \* bound on the ZMQ messages in flight
    WindowSize,  \* ChainMonitor.max_block_window_size
    Subs,        \* number of receiving_queues
    Terminates,  \* does the tower shut down?
    Queries      \* do its other threads wait for bitcoind?

ASSUME ChainMonitorAssumption ==
    /\ MaxTip \in Nat /\ MaxOutages \in Nat /\ MaxLag \in Nat
    /\ WindowSize \in Nat \ {0} /\ Subs \in Nat \ {0}
    /\ Terminates \in BOOLEAN /\ Queries \in BOOLEAN

Threads == {"polling", "zmq", "notify"}
END == MaxTip + 1
Messages == 0..END

VARIABLES
    tip, online, feed, outages,  \* bitcoind: best block, is it there, ZMQ messages, bound
    status,
    last_tips, queue, lock,
    reachable,                   \* the bitcoind_reachable event
    pc,                          \* where each thread is
    msg,                         \* and what it has in its hands
    sent,                        \* what each subscriber has been given
    first, late,                 \* history: the tip at the start, messages after terminate,
    heldUp,                      \* and whether a thread has been half a window behind
    query                        \* a blocking query of another thread

bitcoindVars == <<tip, online, feed, outages>>
threadVars == <<pc, msg>>
hist == <<first, late, heldUp>>
vars == <<bitcoindVars, status, last_tips, queue, lock, reachable, threadVars, sent, hist, query>>

TypeOK ==
    /\ tip \in 0..MaxTip /\ online \in BOOLEAN /\ feed \in Seq(0..MaxTip) /\ outages \in 0..MaxOutages
    /\ status \in {"IDLE", "LISTENING", "ACTIVE", "TERMINATED"}
    /\ last_tips \in Seq(0..MaxTip) /\ Len(last_tips) <= WindowSize
    /\ queue \in Seq(Messages) /\ lock \in Threads \cup {"free"}
    /\ reachable \in BOOLEAN
    /\ pc \in [Threads -> {"none", "loop", "ask", "check", "put", "append", "get", "lock",
                           "send", "stopped"}]
    /\ msg \in [Threads -> Messages]
    /\ sent \in [1..Subs -> Seq(Messages)] /\ first \in 0..MaxTip /\ late \in Nat /\ heldUp \in BOOLEAN
    /\ query \in {"idle", "wait", "call"}

Goto(t, l) == pc' = [pc EXCEPT ![t] = l]
Take(t, l, m) == Goto(t, l) /\ msg' = [msg EXCEPT ![t] = m]

(* A tip in the hands of a feeder, and when it is half a window old.       *)
Feeders == {"polling", "zmq"}
Hands == {"check", "put", "append"}
FarBehind(b, best) == 2 * b + WindowSize <= 2 * best

-----------------------------------------------------------------------------
(* bitcoind.  A ZMQ message may be lost.                                   *)

NewTip ==
    /\ online /\ tip < MaxTip
    /\ tip' = tip + 1
    /\ feed' = feed \/ (Len(feed) < MaxLag /\ feed' = Append(feed, tip'))
    /\ heldUp' = (heldUp \/ \E t \in Feeders : pc[t] \in Hands /\ FarBehind(msg[t], tip'))
    /\ UNCHANGED <<online, outages, status, last_tips, queue, lock, reachable, threadVars, sent, first, late, query>>

GoAway ==
    /\ online /\ outages < MaxOutages
    /\ online' = FALSE /\ outages' = outages + 1
    /\ UNCHANGED <<tip, feed, status, last_tips, queue, lock, reachable, threadVars, sent, hist, query>>

ComeBack ==
    /\ ~online /\ online' = TRUE
    /\ UNCHANGED <<tip, feed, outages, status, last_tips, queue, lock, reachable, threadVars, sent, hist, query>>

-----------------------------------------------------------------------------
(* The main thread.                                                        *)

(* If bitcoind is not there the exception ends the bootstrap.              *)
monitor_chain ==
    /\ status = "IDLE" /\ online
    /\ status' = "LISTENING"
    /\ last_tips' = <<tip>> /\ first' = tip
    /\ pc' = [pc EXCEPT !["polling"] = "loop", !["zmq"] = "loop"]
    /\ UNCHANGED <<bitcoindVars, queue, lock, reachable, msg, sent, late, heldUp, query>>

activate ==
    /\ status = "LISTENING"
    /\ status' = "ACTIVE"
    /\ Goto("notify", "loop")
    /\ UNCHANGED <<bitcoindVars, last_tips, queue, lock, reachable, msg, sent, hist, query>>

(* The status first, then the END_MESSAGE.                                 *)
terminate ==
    /\ Terminates
    /\ \/ /\ status = "ACTIVE"
          /\ status' = "TERMINATED"
          /\ UNCHANGED queue
       \/ /\ status = "TERMINATED" /\ ~Contains(queue, END)
          /\ \A s \in 1..Subs : ~Contains(sent[s], END)
          /\ msg["notify"] # END
          /\ queue' = Append(queue, END)
          /\ UNCHANGED status
    /\ UNCHANGED <<bitcoindVars, last_tips, lock, reachable, threadVars, sent, hist, query>>

-----------------------------------------------------------------------------
(* The loops of the three threads.                                         *)

First(t) == CASE t = "polling" -> "ask" [] t = "zmq" -> "get" [] t = "notify" -> "get"

(* Fault: notify_subscribers goes on until the queue is empty.             *)
LoopOn(t) ==
    /\ pc[t] = "loop"
    /\ Goto(t, IF status = "TERMINATED" /\ (t # "notify" \/ queue = <<>>) THEN "stopped" ELSE First(t))
    /\ reachable' = (reachable /\ (t # "polling" \/ status = "TERMINATED"))
    /\ UNCHANGED <<bitcoindVars, status, last_tips, queue, lock, msg, sent, hist, query>>

(* The head of each "while"; polling then clears the event.                *)
Loop(t) ==
    /\ pc[t] = "loop"
    /\ Goto(t, IF status = "TERMINATED" THEN "stopped" ELSE First(t))
    /\ reachable' = (reachable /\ (t # "polling" \/ status = "TERMINATED"))
    /\ UNCHANGED <<bitcoindVars, status, last_tips, queue, lock, msg, sent, hist, query>>

Answer ==
    /\ pc["polling"] = "ask" /\ online
    /\ reachable' = TRUE
    /\ Take("polling", "check", tip)
    /\ UNCHANGED <<bitcoindVars, status, last_tips, queue, lock, sent, hist, query>>

(* Fault: the exception ends the thread.                                   *)
NoAnswerEnds ==
    /\ pc["polling"] = "ask"
    /\ reachable' = online
    /\ Goto("polling", "stopped")
    /\ UNCHANGED <<bitcoindVars, status, last_tips, queue, lock, msg, sent, hist, query>>

(* The connection is refused, or the answer is an error.                   *)
NoAnswer ==
    /\ pc["polling"] = "ask"
    /\ reachable' = online
    /\ Goto("polling", "loop")
    /\ UNCHANGED <<bitcoindVars, status, last_tips, queue, lock, msg, sent, hist, query>>

Recv ==
    /\ pc["zmq"] = "get" /\ feed # <<>>
    /\ Take("zmq", "check", Head(feed))
    /\ feed' = Tail(feed)
    /\ heldUp' = (heldUp \/ FarBehind(Head(feed), tip))
    /\ UNCHANGED <<tip, online, outages, status, last_tips, queue, lock, reachable, sent, first, late, query>>

(* enqueue looks at last_tips without the lock.                            *)
Check(t) ==
    /\ pc[t] = "check"
    /\ Goto(t, IF Contains(last_tips, msg[t]) THEN "loop" ELSE "put")
    /\ UNCHANGED <<bitcoindVars, status, last_tips, queue, lock, reachable, msg, sent, hist, query>>

Put(t) ==
    /\ pc[t] = "put" /\ lock = "free"
    /\ lock' = t
    /\ queue' = Append(queue, msg[t])
    /\ Goto(t, "append")
    /\ UNCHANGED <<bitcoindVars, status, last_tips, reachable, msg, sent, hist, query>>

AppendTip(t) ==
    /\ pc[t] = "append"
    /\ LET tips == Append(last_tips, msg[t])
       IN  last_tips' = IF Len(tips) > WindowSize THEN Tail(tips) ELSE tips
    /\ lock' = "free"
    /\ Goto(t, "loop")
    /\ UNCHANGED <<bitcoindVars, status, queue, reachable, msg, sent, hist, query>>

(* Fault: only the last of the messages is taken.                          *)
GetLatest ==
    /\ pc["notify"] = "get" /\ queue # <<>>
    /\ Take("notify", "lock", Last(queue))
    /\ queue' = <<>>
    /\ UNCHANGED <<bitcoindVars, status, last_tips, lock, reachable, sent, hist, query>>

GetMessage ==
    /\ pc["notify"] = "get" /\ queue # <<>>
    /\ Take("notify", "lock", Head(queue))
    /\ queue' = Tail(queue)
    /\ UNCHANGED <<bitcoindVars, status, last_tips, lock, reachable, sent, hist, query>>

Lock ==
    /\ pc["notify"] = "lock" /\ lock = "free"
    /\ lock' = "notify"
    /\ Goto("notify", "send")
    /\ UNCHANGED <<bitcoindVars, status, last_tips, queue, reachable, msg, sent, hist, query>>

(* The subscribers are served in order, s after those that have this one.  *)
Notify(s) ==
    /\ pc["notify"] = "send"
    /\ s = 1 + Cardinality({r \in 1..Subs : Len(sent[r]) > Len(sent[Subs])})
    /\ sent' = [sent EXCEPT ![s] = Append(@, msg["notify"])]
    /\ Goto("notify", IF s = Subs THEN "loop" ELSE "send")
    /\ lock' = IF s = Subs THEN "free" ELSE lock
    /\ late' = IF status = "TERMINATED" /\ s = Subs THEN late + 1 ELSE late
    /\ UNCHANGED <<bitcoindVars, status, last_tips, queue, reachable, msg, first, heldUp, query>>

-----------------------------------------------------------------------------
(* BlockProcessor._blocking_query, in the watch thread of the Watcher or   *)
(* of the Responder.                                                       *)

Ask ==
    /\ Queries /\ query = "idle" /\ status # "IDLE"
    /\ query' = "wait"
    /\ UNCHANGED <<bitcoindVars, status, last_tips, queue, lock, reachable, threadVars, sent, hist>>

Call ==
    /\ \/ query = "wait" /\ reachable /\ query' = "call" /\ UNCHANGED reachable
       \/ query = "call" /\ online /\ query' = "idle" /\ UNCHANGED reachable
       \/ query = "call" /\ ~online /\ query' = "wait" /\ reachable' = FALSE
    /\ UNCHANGED <<bitcoindVars, status, last_tips, queue, lock, threadVars, sent, hist>>

-----------------------------------------------------------------------------
Init ==
    /\ tip = 0 /\ online = TRUE /\ feed = <<>> /\ outages = 0
    /\ status = "IDLE" /\ last_tips = <<>> /\ queue = <<>> /\ lock = "free"
    /\ reachable = TRUE
    /\ pc = [t \in Threads |-> "none"] /\ msg = [t \in Threads |-> 0]
    /\ sent = [s \in 1..Subs |-> <<>>] /\ first = 0 /\ late = 0 /\ heldUp = FALSE
    /\ query = "idle"

Enqueue(t) == Check(t) \/ Put(t) \/ AppendTip(t)
Polling == Loop("polling") \/ Answer \/ NoAnswer \/ Enqueue("polling")
Zmq == Loop("zmq") \/ Recv \/ Enqueue("zmq")
NotifySubscribers == Loop("notify") \/ GetMessage \/ Lock \/ \E s \in 1..Subs : Notify(s)

Next ==
    \/ NewTip \/ GoAway \/ ComeBack
    \/ monitor_chain \/ activate \/ terminate
    \/ Polling \/ Zmq \/ NotifySubscribers
    \/ Ask \/ Call

Spec == Init /\ [][Next]_vars

(* The threads run; bitcoind comes back, and answers one day.  Whoever     *)
(* waits for the event is woken each time it is set.                       *)
FairSpec ==
    /\ Spec
    /\ WF_vars(Polling) /\ SF_vars(Answer) /\ WF_vars(Zmq)
    /\ WF_vars(NotifySubscribers)
    /\ WF_vars(ComeBack) /\ WF_vars(activate) /\ WF_vars(terminate)
    /\ SF_vars(Call)

-----------------------------------------------------------------------------
Times(b) == Cardinality({i \in 1..Len(sent[1]) : sent[1][i] = b})

(* A subscriber that reads END has read all there will ever be.            *)
EndIsLast ==
    \A s \in 1..Subs : \A i \in DOMAIN sent[s] : sent[s][i] = END => i = Len(sent[s])

(* After terminate the subscribers get one more message at the most: the   *)
(* block that was in hand, or the END.  (The docstring of the class has it *)
(* that it is no block; see NoBlockAfterTerminate.)                        *)
OneAfterTerminate == late <= 1

(* The docstring, chain_monitor.py:33-35: once it is terminated, "no       *)
(* receiving queue will be notified about new blocks (including any block  *)
(* that is currently in the internal queue)".  The code does not keep to   *)
(* it: notify_subscribers sends what it has in hand.                       *)
NoBlockAfterTerminate == late > 0 => Contains(sent[Subs], END)

(* A tip that the monitor will not put in its queue again is on its way to *)
(* every subscriber, or has got there.  (The tip it started with is left   *)
(* to the bootstrap.)                                                      *)
SeenIsNotified ==
    \A b \in 0..MaxTip :
        Contains(last_tips, b) /\ b # first =>
            \/ Contains(queue, b) \/ Contains(sent[Subs], b)
            \/ pc["notify"] \in {"lock", "send"} /\ msg["notify"] = b

(* The two threads race, and last_tips is read without the lock, but each  *)
(* thread puts a tip once: a block is notified twice at the most, as long  *)
(* as no thread has been held up with a tip while half a window of tips    *)
(* went by.  (After that there is no bound: see UpToTwice.)                *)
TwiceAtMost == heldUp \/ \A b \in 0..MaxTip : Times(b) <= 2
UpToTwice == \A b \in 0..MaxTip : Times(b) <= 2

(* The docstring, chain_monitor.py:21-22: "Blocks are only notified once   *)
(* per queue".  The code does not keep to it: enqueue looks at last_tips   *)
(* before it takes the lock, so both threads may put the same block.       *)
NotifiedOnce == \A b \in 0..MaxTip : Times(b) <= 1

(* The state is of its type, and what the subscribers are sent is bounded  *)
(* in these three ways.                                                    *)
SentInBounds == TypeOK /\ EndIsLast /\ OneAfterTerminate /\ TwiceAtMost

(* The tip reaches the subscribers, whatever the ZMQ feed loses, unless it *)
(* was the tip when the monitor started, the chain moves on or the tower   *)
(* shuts down.                                                             *)
TipIsNotified ==
    \A b \in 1..MaxTip :
        (status = "ACTIVE" /\ tip = b /\ ~Contains(last_tips, b))
            ~> (Contains(sent[Subs], b) \/ tip # b \/ status = "TERMINATED")

(* A blocking query is answered, however bitcoind comes and goes, as long  *)
(* as the tower runs.                                                      *)
QueryAnswered == query # "idle" ~> query = "idle" \/ status = "TERMINATED"

(* The END_MESSAGE gets to every subscriber.                               *)
EndIsSent == status = "TERMINATED" ~> \A s \in 1..Subs : Contains(sent[s], END)
=============================================================================
