-------------------------------- MODULE Tower --------------------------------
(***************************************************************************)
(* One tower from start to exit, and started again after a crash: the main *)
(* thread of src/teos/teosd.py (bootstrap_components, start_services,      *)
(* teardown) with src/teos/builder.py, the ChainMonitor, and the threads   *)
(* of Watcher, Responder and Gatekeeper as seen from their block queues.   *)
(*                                                                         *)
(* What a thread does with a block is the subject of other modules.  Here  *)
(* it processes the block, and then stores it as the last one; a crash may *)
(* come between.                                                           *)
(***************************************************************************)
EXTENDS Blockchain, SequencesExt

CONSTANTS
    None,
    END,       \* ChainMonitor.END_MESSAGE
    MaxStarts, \* bound on the starts of a behaviour
    Rare       \* the rare events a run includes

ASSUME TowerAssumption ==
    /\ None \notin Blocks /\ END \notin Blocks /\ None # END /\ MaxStarts \in Nat
    /\ Rare \subseteq {"skip",            \* a tip that does not extend the one before, while we run
                       "moving tip",      \* a new tip while the missed blocks are looked up
                       "busy end",        \* terminate with a tip on its way
                       "slow request",    \* a request that outlives the grace time
                       "busy gatekeeper"} \* the Gatekeeper's thread is behind at the end

Comps == {"watcher", "responder"}

VARIABLES
    tip,                    \* bitcoind's best block
    main,                   \* where the main thread is
    ancestor, missed, plan, \* its last_common_ancestor, missed_blocks_watcher,
                            \* and what it has still to put in queues
    status, last_tips,      \* ChainMonitor, all tips being within its window
    queue,
    notifier, hand,         \* notify_subscribers, and the message it is handing on
    block_queue, at, cur,   \* the threads of Watcher and Responder
    expiry,                 \* and of the Gatekeeper
    api, rpc, handler,      \* the public API, the RPC process, a request being served
    open,                   \* the databases that are open
    held,                   \* is there an appointment or a tracker on disk?
    last,                   \* the last blocks on disk
    settled,                \* history: the blocks each component has processed, or need not
    starts

bootVars == <<ancestor, missed, plan>>
monitorVars == <<status, last_tips, queue, notifier, hand>>
threadVars == <<block_queue, at, cur, expiry>>
serviceVars == <<api, rpc, handler>>
diskVars == <<open, held, last>>
hist == <<settled, starts>>
vars == <<tip, main, bootVars, monitorVars, threadVars, serviceVars, diskVars, hist>>

Bootstrap == {"listen", "load", "ancestor", "missed", "feed", "join"}
Teardown == {"stop api", "join rpc", "stop internal", "terminate", "end", "join watcher",
             "join responder", "close appointments", "close users", "exit"}
Batches == [to : Comps, blocks : Seq(Blocks)]

TypeOK ==
    /\ tip \in Blocks /\ main \in Bootstrap \cup Teardown \cup {"off", "services", "serving"}
    /\ ancestor \in Blocks \cup {None} /\ missed \in Seq(Blocks) \cup {None} /\ plan \in Seq(Batches)
    /\ status \in {"IDLE", "LISTENING", "ACTIVE", "TERMINATED"} /\ last_tips \subseteq Blocks
    /\ queue \in Seq(Blocks \cup {END})
    /\ notifier \in {"none", "get", "send", "stopped"} /\ hand \in Blocks \cup {END, None}
    /\ block_queue \in [Comps -> Seq(Blocks \cup {END})]
    /\ at \in [Comps -> {"none", "start", "get", "work", "store", "ended"}]
    /\ cur \in [Comps -> Blocks \cup {None}]
    /\ expiry \in {"none", "running", "last", "ended"}
    /\ api \in BOOLEAN /\ rpc \in BOOLEAN /\ handler \in BOOLEAN
    /\ open \subseteq {"appointments", "users"} /\ held \in BOOLEAN
    /\ last \in [Comps -> Blocks \cup {None}]
    /\ settled \in [Comps -> SUBSET Blocks] /\ starts \in 0..MaxStarts

-----------------------------------------------------------------------------
(* builder.py.                                                             *)

Chain(b) == {Path[b][i] : i \in DOMAIN Path[b]}

Batch(c, s) == [to |-> c, blocks |-> s]

(* The blocks of the longer list that are not in the other, in order: the  *)
(* n-th of them has n of their places up to its own.                       *)
block_diff(longer, other) ==
    LET places == {i \in DOMAIN longer : ~Contains(other, longer[i])}
        Upto(i) == {j \in places : j <= i}
    IN  [n \in 1..Cardinality(places) |-> longer[CHOOSE i \in places : Cardinality(Upto(i)) = n]]

Difference(mw, mr) ==
    CASE Len(mr) > Len(mw) -> <<Batch("responder", block_diff(mr, mw))>>
      [] Len(mw) > Len(mr) -> <<Batch("watcher", block_diff(mw, mr))>>
      [] OTHER             -> <<>>

(* Fault: the Responder has each block before the Watcher.                 *)
ResponderFirst(mw, mr) ==
    Difference(mw, mr) \o
    [i \in 1..2 * Len(mw) |-> Batch(IF i % 2 = 1 THEN "responder" ELSE "watcher", <<mw[(i + 1) \div 2]>>)]

(* First the component that is behind, and then both, block by block.      *)
update_states(mw, mr) ==
    Difference(mw, mr) \o
    [i \in 1..2 * Len(mw) |-> Batch(IF i % 2 = 1 THEN "watcher" ELSE "responder", <<mw[(i + 1) \div 2]>>)]

(* Who is fed what, in which order; a queue is joined after each batch.    *)
Feeding(mw, mr) ==
    CASE mw = <<>> /\ mr = <<>> -> <<>>
      [] mw = <<>> /\ mr # <<>> -> <<Batch("responder", mr)>>
      [] mw # <<>> /\ mr = <<>> -> <<Batch("watcher", mw)>>
      [] OTHER                  -> update_states(mw, mr)

-----------------------------------------------------------------------------
(* bitcoind.  Unless the rare events are in, the tip moves block by block  *)
(* while the tower runs and each block is noticed before the next; while   *)
(* it is down it moves anywhere.                                           *)

NewTip(b) ==
    /\ Height(b) > Height(tip)
    /\ \/ main = "off"
       \/ "skip" \in Rare
       \/ IsParent(tip, b) /\ (status \in {"LISTENING", "ACTIVE"} => tip \in last_tips)
    /\ (main # "missed" /\ missed = None) \/ "moving tip" \in Rare
    /\ tip' = b
    /\ UNCHANGED <<main, bootVars, monitorVars, threadVars, serviceVars, diskVars, hist>>

-----------------------------------------------------------------------------
(* The ChainMonitor.                                                       *)

(* Either of its two threads comes upon a new tip.                         *)
Notice ==
    /\ status \in {"LISTENING", "ACTIVE"} \cup (IF "busy end" \in Rare THEN {"TERMINATED"} ELSE {})
    /\ tip \notin last_tips
    /\ last_tips' = last_tips \cup {tip}
    /\ queue' = Append(queue, tip)
    /\ UNCHANGED <<tip, main, bootVars, status, notifier, hand, threadVars, serviceVars, diskVars, hist>>

NotifierGet ==
    /\ notifier = "get" /\ queue # <<>>
    /\ hand' = Head(queue) /\ queue' = Tail(queue)
    /\ notifier' = "send"
    /\ UNCHANGED <<tip, main, bootVars, status, last_tips, threadVars, serviceVars, diskVars, hist>>

(* To every queue, and on with the loop unless the status is TERMINATED.   *)
(* What the Gatekeeper has in its queue is left out, but for END.          *)
NotifierSend ==
    /\ notifier = "send"
    /\ block_queue' = [c \in Comps |-> Append(block_queue[c], hand)]
    /\ expiry' = IF hand = END THEN "last" ELSE expiry
    /\ hand' = None
    /\ notifier' = IF status = "TERMINATED" THEN "stopped" ELSE "get"
    /\ UNCHANGED <<tip, main, bootVars, status, last_tips, queue, at, cur, serviceVars, diskVars, hist>>

-----------------------------------------------------------------------------
(* The threads of the subscribers.                                         *)

(* do_watch, before its loop: without a last block on disk the best block  *)
(* is stored as such.                                                      *)
Begin(c) ==
    /\ at[c] = "start"
    /\ at' = [at EXCEPT ![c] = "get"]
    /\ IF last[c] = None
       THEN /\ last' = [last EXCEPT ![c] = tip]
            /\ settled' = [settled EXCEPT ![c] = @ \cup Chain(tip)]
       ELSE UNCHANGED <<last, settled>>
    /\ UNCHANGED <<tip, main, bootVars, monitorVars, block_queue, cur, expiry, serviceVars, open, held, starts>>

(* END ends the thread.                                                    *)
Get(c) ==
    /\ at[c] = "get" /\ block_queue[c] # <<>>
    /\ block_queue' = [block_queue EXCEPT ![c] = Tail(@)]
    /\ IF Head(block_queue[c]) = END
       THEN at' = [at EXCEPT ![c] = "ended"] /\ UNCHANGED cur
       ELSE at' = [at EXCEPT ![c] = "work"] /\ cur' = [cur EXCEPT ![c] = Head(block_queue[c])]
    /\ UNCHANGED <<tip, main, bootVars, monitorVars, expiry, serviceVars, diskVars, hist>>

(* The body of the loop.                                                   *)
Process(c) ==
    /\ at[c] = "work"
    /\ settled' = [settled EXCEPT ![c] = @ \cup {cur[c]}]
    /\ at' = [at EXCEPT ![c] = "store"]
    /\ UNCHANGED <<tip, main, bootVars, monitorVars, block_queue, cur, expiry, serviceVars, diskVars, starts>>

(* Fault: no task_done.                                                    *)
StoreOnly(c) ==
    /\ at[c] = "store" /\ last[c] # cur[c]
    /\ last' = [last EXCEPT ![c] = cur[c]]
    /\ UNCHANGED <<tip, main, bootVars, monitorVars, threadVars, serviceVars, open, held, hist>>

(* store_last_block_hash, and task_done.                                   *)
Store(c) ==
    /\ at[c] = "store"
    /\ last' = [last EXCEPT ![c] = cur[c]]
    /\ at' = [at EXCEPT ![c] = "get"] /\ cur' = [cur EXCEPT ![c] = None]
    /\ UNCHANGED <<tip, main, bootVars, monitorVars, block_queue, expiry, serviceVars, open, held, hist>>

(* manage_subscription_expiry comes to END some time after it is put in    *)
(* its queue.                                                              *)
Expire ==
    /\ expiry = "last" /\ expiry' = "ended"
    /\ UNCHANGED <<tip, main, bootVars, monitorVars, block_queue, at, cur, serviceVars, diskVars, hist>>

(* Queue.join: whatever was put has been got, and task_done.               *)
Joined(c) == block_queue[c] = <<>> /\ at[c] \notin {"work", "store"}

-----------------------------------------------------------------------------
(* The main thread: bootstrap.                                             *)

(* TeosDaemon.__init__; the Gatekeeper starts its thread at once.          *)
Start ==
    /\ main = "off" /\ starts < MaxStarts
    /\ starts' = starts + 1
    /\ main' = "listen"
    /\ open' = {"appointments", "users"}
    /\ expiry' = "running"
    /\ UNCHANGED <<tip, bootVars, monitorVars, block_queue, at, cur, serviceVars, held, last, settled>>

MonitorChain ==
    /\ main = "listen"
    /\ status' = "LISTENING" /\ last_tips' = {tip}
    /\ main' = "load"
    /\ UNCHANGED <<tip, bootVars, queue, notifier, hand, threadVars, serviceVars, diskVars, hist>>

(* Load the data and awake the two threads.  A tower with no data owes     *)
(* nothing to anybody for the blocks it has missed.                        *)
Load ==
    /\ main = "load"
    /\ main' = IF held THEN "ancestor" ELSE "feed"
    /\ at' = [c \in Comps |-> "start"]
    /\ settled' = IF held THEN settled ELSE [c \in Comps |-> settled[c] \cup Chain(tip)]
    /\ UNCHANGED <<tip, bootVars, monitorVars, block_queue, cur, expiry, serviceVars, diskVars, starts>>

(* The Watcher's list is looked up first.                                  *)
Asking == IF missed = None THEN "watcher" ELSE "responder"

FindAncestor ==
    /\ main = "ancestor"
    /\ ancestor' = find_last_common_ancestor(last[Asking], tip)
    /\ main' = "missed"
    /\ UNCHANGED <<tip, missed, plan, monitorVars, threadVars, serviceVars, diskVars, hist>>

(* The Responder's list is the Watcher's if their last blocks are one.     *)
GetMissed ==
    LET blocks == get_missed_blocks(ancestor, tip)
        mw == IF missed = None THEN blocks ELSE missed
    IN  /\ main = "missed"
        /\ ancestor' = None
        /\ IF missed = None /\ last["watcher"] # last["responder"]
           THEN /\ missed' = blocks /\ main' = "ancestor"
                /\ UNCHANGED plan
           ELSE /\ missed' = None /\ main' = "feed"
                /\ plan' = Feeding(mw, blocks)
        /\ UNCHANGED <<tip, monitorVars, threadVars, serviceVars, diskVars, hist>>

(* populate_block_queue.                                                   *)
Feed ==
    /\ main = "feed" /\ plan # <<>>
    /\ block_queue' = [block_queue EXCEPT ![Head(plan).to] = @ \o Head(plan).blocks]
    /\ main' = "join"
    /\ UNCHANGED <<tip, bootVars, monitorVars, at, cur, expiry, serviceVars, diskVars, hist>>

Join ==
    /\ main = "join" /\ Joined(Head(plan).to)
    /\ plan' = Tail(plan)
    /\ main' = "feed"
    /\ UNCHANGED <<tip, ancestor, missed, monitorVars, threadVars, serviceVars, diskVars, hist>>

(* The status, and the notifying thread.                                   *)
Activate ==
    /\ main = "feed" /\ plan = <<>>
    /\ status' = "ACTIVE" /\ notifier' = "get"
    /\ main' = "services"
    /\ UNCHANGED <<tip, bootVars, last_tips, queue, hand, threadVars, serviceVars, diskVars, hist>>

StartServices ==
    /\ main = "services"
    /\ rpc' = TRUE /\ api' = TRUE
    /\ main' = "serving"
    /\ UNCHANGED <<tip, bootVars, monitorVars, threadVars, handler, diskVars, hist>>

-----------------------------------------------------------------------------
(* A request in one of the InternalAPI's workers; it may store an          *)
(* appointment.  The threads have long begun.                              *)

Request ==
    /\ api /\ ~handler /\ \A c \in Comps : at[c] # "start"
    /\ handler' = TRUE
    /\ UNCHANGED <<tip, main, bootVars, monitorVars, threadVars, api, rpc, diskVars, hist>>

Respond ==
    /\ handler /\ handler' = FALSE
    /\ held' \in {held, TRUE}
    /\ UNCHANGED <<tip, main, bootVars, monitorVars, threadVars, api, rpc, open, last, hist>>

-----------------------------------------------------------------------------
(* The main thread: teardown.                                              *)

(* A signal, or the stop command, sets stop_command_event.                 *)
StopCommand ==
    /\ main = "serving" /\ main' = "stop api"
    /\ UNCHANGED <<tip, bootVars, monitorVars, threadVars, serviceVars, diskVars, hist>>

(* The process is killed and joined, and stop_event is set.                *)
StopApi ==
    /\ main = "stop api"
    /\ api' = FALSE
    /\ main' = "join rpc"
    /\ UNCHANGED <<tip, bootVars, monitorVars, threadVars, rpc, handler, diskVars, hist>>

(* rpc.serve wakes, stops its server and returns.                          *)
RpcServe ==
    /\ main = "join rpc" /\ rpc
    /\ rpc' = FALSE
    /\ UNCHANGED <<tip, main, bootVars, monitorVars, threadVars, api, handler, diskVars, hist>>

JoinRpc ==
    /\ main = "join rpc" /\ ~rpc
    /\ main' = "stop internal"
    /\ UNCHANGED <<tip, bootVars, monitorVars, threadVars, serviceVars, diskVars, hist>>

(* Fault: the server is not waited for.                                    *)
StopInternalAtOnce ==
    /\ main = "stop internal"
    /\ main' = "terminate"
    /\ UNCHANGED <<tip, bootVars, monitorVars, threadVars, serviceVars, diskVars, hist>>

(* A request in progress has SHUTDOWN_GRACE_TIME; its thread is not killed *)
(* when it takes longer.                                                   *)
StopInternal ==
    /\ main = "stop internal"
    /\ ~handler \/ "slow request" \in Rare
    /\ main' = "terminate"
    /\ UNCHANGED <<tip, bootVars, monitorVars, threadVars, serviceVars, diskVars, hist>>

Terminate ==
    /\ main = "terminate"
    /\ (notifier = "get" /\ queue = <<>>) \/ "busy end" \in Rare
    /\ status' = "TERMINATED"
    /\ main' = "end"
    /\ UNCHANGED <<tip, bootVars, last_tips, queue, notifier, hand, threadVars, serviceVars, diskVars, hist>>

PutEnd ==
    /\ main = "end"
    /\ queue' = Append(queue, END)
    /\ main' = "join watcher"
    /\ UNCHANGED <<tip, bootVars, status, last_tips, notifier, hand, threadVars, serviceVars, diskVars, hist>>

JoinThread ==
    /\ \/ main = "join watcher" /\ at["watcher"] = "ended" /\ main' = "join responder"
       \/ main = "join responder" /\ at["responder"] = "ended" /\ main' = "close appointments"
    /\ UNCHANGED <<tip, bootVars, monitorVars, threadVars, serviceVars, diskVars, hist>>

(* Nobody waits for the Gatekeeper's thread.                               *)
Close ==
    /\ \/ main = "close appointments" /\ open' = {"users"} /\ main' = "close users"
       \/ /\ main = "close users"
          /\ expiry = "ended" \/ "busy gatekeeper" \in Rare
          /\ open' = {} /\ main' = "exit"
    /\ UNCHANGED <<tip, bootVars, monitorVars, threadVars, serviceVars, held, last, hist>>

(* Every thread ends with the process.                                     *)
Gone ==
    /\ main' = "off"
    /\ ancestor' = None /\ missed' = None /\ plan' = <<>>
    /\ status' = "IDLE" /\ last_tips' = {} /\ queue' = <<>>
    /\ notifier' = "none" /\ hand' = None
    /\ block_queue' = [c \in Comps |-> <<>>]
    /\ at' = [c \in Comps |-> "none"] /\ cur' = [c \in Comps |-> None] /\ expiry' = "none"
    /\ api' = FALSE /\ rpc' = FALSE /\ handler' = FALSE
    /\ open' = {}
    /\ UNCHANGED <<tip, held, last, hist>>

Exit == main = "exit" /\ Gone

Crash == main # "off" /\ Gone

-----------------------------------------------------------------------------
Init ==
    /\ tip \in Blocks /\ Len(Path[tip]) = 1 /\ main = "off"
    /\ ancestor = None /\ missed = None /\ plan = <<>>
    /\ status = "IDLE" /\ last_tips = {} /\ queue = <<>> /\ notifier = "none" /\ hand = None
    /\ block_queue = [c \in Comps |-> <<>>]
    /\ at = [c \in Comps |-> "none"] /\ cur = [c \in Comps |-> None] /\ expiry = "none"
    /\ api = FALSE /\ rpc = FALSE /\ handler = FALSE
    /\ open = {} /\ held = FALSE /\ last = [c \in Comps |-> None]
    /\ settled = [c \in Comps |-> {}]
    /\ starts = 0

Monitor == Notice \/ NotifierGet \/ NotifierSend

Thread(c) == Begin(c) \/ Get(c) \/ Process(c) \/ Store(c)

Main ==
    \/ MonitorChain \/ Load
    \/ FindAncestor \/ GetMissed
    \/ Feed \/ Join \/ Activate \/ StartServices
    \/ StopApi \/ JoinRpc \/ StopInternal \/ Terminate \/ PutEnd \/ JoinThread \/ Close \/ Exit

Next ==
    \/ \E b \in Blocks : NewTip(b)
    \/ Monitor
    \/ \E c \in Comps : Thread(c)
    \/ Expire
    \/ Start \/ Main \/ StopCommand \/ RpcServe
    \/ Request \/ Respond
    \/ Crash

Spec == Init /\ [][Next]_vars

(* Threads and processes run; requests are answered.                       *)
Fairness ==
    /\ WF_vars(Main) /\ WF_vars(Monitor) /\ WF_vars(RpcServe) /\ WF_vars(Respond)
    /\ WF_vars(Expire) /\ \A c \in Comps : WF_vars(Thread(c))

FairSpec == Spec /\ Fairness

-----------------------------------------------------------------------------
InHand(c, b) ==
    \/ Contains(block_queue[c], b) \/ cur[c] = b
    \/ Contains(queue, b) \/ hand = b

(* The last block on disk never hides one that was not processed: every    *)
(* block of its chain has been, in this life of the tower or an earlier    *)
(* one, since the tower first had something to watch.                      *)
NoGap ==
    \A c \in Comps : last[c] # None => Chain(last[c]) \subseteq settled[c]

(* Once the ChainMonitor is active the best chain is processed or on its   *)
(* way to both components, the tip possibly not noticed yet.               *)
OnItsWay ==
    status = "ACTIVE" =>
        \A c \in Comps : at[c] # "start" =>
            \A b \in Chain(tip) \ settled[c] :
                InHand(c, b) \/ (b = tip /\ tip \notin last_tips)

(* No block is lost between the disk, the missed blocks and the            *)
(* ChainMonitor, whatever order they come in and wherever it crashes; and  *)
(* the state is of its type.                                               *)
NoBlockLost == TypeOK /\ NoGap /\ OnItsWay

(* While the tower catches up, the Responder has no block that the Watcher *)
(* has still to process: it might complete a tracker, or find a penalty    *)
(* confirmed, before the breach is known.                                  *)
WatcherLeads ==
    main \in {"feed", "join"} /\ at["responder"] = "work" =>
        cur["responder"] \in settled["watcher"]

(* A database is closed when all who use it are done.                      *)
ClosedIsQuiet ==
    main # "off" =>
        /\ "appointments" \notin open => ~handler /\ \A c \in Comps : at[c] = "ended"
        /\ "users" \notin open => expiry = "ended"

(* The bootstrap comes to an end, with no thread joined for ever, and so   *)
(* does the teardown.                                                      *)
Settles ==
    /\ main \in Bootstrap ~> main \in {"serving", "off"}
    /\ main \in Teardown ~> main = "off"
=============================================================================
