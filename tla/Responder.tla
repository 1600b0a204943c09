------------------------------ MODULE Responder ------------------------------
(***************************************************************************)
(* The Responder of src/teos/responder.py, the Carrier that talks to       *)
(* bitcoind for it (src/teos/carrier.py) and the trackers database.        *)
(*                                                                         *)
(* Two threads meet here: the watch thread (do_watch, one block after      *)
(* another) and the Watcher's side, of which at most one thread at a time  *)
(* is in handle_breach, since both of its callers hold the Watcher's lock. *)
(* The trackers are written under the Responder's lock, and bitcoind is    *)
(* asked, and handle_reorgs reads, without it.                             *)
(*                                                                         *)
(* A block is the chain that ends in it, as a hash commits to its past: a  *)
(* sequence of the penalties each block holds, with the number of reorgs   *)
(* before it, so that two branches differ.  Dispute transactions appear    *)
(* only as the answer that they are known or not.  The order of the lists  *)
(* of the code is never read: they are bags, how often each member is in.  *)
(***************************************************************************)
EXTENDS Integers, SequencesExt

CONSTANTS
    Uuids, Locators,
    LocatorOf, PenaltyOf, \* what the Watcher hands over with each uuid
    Txs,                  \* penalties
    OutdatedAt,           \* height at which the subscription of its user is outdated
    CONFIRMATIONS_BEFORE_RETRY, IRREVOCABLY_RESOLVED,
    MaxHeight, MaxReorgs, MaxRestarts, \* bounds
    None,
    Rare                  \* the rare events a run includes

ASSUME ResponderAssumption ==
    /\ Uuids \cap Locators = {}
    /\ LocatorOf \in [Uuids -> Locators] /\ PenaltyOf \in [Uuids -> Txs]
    /\ OutdatedAt \in [Uuids -> Nat]
    /\ CONFIRMATIONS_BEFORE_RETRY \in Nat /\ CONFIRMATIONS_BEFORE_RETRY > 1
    /\ IRREVOCABLY_RESOLVED \in Nat \ {0}
    /\ None \notin [penalty_txid : Txs, locator : Uuids \cup Locators]
    /\ MaxHeight \in Nat /\ MaxReorgs \in Nat /\ MaxRestarts \in Nat
    /\ None \notin {"sent", "mined", "rejected"}
    /\ Rare \subseteq {"outdated",    \* subscriptions run out
                      "untriggered", \* with appointments that are not triggered
                      "skip",        \* the ChainMonitor polls past a block
                      "late add",    \* a block with the penalty overtakes add_tracker
                      "again"}       \* the Watcher hands over what is tracked

VARIABLES
    chain,          \* bitcoind's best block
    mempool,
    block_queue,
    last,           \* last_known_block, also on disk
    block,          \* the block being processed
    pc,             \* the watch thread
    todo,           \* handle_reorgs: trackers it has still to look at
    trackers, tx_tracker_map, unconfirmed_txs, missed_confirmations,
    issued_receipts,
    dbr,            \* AppointmentsDBM, responder prefix
    handler,        \* the handle_breach of the Watcher's side
    reorgs, restarts,
    silent          \* history: blocks since each tracked penalty was sent or added

bitcoind == <<chain, mempool, reorgs>>
feed     == <<block_queue, last, restarts>>
watch    == <<block, pc, todo>>
memory   == <<trackers, tx_tracker_map, unconfirmed_txs, missed_confirmations>>
vars == <<bitcoind, feed, watch, memory, issued_receipts, dbr, handler, silent>>

Ids == Uuids \cup Locators
Tracker == [penalty_txid : Txs, locator : Ids]
Idle == [step |-> "idle"]

Tracked == {i \in Ids : trackers[i] # None}
TxOf(i) == trackers[i].penalty_txid

(* The trackers tx_tracker_map has for a penalty: with none, it is no key. *)
Listed(tx) == {i \in Ids : tx_tracker_map[tx][i] > 0}
Unconfirmed(tx) == unconfirmed_txs[tx] > 0

(* Where a block has a transaction: its height, or 0.                      *)
MinedAt(tx, b) ==
    IF \E h \in DOMAIN b : tx \in b[h].txs THEN CHOOSE h \in DOMAIN b : tx \in b[h].txs ELSE 0

Confirmations(tx) == IF MinedAt(tx, chain) = 0 THEN 0 ELSE Len(chain) - MinedAt(tx, chain) + 1

Chains == Seq([txs : SUBSET Txs, branch : 0..MaxReorgs])
IsChain(b) == b \in Chains /\ Len(b) <= MaxHeight

TypeOK ==
    /\ IsChain(chain) /\ IsChain(last) /\ IsChain(block)
    /\ block_queue \in Seq(Chains) /\ \A i \in DOMAIN block_queue : IsChain(block_queue[i])
    /\ mempool \subseteq Txs /\ reorgs \in 0..MaxReorgs /\ restarts \in 0..MaxRestarts
    /\ pc \in {"wait", "block", "reorg", "rebroadcast", "clear", "store", "dead"}
    /\ todo \subseteq Ids
    /\ trackers \in [Ids -> Tracker \cup {None}] /\ dbr \in [Ids -> Tracker \cup {None}]
    /\ tx_tracker_map \in [Txs -> [Ids -> Nat]] /\ unconfirmed_txs \in [Txs -> Nat]
    /\ missed_confirmations \in [Txs -> 0..CONFIRMATIONS_BEFORE_RETRY]
    /\ issued_receipts \in [Txs -> {None, "sent", "mined", "rejected"}]
    /\ handler \in {Idle} \cup [step : {"add", "store"}, u : Uuids, new : BOOLEAN]
    /\ silent \in [Txs -> Nat]

-----------------------------------------------------------------------------
(* bitcoind, and the ChainMonitor that hands its tips to the queue.        *)

NewBlock(txs, told) ==
    /\ Len(chain) < MaxHeight
    /\ chain' = Append(chain, [txs |-> txs, branch |-> reorgs])
    /\ mempool' = mempool \ txs
    /\ told \/ "skip" \in Rare
    /\ block_queue' = IF told THEN Append(block_queue, chain') ELSE block_queue
    /\ UNCHANGED <<reorgs, last, restarts, watch, memory, issued_receipts, dbr, handler, silent>>

(* The last block is replaced by two: its penalties may be in the second   *)
(* of them, back in the mempool or gone.  The poll sees the new tip.       *)
Reorg(txs, back) ==
    /\ Len(chain) \in 1..(MaxHeight - 1) /\ reorgs < MaxReorgs
    /\ LET gone == Last(chain).txs
       IN  /\ txs \subseteq mempool \cup gone /\ back \subseteq gone \ txs
           /\ mempool' = (mempool \ txs) \cup back
    /\ reorgs' = reorgs + 1
    /\ chain' = Front(chain) \o <<[txs |-> {}, branch |-> reorgs'], [txs |-> txs, branch |-> reorgs']>>
    /\ block_queue' = Append(block_queue, chain')
    /\ UNCHANGED <<last, restarts, watch, memory, issued_receipts, dbr, handler, silent>>

Evict(tx) ==
    /\ tx \in mempool
    /\ mempool' = mempool \ {tx}
    /\ UNCHANGED <<chain, reorgs, feed, watch, memory, issued_receipts, dbr, handler, silent>>

-----------------------------------------------------------------------------
(* The Carrier.                                                            *)

(* The receipt bitcoind gives for a transaction.                           *)
Answer(tx, r) ==
    IF MinedAt(tx, chain) > 0 THEN r = "mined"
    ELSE r = "sent" \/ (r = "rejected" /\ tx \notin mempool)

(* send_transaction for each of S: a receipt that was issued since the     *)
(* last block is given again, and nothing is sent.                         *)
SendAll(S) ==
    /\ \E r \in [S -> {"sent", "mined", "rejected"}] :
          /\ \A tx \in S : IF issued_receipts[tx] # None THEN r[tx] = issued_receipts[tx] ELSE Answer(tx, r[tx])
          /\ mempool' = mempool \cup {tx \in S : issued_receipts[tx] = None /\ r[tx] = "sent"}
          /\ issued_receipts' = [tx \in Txs |-> IF tx \in S THEN r[tx] ELSE issued_receipts[tx]]
    /\ silent' = [tx \in Txs |-> IF tx \in S /\ issued_receipts[tx] = None THEN 0 ELSE silent[tx]]

-----------------------------------------------------------------------------
(* handle_breach, called by the Watcher.  It does not look whether the     *)
(* appointment is tracked: it may be after a crash between add_tracker and *)
(* the Watcher's flag, or if an update of it was triggered from the cache  *)
(* before the watch thread came to its breach.                             *)

(* The block up to which the trackers have been examined.                  *)
Examined == IF pc \in {"rebroadcast", "clear", "store"} THEN block ELSE last

HandleBreach(u) ==
    /\ handler = Idle /\ (u \notin Tracked \/ "again" \in Rare)
    /\ SendAll({PenaltyOf[u]})
    /\ LET r == issued_receipts'[PenaltyOf[u]]
       IN  /\ r = "sent" => MinedAt(PenaltyOf[u], Examined) = 0 \/ "late add" \in Rare
           /\ handler' = IF r = "rejected" THEN Idle ELSE [step |-> "add", u |-> u, new |-> r = "sent"]
    /\ UNCHANGED <<chain, reorgs, feed, watch, memory, dbr>>

WatchLock == pc = "rebroadcast"
ApiLock == handler.step = "store"

(* The memory part of add_tracker.                                         *)
Add(i, t, new) ==
    /\ trackers' = [trackers EXCEPT ![i] = t]
    /\ tx_tracker_map' = [tx_tracker_map EXCEPT ![t.penalty_txid][i] = @ + 1]
    /\ unconfirmed_txs' = IF new /\ ~Unconfirmed(t.penalty_txid)
                          THEN [unconfirmed_txs EXCEPT ![t.penalty_txid] = 1] ELSE unconfirmed_txs
    /\ UNCHANGED missed_confirmations

TrackerOf(u) == [penalty_txid |-> PenaltyOf[u], locator |-> LocatorOf[u]]

AddTracker ==
    /\ handler.step = "add" /\ ~WatchLock
    /\ Add(handler.u, TrackerOf(handler.u), handler.new)
    /\ handler' = [handler EXCEPT !.step = "store"]
    /\ UNCHANGED <<bitcoind, feed, watch, issued_receipts, dbr, silent>>

(* Fault: the tracker is kept in memory only.                              *)
StoreNothing ==
    /\ handler.step = "store"
    /\ handler' = Idle
    /\ UNCHANGED <<bitcoind, feed, watch, memory, issued_receipts, dbr, silent>>

StoreTracker ==
    /\ handler.step = "store"
    /\ dbr' = [dbr EXCEPT ![handler.u] = TrackerOf(handler.u)]
    /\ handler' = Idle
    /\ UNCHANGED <<bitcoind, feed, watch, memory, issued_receipts, silent>>

-----------------------------------------------------------------------------
(* The watch thread.                                                       *)

(* A block that holds the penalty of a tracker still to be added.          *)
Overtakes(b) ==
    /\ handler # Idle /\ handler.new
    /\ PenaltyOf[handler.u] \in Last(b).txs

GetBlock ==
    /\ pc = "wait" /\ block_queue # <<>>
    /\ Overtakes(Head(block_queue)) => "late add" \in Rare
    /\ block' = Head(block_queue) /\ block_queue' = Tail(block_queue)
    /\ IF Tracked = {} THEN pc' = "store" /\ UNCHANGED todo
       ELSE IF last = Front(block') THEN pc' = "block" /\ UNCHANGED todo
       ELSE pc' = "reorg" /\ todo' = Tracked
    /\ UNCHANGED <<bitcoind, last, restarts, memory, issued_receipts, dbr, handler, silent>>

get_completed_trackers ==
    {i \in Tracked : /\ ~Unconfirmed(TxOf(i))
                     /\ Confirmations(TxOf(i)) >= IRREVOCABLY_RESOLVED}

(* Gatekeeper.get_outdated_appointments.                                   *)
OutdatedAppointments ==
    {u \in Uuids : /\ "outdated" \in Rare /\ OutdatedAt[u] = Len(block)
                   /\ trackers[u] # None \/ "untriggered" \in Rare}

(* Fault: penalties that went through are not spared.                      *)
OutdatedAnyway == OutdatedAppointments

get_outdated_trackers == {u \in OutdatedAppointments : Unconfirmed(TxOf(u))}

(* Fault: what is confirmed is not taken off.                              *)
CheckNothing(txs) ==
    /\ UNCHANGED unconfirmed_txs
    /\ missed_confirmations' = [tx \in Txs |-> missed_confirmations[tx] + unconfirmed_txs[tx]]

(* One entry of what is confirmed is taken off; each that is left misses a *)
(* confirmation.                                                           *)
check_confirmations(txs) ==
    /\ unconfirmed_txs' =
          [tx \in Txs |-> IF tx \in txs /\ Listed(tx) # {} /\ Unconfirmed(tx)
                          THEN unconfirmed_txs[tx] - 1 ELSE unconfirmed_txs[tx]]
    /\ missed_confirmations' = [tx \in Txs |-> missed_confirmations[tx] + unconfirmed_txs'[tx]]

(* Fault: the map keeps them.                                              *)
DeleteUnmapped(S) ==
    /\ trackers' = [i \in Ids |-> IF i \in S THEN None ELSE trackers[i]]
    /\ UNCHANGED tx_tracker_map
    /\ dbr' = [i \in Ids |-> IF i \in S THEN None ELSE dbr[i]]

(* Cleaner.delete_trackers: one entry of each, the last one with its key.  *)
delete_trackers(S) ==
    /\ trackers' = [i \in Ids |-> IF i \in S THEN None ELSE trackers[i]]
    /\ tx_tracker_map' =
          [tx \in Txs |-> [i \in Ids |-> IF i \in S /\ TxOf(i) = tx
                                         THEN tx_tracker_map[tx][i] - 1 ELSE tx_tracker_map[tx][i]]]
    /\ dbr' = [i \in Ids |-> IF i \in S THEN None ELSE dbr[i]]

(* Under the lock: what is completed and what is outdated, as the last     *)
(* block left it, then the confirmations of this one, then the deletions.  *)
(* An outdated appointment that is no tracker raises, and the thread ends. *)
Examine ==
    /\ pc = "block" /\ ~ApiLock
    /\ Overtakes(block) => "late add" \in Rare
    /\ IF OutdatedAppointments \subseteq Tracked
       THEN /\ check_confirmations(Last(block).txs)
            /\ delete_trackers(get_completed_trackers \cup get_outdated_trackers)
            /\ silent' = [tx \in Txs |-> IF Listed(tx) # {} THEN silent[tx] + 1 ELSE 0]
            /\ pc' = "rebroadcast"
       ELSE pc' = "dead" /\ UNCHANGED <<memory, dbr, silent>>
    /\ UNCHANGED <<bitcoind, feed, block, todo, issued_receipts, handler>>

(* Fault: one block more is waited for.                                    *)
RebroadcastLate == {tx \in Txs : missed_confirmations[tx] > CONFIRMATIONS_BEFORE_RETRY}

get_txs_to_rebroadcast == {tx \in Txs : missed_confirmations[tx] >= CONFIRMATIONS_BEFORE_RETRY}

(* Still under the lock.  A penalty with no trackers in the map, or a      *)
(* tracker that is not in the database, raises.                            *)
Rebroadcast ==
    /\ pc = "rebroadcast"
    /\ LET S == get_txs_to_rebroadcast
       IN  IF \E tx \in S : Listed(tx) = {} \/ \E i \in Listed(tx) : dbr[i] = None
           THEN pc' = "dead" /\ UNCHANGED <<mempool, issued_receipts, missed_confirmations, silent>>
           ELSE /\ SendAll(S)
                /\ missed_confirmations' = [tx \in Txs |-> IF tx \in S THEN 0 ELSE missed_confirmations[tx]]
                /\ pc' = "clear"
    /\ UNCHANGED <<chain, reorgs, feed, block, todo, trackers, tx_tracker_map, unconfirmed_txs, dbr, handler>>

(* handle_reorgs, one tracker: the penalty is on the chain, in the mempool *)
(* or missing.  In the last case the tracker is reset, unless the dispute  *)
(* is missing too, with uuid and locator in each other's place.            *)
HandleReorg(i) ==
    /\ pc = "reorg" /\ i \in todo
    /\ todo' = todo \ {i}
    /\ LET tx == dbr[i].penalty_txid
       IN  \/ /\ dbr[i] = None /\ pc' = "dead"
              /\ UNCHANGED <<mempool, memory, issued_receipts, dbr, silent>>
           \/ /\ dbr[i] # None /\ tx \in mempool /\ ~ApiLock
              /\ unconfirmed_txs' = [unconfirmed_txs EXCEPT ![tx] = @ + 1]
              /\ UNCHANGED <<mempool, pc, trackers, tx_tracker_map, missed_confirmations, issued_receipts, dbr, silent>>
           \/ /\ dbr[i] # None /\ tx \notin mempool
              /\ UNCHANGED <<mempool, pc, memory, issued_receipts, dbr, silent>>
           \/ /\ dbr[i] # None /\ tx \notin mempool /\ MinedAt(tx, chain) = 0 /\ ~ApiLock
              /\ SendAll({tx})
              /\ IF issued_receipts'[tx] = "rejected" THEN UNCHANGED <<memory, dbr>>
                 ELSE LET t == [penalty_txid |-> tx, locator |-> i]
                      IN  /\ Add(dbr[i].locator, t, issued_receipts'[tx] = "sent")
                          /\ dbr' = [dbr EXCEPT ![dbr[i].locator] = t]
              /\ UNCHANGED pc
    /\ UNCHANGED <<chain, reorgs, feed, block, handler>>

HandledReorg ==
    /\ pc = "reorg" /\ todo = {}
    /\ pc' = "clear"
    /\ UNCHANGED <<bitcoind, feed, block, todo, memory, issued_receipts, dbr, handler, silent>>

ClearReceipts ==
    /\ pc = "clear"
    /\ issued_receipts' = [tx \in Txs |-> None]
    /\ pc' = "store"
    /\ UNCHANGED <<bitcoind, feed, block, todo, memory, dbr, handler, silent>>

StoreLast ==
    /\ pc = "store"
    /\ last' = block /\ pc' = "wait"
    /\ UNCHANGED <<bitcoind, block_queue, restarts, block, todo, memory, issued_receipts, dbr, handler, silent>>

-----------------------------------------------------------------------------
(* Builder.build_trackers.                                                 *)
build_tx_tracker_map ==
    [tx \in Txs |-> [i \in Ids |-> IF dbr[i] # None /\ dbr[i].penalty_txid = tx THEN 1 ELSE 0]]

Min2(a, b) == IF a < b THEN a ELSE b

(* What is not on the branch of last, from where it leaves the best chain. *)
MissedBlocks ==
    LET a == CHOOSE n \in 0..Min2(Len(last), Len(chain)) :
                /\ SubSeq(last, 1, n) = SubSeq(chain, 1, n)
                /\ n = Min2(Len(last), Len(chain)) \/ last[n + 1] # chain[n + 1]
    IN  [n \in 1..(Len(chain) - a) |-> SubSeq(chain, 1, a + n)]

(* Crash and bootstrap, with an appointment or a tracker on disk.  The     *)
(* trackers come back from the database, the confirmations they wait for   *)
(* do not, and the blocks that were missed come first.                     *)
Restart ==
    /\ restarts < MaxRestarts
    /\ restarts' = restarts + 1
    /\ trackers' = dbr /\ tx_tracker_map' = build_tx_tracker_map
    /\ unconfirmed_txs' = [tx \in Txs |-> 0] /\ missed_confirmations' = [tx \in Txs |-> 0]
    /\ issued_receipts' = [tx \in Txs |-> None]
    /\ block_queue' = MissedBlocks
    /\ pc' = "wait" /\ todo' = {} /\ handler' = Idle
    /\ UNCHANGED <<bitcoind, last, block, dbr, silent>>

-----------------------------------------------------------------------------
Init ==
    /\ chain = <<>> /\ mempool = {} /\ reorgs = 0
    /\ block_queue = <<>> /\ last = chain /\ restarts = 0
    /\ block = chain /\ pc = "wait" /\ todo = {}
    /\ trackers = [i \in Ids |-> None] /\ dbr = trackers
    /\ tx_tracker_map = [tx \in Txs |-> [i \in Ids |-> 0]]
    /\ unconfirmed_txs = [tx \in Txs |-> 0] /\ missed_confirmations = [tx \in Txs |-> 0]
    /\ issued_receipts = [tx \in Txs |-> None]
    /\ handler = Idle /\ silent = [tx \in Txs |-> 0]

WatchThread ==
    \/ GetBlock \/ Rebroadcast \/ ClearReceipts \/ StoreLast
    \/ (\E i \in Ids : HandleReorg(i)) \/ HandledReorg

Next ==
    \/ \E txs \in SUBSET mempool, told \in BOOLEAN : NewBlock(txs, told)
    \/ \E txs, back \in SUBSET Txs : Reorg(txs, back)
    \/ \E tx \in Txs : Evict(tx)
    \/ \E u \in Uuids : HandleBreach(u)
    \/ AddTracker \/ StoreTracker
    \/ WatchThread \/ Examine
    \/ Restart

Spec == Init /\ [][Next]_vars

(* Threads that can run do; a lock that is free again and again is taken.  *)
Fairness ==
    /\ WF_vars(WatchThread) /\ SF_vars(Examine)
    /\ SF_vars(AddTracker) /\ WF_vars(StoreTracker)

FairSpec == Spec /\ Fairness

-----------------------------------------------------------------------------
(* The watch thread is in no state that an exception leaves, and the state *)
(* of the Responder is of its type.                                        *)
NeverDies == pc # "dead" /\ TypeOK

(* Every tracker is in tx_tracker_map under its penalty, where             *)
(* delete_trackers looks for it.                                           *)
TrackersAreListed == \A i \in Tracked : tx_tracker_map[TxOf(i)][i] > 0

(* Whatever the order of additions and deletions, and over restarts or a   *)
(* reorg, tx_tracker_map lists the trackers of each penalty, each of them  *)
(* once.  (Some are listed twice, and once more after they are deleted, if *)
(* the Watcher hands over again what is tracked, and if a tracker is reset *)
(* where one is already: by a second reorg, after a restart that makes the *)
(* tower see the reorg again, or when two users of one channel are reset.) *)
MapIsIndex ==
    /\ TrackersAreListed
    /\ reorgs = 0 \/ (reorgs = 1 /\ restarts = 0 /\ IsInjective(LocatorOf)) =>
          \A tx \in Txs, i \in Ids :
              tx_tracker_map[tx][i] = IF trackers[i] # None /\ TxOf(i) = tx THEN 1 ELSE 0

(* What is not confirmed is on the list of the unconfirmed: no penalty on  *)
(* it has been seen in an examined block.                                  *)
UnconfirmedAreUnconfirmed ==
    \A tx \in Txs : Unconfirmed(tx) => MinedAt(tx, Examined) = 0

(* Two appointments have the same penalty.                                 *)
Shared(tx) == \E u, v \in Uuids : u # v /\ PenaltyOf[u] = tx /\ PenaltyOf[v] = tx

(* The tower keeps trying: while a tracked penalty is not on the chain, no *)
(* more than CONFIRMATIONS_BEFORE_RETRY blocks go by without it being sent *)
(* again, whatever is evicted or rejected.  A shared penalty may wait for  *)
(* one block more: its turn to be sent again came in the block in which a  *)
(* second breach had sent it, and the receipt of that was given again.     *)
ResentInTime ==
    \A i \in Tracked :
        MinedAt(TxOf(i), chain) = 0 =>
            silent[TxOf(i)] <= CONFIRMATIONS_BEFORE_RETRY + (IF Shared(TxOf(i)) THEN 1 ELSE 0)

Gone == IF restarts' = restarts THEN {i \in Tracked : trackers'[i] = None} ELSE {}

(* While the chain only grows, a tracker is deleted when its penalty is    *)
(* buried, or because it is not on the chain of the blocks examined so     *)
(* far: an old confirmation is never thrown away for an outdated           *)
(* subscription.  (Not so when subscriptions of one penalty run out at two *)
(* heights: what the first deletion leaves on the list of the unconfirmed  *)
(* stays there, and counts as such when the second runs out.)              *)
DeletedAreDone ==
    [][reorgs = 0 => \A i \in Gone : \/ Confirmations(TxOf(i)) >= IRREVOCABLY_RESOLVED
                                     \/ MinedAt(TxOf(i), Front(block)) = 0]_vars

(* A tracker whose penalty is buried is completed as blocks come.          *)
BuriedAreCompleted ==
    \A u \in Uuids :
        (trackers[u] # None /\ Confirmations(PenaltyOf[u]) >= IRREVOCABLY_RESOLVED /\ block_queue # <<>>)
            ~> trackers[u] = None
=============================================================================
