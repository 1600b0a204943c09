--------------------------- MODULE ResponderProofs ---------------------------
(***************************************************************************)
(* What the Responder promises while the chain only grows: that its thread *)
(* lives, that memory, index and disk agree, over one reorg too, that what *)
(* is not confirmed is on the list and nothing else is, and that penalties *)
(* are sent again in time.  For any appointments, heights and restarts.    *)
(*                                                                         *)
(* The invariants are layers, each proved with the help of the ones before *)
(* it: the order of the blocks, memory and disk, the list, the thread, and *)
(* the penalties that wait.                                                *)
(***************************************************************************)
EXTENDS Responder, SequenceTheorems, TLAPS

(* No block is left out by the poll.                                       *)
EveryBlock == "skip" \notin Rare

(* The Watcher hands over no appointment while it is tracked.              *)
EachOnce == "again" \notin Rare

(* The subscriptions that a run sees run out of one penalty do so at once. *)
RunOutTogether ==
    \A u, v \in Uuids : /\ PenaltyOf[u] = PenaltyOf[v]
                        /\ OutdatedAt[u] <= MaxHeight /\ OutdatedAt[v] <= MaxHeight
                        => OutdatedAt[u] = OutdatedAt[v]

-----------------------------------------------------------------------------
(* Blocks in order.                                                        *)

(* The block taken last, and all the thread takes next.                    *)
Taken == IF pc = "wait" THEN last ELSE block

BlockTypes ==
    /\ chain \in Chains /\ last \in Chains /\ block \in Chains /\ block_queue \in Seq(Chains)
    /\ pc \in {"wait", "block", "rebroadcast", "clear", "store", "dead"}
    /\ Len(chain) <= MaxHeight /\ Len(block) <= MaxHeight /\ restarts \in 0..MaxRestarts
    /\ mempool \subseteq Txs /\ todo \subseteq Ids

BlocksInOrder ==
    /\ Len(Taken) <= Len(chain) /\ Taken = SubSeq(chain, 1, Len(Taken))
    /\ Len(block_queue) = Len(chain) - Len(Taken)
    /\ \A n \in 1..Len(block_queue) : block_queue[n] = SubSeq(chain, 1, Len(Taken) + n)
    /\ pc # "wait" => Len(block) > 0 /\ last = SubSeq(chain, 1, Len(block) - 1)

OrderInv == EveryBlock /\ reorgs \in 0..MaxReorgs /\ (reorgs = 0 => BlockTypes /\ BlocksInOrder)

-----------------------------------------------------------------------------
(* Memory and disk.                                                        *)

MemoryTypes ==
    /\ trackers \in [Ids -> Tracker \cup {None}] /\ dbr \in [Ids -> Tracker \cup {None}]
    /\ tx_tracker_map \in [Txs -> [Ids -> Nat]] /\ unconfirmed_txs \in [Txs -> 0..1]
    /\ missed_confirmations \in [Txs -> Nat]
    /\ issued_receipts \in [Txs -> {None, "sent", "mined", "rejected"}]
    /\ handler \in {Idle} \cup [step : {"add", "store"}, u : Uuids, new : BOOLEAN]
    /\ silent \in [Txs -> Nat]

(* Trackers are what the Watcher handed over, and on disk what they are in *)
(* memory, but for the one that is about to be stored.                     *)
OnDisk ==
    /\ \A i \in Ids : dbr[i] # None => i \in Uuids /\ dbr[i] = TrackerOf(i)
    /\ \A i \in Ids : trackers[i] # dbr[i] => handler.step = "store" /\ i = handler.u
    /\ handler.step = "store" => trackers[handler.u] = TrackerOf(handler.u)
    /\ handler.step = "add" => trackers[handler.u] = None
    /\ pc = "rebroadcast" => handler.step # "store"

Index ==
    \A tx \in Txs, i \in Ids :
        tx_tracker_map[tx][i] = IF trackers[i] # None /\ TxOf(i) = tx THEN 1 ELSE 0

MemoryInv == EachOnce /\ (reorgs = 0 => MemoryTypes /\ OnDisk /\ Index)

-----------------------------------------------------------------------------
(* The list of the unconfirmed.                                            *)

HasTracker(tx) == \E i \in Tracked : TxOf(i) = tx

(* The height at which subscriptions have been seen to run out.            *)
Reached == IF pc \in {"wait", "block"} THEN Len(last) ELSE Len(block)

RanOut(tx) ==
    "outdated" \in Rare /\ \E u \in Uuids : PenaltyOf[u] = tx /\ OutdatedAt[u] <= Reached

ListedAreTracked == \A tx \in Txs : Unconfirmed(tx) => HasTracker(tx) \/ RanOut(tx)

ListedAreUnmined ==
    "late add" \notin Rare =>
        /\ \A tx \in Txs : Unconfirmed(tx) => MinedAt(tx, Examined) = 0 \/ RanOut(tx)
        /\ handler.step = "add" /\ handler.new => MinedAt(PenaltyOf[handler.u], Examined) = 0

ListInv == reorgs = 0 => ListedAreTracked /\ ListedAreUnmined

-----------------------------------------------------------------------------
(* The thread lives.                                                       *)

Missing ==
    \A tx \in Txs : /\ missed_confirmations[tx] <= CONFIRMATIONS_BEFORE_RETRY
                    /\ missed_confirmations[tx] = CONFIRMATIONS_BEFORE_RETRY => pc = "rebroadcast" /\ Unconfirmed(tx)

AliveInv == reorgs = 0 => pc # "dead" /\ Missing

-----------------------------------------------------------------------------
(* The penalties that are not mined.                                       *)

(* A receipt of before the confirmations of this block were counted.       *)
Counted == IF pc \in {"rebroadcast", "clear"} THEN 1 ELSE 0

(* A receipt of another breach may have been given again.                  *)
Slack(tx) == IF Shared(tx) THEN 1 ELSE 0

Waiting(tx) ==
    /\ HasTracker(tx) => Unconfirmed(tx)
    /\ ~HasTracker(tx) => silent[tx] = 0 /\ missed_confirmations[tx] = 0
    /\ issued_receipts[tx] # "mined"
    /\ handler # Idle /\ PenaltyOf[handler.u] = tx => handler.new
    /\ issued_receipts[tx] # None => silent[tx] <= Counted
    /\ issued_receipts[tx] # None /\ ~Shared(tx) => missed_confirmations[tx] <= Counted
    /\ silent[tx] <= missed_confirmations[tx] + Slack(tx)

WaitInv ==
    reorgs = 0 /\ restarts = 0 => \A tx \in Txs : MinedAt(tx, chain) = 0 => Waiting(tx)

-----------------------------------------------------------------------------
(* Chains.                                                                 *)

LEMMA PrefixOf ==
    ASSUME NEW c \in Chains, NEW n \in 0..Len(c)
    PROVE  /\ SubSeq(c, 1, n) \in Chains /\ Len(SubSeq(c, 1, n)) = n
           /\ \A h \in 1..n : SubSeq(c, 1, n)[h] = c[h]
<1> DEFINE B == [txs : SUBSET Txs, branch : 0..MaxReorgs]
<1>1. c \in Seq(B) /\ Len(c) \in Nat /\ \A i \in 1..Len(c) : c[i] \in B
  BY ElementOfSeq, LenProperties DEF Chains
<1>2. \A i \in 1..n : c[i] \in B
  BY <1>1
<1> HIDE DEF B
<1>3. /\ SubSeq(c, 1, n) \in Seq(B) /\ Len(SubSeq(c, 1, n)) = IF 1 <= n THEN n - 1 + 1 ELSE 0
      /\ \A i \in 1..(n - 1 + 1) : SubSeq(c, 1, n)[i] = c[1 + i - 1]
  BY <1>1, <1>2, SubSeqProperties
<1>4. Len(SubSeq(c, 1, n)) = n
  BY <1>1, <1>3
<1>5. ASSUME NEW h \in 1..n
      PROVE  SubSeq(c, 1, n)[h] = c[h]
  <2>1. h \in 1..(n - 1 + 1) /\ 1 + h - 1 = h
    BY <1>1
  <2> QED BY <1>3, <2>1
<1> QED BY <1>3, <1>4, <1>5 DEF B, Chains

LEMMA SameChain ==
    ASSUME NEW a \in Chains, NEW b \in Chains, Len(a) = Len(b), \A h \in 1..Len(a) : a[h] = b[h]
    PROVE  a = b
BY SeqEqual DEF Chains

LEMMA FrontOfPrefix ==
    ASSUME NEW c \in Chains, NEW n \in 1..Len(c)
    PROVE  /\ Front(SubSeq(c, 1, n)) = SubSeq(c, 1, n - 1) /\ Last(SubSeq(c, 1, n)) = c[n]
           /\ SubSeq(c, 1, n) # <<>>
<1> DEFINE p == SubSeq(c, 1, n)
<1>1. Len(c) \in Nat
  BY LenProperties DEF Chains
<1>2. n \in 0..Len(c) /\ n - 1 \in 0..Len(c)
  BY <1>1
<1>3. p \in Chains /\ Len(p) = n /\ \A h \in 1..n : p[h] = c[h]
  BY <1>2, PrefixOf
<1>4. /\ SubSeq(c, 1, n - 1) \in Chains /\ Len(SubSeq(c, 1, n - 1)) = n - 1
      /\ \A h \in 1..(n - 1) : SubSeq(c, 1, n - 1)[h] = c[h]
  BY <1>2, PrefixOf
<1> HIDE DEF p
<1>5. n - 1 \in 0..Len(p)
  BY <1>1, <1>3
<1>6. /\ SubSeq(p, 1, n - 1) \in Chains /\ Len(SubSeq(p, 1, n - 1)) = n - 1
      /\ \A h \in 1..(n - 1) : SubSeq(p, 1, n - 1)[h] = p[h]
  BY <1>3, <1>5, PrefixOf
<1>7. \A h \in 1..(n - 1) : SubSeq(p, 1, n - 1)[h] = SubSeq(c, 1, n - 1)[h]
  BY <1>3, <1>4, <1>6
<1>8. SubSeq(p, 1, n - 1) = SubSeq(c, 1, n - 1)
  BY <1>4, <1>6, <1>7, SameChain
<1>9. p[n] = c[n] /\ p # <<>>
  BY <1>1, <1>3, EmptySeq
<1> QED BY <1>3, <1>8, <1>9 DEF p, Front, Last

LEMMA PrefixOfAppend ==
    ASSUME NEW c \in Chains, NEW b \in [txs : SUBSET Txs, branch : 0..MaxReorgs]
    PROVE  /\ Append(c, b) \in Chains /\ Len(Append(c, b)) = Len(c) + 1
           /\ \A n \in 0..Len(c) : SubSeq(Append(c, b), 1, n) = SubSeq(c, 1, n)
           /\ SubSeq(Append(c, b), 1, Len(c) + 1) = Append(c, b)
<1> DEFINE d == Append(c, b)
<1>1. /\ d \in Chains /\ Len(d) = Len(c) + 1 /\ \A h \in 1..Len(c) : d[h] = c[h]
  BY AppendProperties DEF Chains
<1>2. Len(c) \in Nat
  BY LenProperties DEF Chains
<1> HIDE DEF d
<1>3. ASSUME NEW n \in 0..Len(c)
      PROVE  SubSeq(d, 1, n) = SubSeq(c, 1, n)
  <2>1. n \in 0..Len(d) /\ n \in Nat
    BY <1>1, <1>2
  <2>2. SubSeq(d, 1, n) \in Chains /\ Len(SubSeq(d, 1, n)) = n /\ \A h \in 1..n : SubSeq(d, 1, n)[h] = d[h]
    BY <1>1, <2>1, PrefixOf
  <2>3. SubSeq(c, 1, n) \in Chains /\ Len(SubSeq(c, 1, n)) = n /\ \A h \in 1..n : SubSeq(c, 1, n)[h] = c[h]
    BY PrefixOf
  <2>4. \A h \in 1..n : SubSeq(d, 1, n)[h] = SubSeq(c, 1, n)[h]
    BY <1>1, <1>2, <2>1, <2>2, <2>3
  <2> QED BY <2>2, <2>3, <2>4, SameChain
<1>4. SubSeq(d, 1, Len(d)) = d
  BY <1>1, SubSeqFull DEF Chains
<1> QED BY <1>1, <1>3, <1>4 DEF d

(* What is not in a chain is in no block of it.                            *)
LEMMA MinedIn ==
    ASSUME NEW tx, NEW c \in Chains
    PROVE  /\ MinedAt(tx, c) \in Nat
           /\ MinedAt(tx, c) = 0 <=> \A h \in 1..Len(c) : tx \notin c[h].txs
<1>1. DOMAIN c = 1..Len(c) /\ Len(c) \in Nat
  BY LenProperties DEF Chains
<1>2. CASE \E h \in DOMAIN c : tx \in c[h].txs
  <2>1. MinedAt(tx, c) = CHOOSE h \in DOMAIN c : tx \in c[h].txs
    BY <1>2 DEF MinedAt
  <2>2. MinedAt(tx, c) \in DOMAIN c
    BY <1>2, <2>1
  <2> QED BY <1>1, <1>2, <2>2
<1>3. CASE ~\E h \in DOMAIN c : tx \in c[h].txs
  BY <1>1, <1>3 DEF MinedAt
<1> QED BY <1>2, <1>3

LEMMA UnminedPrefix ==
    ASSUME NEW tx, NEW c \in Chains, NEW n \in 0..Len(c), NEW m \in 0..n,
           MinedAt(tx, SubSeq(c, 1, n)) = 0
    PROVE  MinedAt(tx, SubSeq(c, 1, m)) = 0
<1>1. Len(c) \in Nat /\ m \in 0..Len(c)
  BY LenProperties DEF Chains
<1>2. SubSeq(c, 1, n) \in Chains /\ Len(SubSeq(c, 1, n)) = n /\ \A h \in 1..n : SubSeq(c, 1, n)[h] = c[h]
  BY PrefixOf
<1>3. SubSeq(c, 1, m) \in Chains /\ Len(SubSeq(c, 1, m)) = m /\ \A h \in 1..m : SubSeq(c, 1, m)[h] = c[h]
  BY <1>1, PrefixOf
<1>4. \A h \in 1..n : tx \notin c[h].txs
  BY <1>2, MinedIn
<1>5. \A h \in 1..m : tx \notin SubSeq(c, 1, m)[h].txs
  BY <1>1, <1>3, <1>4
<1> QED BY <1>3, <1>5, MinedIn

LEMMA UnminedNext ==
    ASSUME NEW tx, NEW c \in Chains, NEW n \in 1..Len(c),
           MinedAt(tx, SubSeq(c, 1, n - 1)) = 0, tx \notin c[n].txs
    PROVE  MinedAt(tx, SubSeq(c, 1, n)) = 0
<1>1. Len(c) \in Nat /\ n \in 0..Len(c) /\ n - 1 \in 0..Len(c)
  BY LenProperties DEF Chains
<1>2. SubSeq(c, 1, n) \in Chains /\ Len(SubSeq(c, 1, n)) = n /\ \A h \in 1..n : SubSeq(c, 1, n)[h] = c[h]
  BY <1>1, PrefixOf
<1>3. /\ SubSeq(c, 1, n - 1) \in Chains /\ Len(SubSeq(c, 1, n - 1)) = n - 1
      /\ \A h \in 1..(n - 1) : SubSeq(c, 1, n - 1)[h] = c[h]
  BY <1>1, PrefixOf
<1>4. \A h \in 1..(n - 1) : tx \notin SubSeq(c, 1, n - 1)[h].txs
  BY <1>3, MinedIn
<1>5. \A h \in 1..n : tx \notin SubSeq(c, 1, n)[h].txs
  <2> TAKE h \in 1..n
  <2>1. CASE h = n
    BY <1>2, <2>1
  <2>2. CASE h # n
    <3>1. h \in 1..(n - 1)
      BY <1>1, <2>2
    <3> QED BY <1>2, <1>3, <1>4, <3>1
  <2> QED BY <2>1, <2>2
<1> QED BY <1>2, <1>5, MinedIn

-----------------------------------------------------------------------------
(* The order of the blocks.                                                *)

LEMMA Assumed ==
    /\ \A u \in Uuids : PenaltyOf[u] \in Txs /\ LocatorOf[u] \in Locators /\ OutdatedAt[u] \in Nat
    /\ CONFIRMATIONS_BEFORE_RETRY \in Nat /\ CONFIRMATIONS_BEFORE_RETRY > 1
    /\ IRREVOCABLY_RESOLVED \in Nat /\ IRREVOCABLY_RESOLVED > 0
    /\ MaxHeight \in Nat /\ MaxReorgs \in Nat /\ MaxRestarts \in Nat
    /\ None \notin Tracker /\ None \notin {"sent", "mined", "rejected"}
<1>1. /\ LocatorOf \in [Uuids -> Locators] /\ PenaltyOf \in [Uuids -> Txs] /\ OutdatedAt \in [Uuids -> Nat]
      /\ CONFIRMATIONS_BEFORE_RETRY \in Nat /\ CONFIRMATIONS_BEFORE_RETRY > 1
      /\ MaxHeight \in Nat /\ MaxReorgs \in Nat /\ MaxRestarts \in Nat
  BY ResponderAssumption, Zenon DEF ResponderAssumption
<1>4. None \notin {"sent", "mined", "rejected"}
  BY ResponderAssumption, Zenon DEF ResponderAssumption
<1>2. IRREVOCABLY_RESOLVED \in Nat /\ IRREVOCABLY_RESOLVED > 0
  <2>1. IRREVOCABLY_RESOLVED \in Nat \ {0}
    BY ResponderAssumption, Zenon DEF ResponderAssumption
  <2> QED BY <2>1
<1>3. None \notin Tracker
  BY ResponderAssumption DEF ResponderAssumption, Tracker, Ids
<1> QED BY <1>1, <1>2, <1>3, <1>4

(* Where the blocks are, for what comes after.                             *)
LEMMA TakenIsPrefix ==
    ASSUME BlockTypes, BlocksInOrder
    PROVE  /\ Taken \in Chains /\ Len(Taken) \in 0..Len(chain) /\ Len(chain) \in Nat
           /\ last \in Chains /\ Len(last) \in 0..Len(chain) /\ last = SubSeq(chain, 1, Len(last))
           /\ pc # "wait" => /\ Len(block) \in 1..Len(chain) /\ block = SubSeq(chain, 1, Len(block))
                             /\ Len(block) - 1 \in 0..Len(chain)
                             /\ Len(last) = Len(block) - 1
                             /\ last = Front(block) /\ Last(block) = chain[Len(block)]
<1>1. Len(chain) \in Nat /\ Len(last) \in Nat /\ Len(block) \in Nat /\ chain \in Chains
  BY LenProperties DEF BlockTypes, Chains
<1>2. CASE pc = "wait"
  BY <1>1, <1>2 DEF BlockTypes, BlocksInOrder, Taken
<1>3. CASE pc # "wait"
  <2>1. /\ Taken = block /\ Len(block) \in 1..Len(chain) /\ block = SubSeq(chain, 1, Len(block))
        /\ last = SubSeq(chain, 1, Len(block) - 1) /\ block \in Chains /\ last \in Chains
    BY <1>1, <1>3 DEF BlockTypes, BlocksInOrder, Taken
  <2>2. Len(block) - 1 \in 0..Len(chain)
    BY <1>1, <2>1
  <2>3. Len(last) = Len(block) - 1
    BY <1>1, <2>1, <2>2, PrefixOf
  <2>4. Front(block) = last /\ Last(block) = chain[Len(block)]
    BY <1>1, <2>1, FrontOfPrefix
  <2> QED BY <1>1, <2>1, <2>2, <2>3, <2>4
<1> QED BY <1>2, <1>3

(* Steps that move no block, and the thread past none.                     *)
NoBlockMoves ==
    /\ UNCHANGED <<chain, last, block, block_queue, reorgs, restarts>>
    /\ mempool' \subseteq Txs /\ todo' \subseteq Ids
    /\ pc' # pc => pc # "wait" /\ pc' \in {"rebroadcast", "clear", "store", "dead"}

LEMMA SendAllTypes ==
    ASSUME NEW S \in SUBSET Txs, SendAll(S), mempool \subseteq Txs
    PROVE  mempool' \subseteq Txs
BY DEF SendAll

LEMMA NoBlockMovesBy ==
    ASSUME BlockTypes,
           \/ \E tx \in Txs : Evict(tx)
           \/ \E u \in Uuids : HandleBreach(u)
           \/ AddTracker \/ StoreTracker \/ Examine \/ Rebroadcast \/ ClearReceipts
           \/ UNCHANGED vars
    PROVE  NoBlockMoves
<1> USE DEF bitcoind, feed, watch, memory, BlockTypes, NoBlockMoves
<1>1. CASE \E tx \in Txs : Evict(tx)
  BY <1>1 DEF Evict
<1>2. ASSUME NEW u \in Uuids, HandleBreach(u)
      PROVE  NoBlockMoves
  <2>1. {PenaltyOf[u]} \in SUBSET Txs
    BY Assumed
  <2>2. mempool' \subseteq Txs
    BY <1>2, <2>1, SendAllTypes DEF HandleBreach
  <2> QED BY <1>2, <2>2 DEF HandleBreach
<1>3. CASE AddTracker
  BY <1>3 DEF AddTracker
<1>4. CASE StoreTracker
  BY <1>4 DEF StoreTracker
<1>5. CASE Examine
  BY <1>5 DEF Examine
<1>6. CASE Rebroadcast
  <2>1. mempool' \subseteq Txs
    <3>1. CASE UNCHANGED mempool
      BY <3>1
    <3>2. CASE SendAll(get_txs_to_rebroadcast)
      <4>1. get_txs_to_rebroadcast \in SUBSET Txs
        BY DEF get_txs_to_rebroadcast
      <4> QED BY <3>2, <4>1, SendAllTypes
    <3> QED BY <1>6, <3>1, <3>2 DEF Rebroadcast
  <2> QED BY <1>6, <2>1 DEF Rebroadcast
<1>7. CASE ClearReceipts
  BY <1>7 DEF ClearReceipts
<1>8. CASE UNCHANGED vars
  BY <1>8 DEF vars
<1> QED BY <1>1, <1>2, <1>3, <1>4, <1>5, <1>6, <1>7, <1>8

LEMMA OrderQuiet ==
    ASSUME BlockTypes, BlocksInOrder, NoBlockMoves
    PROVE  BlockTypes' /\ BlocksInOrder'
<1>1. BlockTypes'
  BY DEF BlockTypes, NoBlockMoves
<1>2. Taken' = Taken /\ (pc' # "wait" => pc # "wait")
  BY DEF Taken, NoBlockMoves
<1> QED BY <1>1, <1>2 DEF BlocksInOrder, NoBlockMoves

LEMMA OrderNewBlock ==
    ASSUME BlockTypes, BlocksInOrder, EveryBlock, reorgs \in 0..MaxReorgs,
           NEW txs \in SUBSET mempool, NEW told \in BOOLEAN, NewBlock(txs, told)
    PROVE  BlockTypes' /\ BlocksInOrder'
<1> DEFINE b == [txs |-> txs, branch |-> reorgs]
<1>1. chain \in Chains /\ b \in [txs : SUBSET Txs, branch : 0..MaxReorgs]
  BY DEF BlockTypes
<1>2. chain' = Append(chain, b) /\ block_queue' = Append(block_queue, chain')
  BY DEF NewBlock, EveryBlock
<1> HIDE DEF b
<1>3. /\ chain' \in Chains /\ Len(chain') = Len(chain) + 1
      /\ \A n \in 0..Len(chain) : SubSeq(chain', 1, n) = SubSeq(chain, 1, n)
      /\ SubSeq(chain', 1, Len(chain) + 1) = chain'
  BY <1>1, <1>2, PrefixOfAppend
<1>4. block_queue \in Seq(Chains) /\ Len(block_queue) \in Nat
  BY LenProperties DEF BlockTypes
<1>5. /\ block_queue' \in Seq(Chains) /\ Len(block_queue') = Len(block_queue) + 1
      /\ \A n \in 1..Len(block_queue) : block_queue'[n] = block_queue[n]
      /\ block_queue'[Len(block_queue) + 1] = chain'
  BY <1>2, <1>3, <1>4, AppendProperties
<1>6. UNCHANGED <<last, block, pc, restarts, todo>> /\ Len(chain) < MaxHeight /\ mempool' \subseteq mempool
  BY DEF NewBlock, watch
<1>7. Len(chain) \in Nat /\ MaxHeight \in Nat
  BY Assumed, LenProperties, <1>1 DEF Chains
<1>8. BlockTypes'
  BY <1>3, <1>5, <1>6, <1>7 DEF BlockTypes
<1>9. Taken' = Taken /\ Len(Taken) \in 0..Len(chain)
  BY <1>6, TakenIsPrefix DEF Taken
<1>10. Taken' = SubSeq(chain', 1, Len(Taken')) /\ Len(Taken') <= Len(chain')
  BY <1>3, <1>7, <1>9 DEF BlocksInOrder
<1>11. Len(block_queue') = Len(chain') - Len(Taken')
  BY <1>3, <1>5, <1>7, <1>9 DEF BlocksInOrder
<1>12. ASSUME NEW n \in 1..Len(block_queue')
       PROVE  block_queue'[n] = SubSeq(chain', 1, Len(Taken') + n)
  <2>1. CASE n = Len(block_queue) + 1
    <3>1. Len(Taken') + n = Len(chain) + 1
      BY <1>4, <1>7, <1>9, <2>1 DEF BlocksInOrder
    <3> QED BY <1>3, <1>5, <2>1, <3>1
  <2>2. CASE n # Len(block_queue) + 1
    <3>1. n \in 1..Len(block_queue)
      BY <1>4, <1>5, <2>2
    <3>2. Len(Taken) + n \in 0..Len(chain)
      BY <1>4, <1>7, <1>9, <3>1 DEF BlocksInOrder
    <3> QED BY <1>3, <1>5, <1>9, <3>1, <3>2 DEF BlocksInOrder
  <2> QED BY <2>1, <2>2
<1>13. pc' # "wait" => Len(block') > 0 /\ last' = SubSeq(chain', 1, Len(block') - 1)
  <2> SUFFICES ASSUME pc # "wait"
               PROVE  Len(block) > 0 /\ last = SubSeq(chain', 1, Len(block) - 1)
    BY <1>6
  <2>1. Len(block) - 1 \in 0..Len(chain)
    BY TakenIsPrefix
  <2> QED BY <1>3, <2>1 DEF BlocksInOrder
<1> QED BY <1>8, <1>10, <1>11, <1>12, <1>13 DEF BlocksInOrder

LEMMA OrderGetBlock ==
    ASSUME BlockTypes, BlocksInOrder, GetBlock
    PROVE  /\ BlockTypes' /\ BlocksInOrder'
           /\ block' = SubSeq(chain, 1, Len(last) + 1) /\ Len(block') = Len(last) + 1
           /\ Len(last) + 1 \in 1..Len(chain) /\ last = Front(block')
           /\ pc' = IF Tracked = {} THEN "store" ELSE "block"
<1>1. /\ pc = "wait" /\ block_queue # <<>> /\ block' = Head(block_queue) /\ block_queue' = Tail(block_queue)
      /\ UNCHANGED <<chain, last, mempool, restarts>>
      /\ pc' \in {"store", "block", "reorg"} /\ (Tracked = {} => pc' = "store")
      /\ (Tracked # {} => pc' = IF last = Front(block') THEN "block" ELSE "reorg")
      /\ todo' \in {todo, Tracked}
  BY DEF GetBlock, bitcoind
<1>0. last = SubSeq(chain, 1, Len(last))
  BY TakenIsPrefix
<1>2. Len(last) \in 0..Len(chain) /\ Len(chain) \in Nat
  BY TakenIsPrefix
<1>3. /\ block_queue \in Seq(Chains) /\ Len(block_queue) \in Nat /\ Len(block_queue) # 0
      /\ Len(block_queue) = Len(chain) - Len(last)
      /\ \A n \in 1..Len(block_queue) : block_queue[n] = SubSeq(chain, 1, Len(last) + n)
  BY <1>1, LenProperties, EmptySeq DEF BlockTypes, BlocksInOrder, Taken
<1>4. /\ block_queue' \in Seq(Chains) /\ Len(block_queue') = Len(block_queue) - 1
      /\ \A n \in 1..Len(block_queue') : block_queue'[n] = block_queue[n + 1]
      /\ block' = block_queue[1] /\ block' \in Chains
  <2>1. Head(block_queue) = block_queue[1]
    BY <1>3
  <2>2. /\ Head(block_queue) \in Chains /\ Tail(block_queue) \in Seq(Chains)
        /\ Len(Tail(block_queue)) = Len(block_queue) - 1
        /\ \A n \in 1..Len(Tail(block_queue)) : Tail(block_queue)[n] = block_queue[n + 1]
    BY <1>1, <1>3, HeadTailProperties
  <2> QED BY <1>1, <2>1, <2>2
<1>5. block' = SubSeq(chain, 1, Len(last) + 1) /\ Len(last) + 1 \in 1..Len(chain)
  <2>1. 1 \in 1..Len(block_queue) /\ Len(last) + 1 \in 1..Len(chain)
    <3>1. Len(block_queue) \in Nat /\ Len(block_queue) # 0 /\ Len(block_queue) = Len(chain) - Len(last)
      BY <1>3
    <3> QED BY <1>2, <3>1
  <2>2. block_queue[1] = SubSeq(chain, 1, Len(last) + 1)
    BY <1>3, <2>1
  <2> QED BY <1>4, <2>1, <2>2
<1>6. chain \in Chains /\ last \in Chains /\ Len(last) + 1 \in 0..Len(chain)
  BY <1>2, <1>5 DEF BlockTypes
<1>7. Len(block') = Len(last) + 1
  BY <1>5, <1>6, PrefixOf
<1>8. last = Front(block')
  <2>1. Front(block') = SubSeq(chain, 1, Len(last) + 1 - 1)
    BY <1>5, <1>6, FrontOfPrefix
  <2>2. Len(last) + 1 - 1 = Len(last)
    BY <1>2
  <2> QED BY <1>0, <2>1, <2>2
<1>9. pc' = IF Tracked = {} THEN "store" ELSE "block"
  BY <1>1, <1>8
<1>10. BlockTypes'
  <2>1. Len(block') <= MaxHeight
    BY <1>2, <1>5, <1>7, Assumed DEF BlockTypes
  <2> QED BY <1>1, <1>4, <1>9, <2>1 DEF BlockTypes, Tracked
<1>11. Taken' = block'
  BY <1>9 DEF Taken
<1>12. ASSUME NEW n \in 1..Len(block_queue')
       PROVE  block_queue'[n] = SubSeq(chain', 1, Len(Taken') + n)
  <2>1. n + 1 \in 1..Len(block_queue) /\ Len(last) + (n + 1) = Len(last) + 1 + n
    <3>1. Len(block_queue) \in Nat /\ Len(block_queue') = Len(block_queue) - 1
      BY <1>3, <1>4
    <3> QED BY <1>2, <3>1
  <2>2. block_queue'[n] = SubSeq(chain, 1, Len(last) + (n + 1))
    BY <1>3, <1>4, <2>1
  <2>3. Len(Taken') + n = Len(last) + (n + 1) /\ chain' = chain
    BY <1>1, <1>7, <1>11, <2>1
  <2> QED BY <2>2, <2>3
<1>13. Len(block') > 0 /\ Len(block') - 1 = Len(last) /\ Len(block') <= Len(chain)
  BY <1>2, <1>5, <1>7
<1>14. BlocksInOrder'
  <2>1. Len(Taken') <= Len(chain') /\ Taken' = SubSeq(chain', 1, Len(Taken'))
    BY <1>1, <1>5, <1>7, <1>11, <1>13
  <2>2. Len(block_queue') = Len(chain') - Len(Taken')
    <3>1. Len(block_queue') = Len(block_queue) - 1 /\ Len(block_queue) = Len(chain) - Len(last)
      BY <1>3, <1>4
    <3> QED BY <1>1, <1>2, <1>7, <1>11, <3>1
  <2>3. Len(block') > 0 /\ last' = SubSeq(chain', 1, Len(block') - 1)
    BY <1>0, <1>1, <1>13
  <2> QED BY <1>12, <2>1, <2>2, <2>3 DEF BlocksInOrder
<1> QED BY <1>5, <1>7, <1>8, <1>9, <1>10, <1>14

LEMMA OrderStoreLast ==
    ASSUME BlockTypes, BlocksInOrder, StoreLast
    PROVE  BlockTypes' /\ BlocksInOrder'
<1>1. BlockTypes'
  BY DEF BlockTypes, StoreLast, bitcoind
<1>2. Taken' = Taken
  BY DEF Taken, StoreLast
<1> QED BY <1>1, <1>2 DEF BlocksInOrder, StoreLast, bitcoind

(* What a restart finds missing is what comes after the last block.        *)
LEMMA MissedInOrder ==
    ASSUME chain \in Chains, last \in Chains,
           NEW k \in 0..Len(chain), k = Len(last), last = SubSeq(chain, 1, k)
    PROVE  MissedBlocks = [n \in 1..(Len(chain) - k) |-> SubSeq(chain, 1, k + n)]
<1>1. Len(chain) \in Nat /\ k \in Nat /\ k <= Len(chain)
  BY LenProperties DEF Chains
<1>2. Min2(Len(last), Len(chain)) = k
  BY <1>1 DEF Min2
<1> DEFINE Fork(n) == /\ SubSeq(last, 1, n) = SubSeq(chain, 1, n)
                      /\ n = Min2(Len(last), Len(chain)) \/ last[n + 1] # chain[n + 1]
      a == CHOOSE n \in 0..Min2(Len(last), Len(chain)) : Fork(n)
<1>3. Fork(k) /\ k \in 0..k
  <2>1. SubSeq(last, 1, k) = last
    BY SubSeqFull DEF Chains
  <2> QED BY <1>1, <1>2, <2>1
<1>4. ASSUME NEW n \in 0..k, Fork(n)
      PROVE  n = k
  <2>1. CASE n < k
    <3>1. n + 1 \in 1..k
      BY <1>1, <2>1
    <3>2. \A h \in 1..k : SubSeq(chain, 1, k)[h] = chain[h]
      BY PrefixOf
    <3>3. last[n + 1] = chain[n + 1]
      BY <3>1, <3>2
    <3> QED BY <1>2, <1>4, <2>1, <1>1, <3>3
  <2>2. CASE ~(n < k)
    BY <1>1, <2>2
  <2> QED BY <2>1, <2>2
<1>5. MissedBlocks = [n \in 1..(Len(chain) - a) |-> SubSeq(chain, 1, a + n)]
  BY DEF MissedBlocks
<1> HIDE DEF Fork
<1>6. a = k
  BY <1>2, <1>3, <1>4
<1> HIDE DEF a
<1> QED BY <1>5, <1>6

LEMMA OrderRestart ==
    ASSUME BlockTypes, BlocksInOrder, Restart
    PROVE  BlockTypes' /\ BlocksInOrder'
<1>1. /\ last \in Chains /\ Len(last) \in 0..Len(chain) /\ Len(chain) \in Nat
      /\ last = SubSeq(chain, 1, Len(last)) /\ chain \in Chains
  BY TakenIsPrefix DEF BlockTypes
<1>2. block_queue' = [n \in 1..(Len(chain) - Len(last)) |-> SubSeq(chain, 1, Len(last) + n)]
  <2>1. MissedBlocks = [n \in 1..(Len(chain) - Len(last)) |-> SubSeq(chain, 1, Len(last) + n)]
    BY <1>1, MissedInOrder, Zenon
  <2> QED BY <2>1 DEF Restart
<1>3. \A n \in 1..(Len(chain) - Len(last)) : SubSeq(chain, 1, Len(last) + n) \in Chains
  <2> TAKE n \in 1..(Len(chain) - Len(last))
  <2>1. Len(last) + n \in 0..Len(chain)
    BY <1>1
  <2> QED BY <1>1, <2>1, PrefixOf
<1>4. Len(chain) - Len(last) \in Nat
  BY <1>1
<1>5. block_queue' \in Seq(Chains) /\ Len(block_queue') = Len(chain) - Len(last)
  BY <1>2, <1>3, <1>4, IsASeq, LenProperties
<1>6. BlockTypes'
  BY <1>1, <1>5, Assumed DEF BlockTypes, Restart, bitcoind
<1>7. Taken' = last /\ pc' = "wait" /\ chain' = chain
  BY DEF Taken, Restart, bitcoind
<1> QED BY <1>1, <1>2, <1>5, <1>6, <1>7 DEF BlocksInOrder

LEMMA OrderInit == EveryBlock /\ Init => OrderInv
<1> SUFFICES ASSUME EveryBlock, Init PROVE OrderInv
  OBVIOUS
<1>1. <<>> \in Chains /\ <<>> \in Seq(Chains) /\ Len(<<>>) = 0 /\ SubSeq(<<>>, 1, 0) = <<>>
  BY EmptySeq, SubSeqEmpty DEF Chains
<1> QED BY <1>1, Assumed DEF Init, OrderInv, BlockTypes, BlocksInOrder, Taken

LEMMA OrderStep == OrderInv /\ [Next]_vars => OrderInv'
<1> SUFFICES ASSUME OrderInv, [Next]_vars PROVE OrderInv'
  OBVIOUS
<1>1. CASE \E txs, back \in SUBSET Txs : Reorg(txs, back)
  <2>1. reorgs' = reorgs + 1 /\ reorgs < MaxReorgs
    BY <1>1 DEF Reorg
  <2> QED BY <2>1, Assumed DEF OrderInv, EveryBlock
<1>2. CASE \/ UNCHANGED vars \/ ~\E txs, back \in SUBSET Txs : Reorg(txs, back)
  <2>1. reorgs' = reorgs
    BY <1>2 DEF Next, NewBlock, Evict, HandleBreach, AddTracker, StoreTracker, WatchThread, GetBlock, Rebroadcast,
        ClearReceipts, StoreLast, HandleReorg, HandledReorg, Examine, Restart, bitcoind, vars
  <2> SUFFICES ASSUME reorgs = 0 PROVE BlockTypes' /\ BlocksInOrder'
    BY <2>1 DEF OrderInv, EveryBlock
  <2>2. BlockTypes /\ BlocksInOrder /\ EveryBlock /\ reorgs \in 0..MaxReorgs
    BY DEF OrderInv
  <2>3. pc # "reorg"
    BY <2>2 DEF BlockTypes
  <2>4. ASSUME NEW txs \in SUBSET mempool, NEW told \in BOOLEAN, NewBlock(txs, told)
        PROVE  BlockTypes' /\ BlocksInOrder'
    BY <2>2, <2>4, OrderNewBlock
  <2>5. CASE GetBlock
    BY <2>2, <2>5, OrderGetBlock
  <2>6. CASE StoreLast
    BY <2>2, <2>6, OrderStoreLast
  <2>7. CASE Restart
    BY <2>2, <2>7, OrderRestart
  <2>8. CASE (\E i \in Ids : HandleReorg(i)) \/ HandledReorg
    BY <2>3, <2>8 DEF HandleReorg, HandledReorg
  <2>9. CASE \/ \E tx \in Txs : Evict(tx)
             \/ \E u \in Uuids : HandleBreach(u)
             \/ AddTracker \/ StoreTracker \/ Examine \/ Rebroadcast \/ ClearReceipts
             \/ UNCHANGED vars
    <3>1. NoBlockMoves
      BY <2>2, <2>9, NoBlockMovesBy
    <3> QED BY <2>2, <3>1, OrderQuiet
  <2> QED BY <1>2, <2>4, <2>5, <2>6, <2>7, <2>8, <2>9 DEF Next, WatchThread
<1> QED BY <1>1, <1>2

THEOREM OrderInvariance == EveryBlock /\ Spec => []OrderInv
<1> QED BY OrderInit, OrderStep, PTL DEF Spec

-----------------------------------------------------------------------------
(* Memory and disk.                                                        *)

Receipts == {None, "sent", "mined", "rejected"}

(* What send_transaction does to a set of penalties.                       *)
LEMMA Sent ==
    ASSUME NEW S \in SUBSET Txs, SendAll(S), issued_receipts \in [Txs -> Receipts], silent \in [Txs -> Nat]
    PROVE  /\ issued_receipts' \in [Txs -> Receipts] /\ silent' \in [Txs -> Nat]
           /\ \A tx \in Txs \ S : issued_receipts'[tx] = issued_receipts[tx] /\ silent'[tx] = silent[tx]
           /\ \A tx \in S : /\ issued_receipts'[tx] \in {"sent", "mined", "rejected"}
                            /\ issued_receipts[tx] # None => /\ issued_receipts'[tx] = issued_receipts[tx]
                                                             /\ silent'[tx] = silent[tx]
                            /\ issued_receipts[tx] = None => /\ Answer(tx, issued_receipts'[tx])
                                                             /\ silent'[tx] = 0
<1>1. PICK r \in [S -> {"sent", "mined", "rejected"}] :
        /\ \A tx \in S : IF issued_receipts[tx] # None THEN r[tx] = issued_receipts[tx] ELSE Answer(tx, r[tx])
        /\ issued_receipts' = [tx \in Txs |-> IF tx \in S THEN r[tx] ELSE issued_receipts[tx]]
  BY DEF SendAll
<1>2. silent' = [tx \in Txs |-> IF tx \in S /\ issued_receipts[tx] = None THEN 0 ELSE silent[tx]]
  BY DEF SendAll
<1>3. issued_receipts' \in [Txs -> Receipts]
  BY <1>1 DEF Receipts
<1>4. silent' \in [Txs -> Nat]
  BY <1>2
<1>5. ASSUME NEW tx \in Txs \ S
      PROVE  issued_receipts'[tx] = issued_receipts[tx] /\ silent'[tx] = silent[tx]
  BY <1>1, <1>2
<1>6. ASSUME NEW tx \in S
      PROVE  /\ issued_receipts'[tx] = r[tx] /\ r[tx] \in {"sent", "mined", "rejected"}
             /\ silent'[tx] = IF issued_receipts[tx] = None THEN 0 ELSE silent[tx]
  BY <1>1, <1>2
<1> QED BY <1>1, <1>3, <1>4, <1>5, <1>6

LEMMA Handler ==
    ASSUME MemoryTypes
    PROVE  /\ handler.step \in {"idle", "add", "store"} /\ (handler.step = "idle" <=> handler = Idle)
           /\ handler # Idle => handler.u \in Uuids /\ handler.u \in Ids /\ handler.new \in BOOLEAN
BY DEF MemoryTypes, Idle, Ids

LEMMA Summary ==
    ASSUME NEW u \in Uuids
    PROVE  /\ TrackerOf(u) \in Tracker /\ TrackerOf(u) # None
           /\ TrackerOf(u).penalty_txid = PenaltyOf[u] /\ PenaltyOf[u] \in Txs
<1>1. PenaltyOf[u] \in Txs /\ LocatorOf[u] \in Locators /\ None \notin Tracker
  BY Assumed
<1> QED BY <1>1 DEF TrackerOf, Tracker, Ids

(* What is tracked is what the Watcher handed over.                        *)
LEMMA TrackedIs ==
    ASSUME MemoryTypes, OnDisk, NEW i \in Tracked
    PROVE  /\ i \in Uuids /\ i \in Ids /\ trackers[i] = TrackerOf(i) /\ TxOf(i) = PenaltyOf[i] /\ TxOf(i) \in Txs
           /\ handler.step # "store" => dbr[i] = trackers[i]
<1>1. i \in Ids /\ trackers[i] # None
  BY DEF Tracked
<1>2. i \in Uuids /\ trackers[i] = TrackerOf(i)
  <2>1. CASE trackers[i] = dbr[i]
    BY <1>1, <2>1 DEF OnDisk
  <2>2. CASE trackers[i] # dbr[i]
    <3>1. handler.step = "store" /\ i = handler.u
      BY <1>1, <2>2 DEF OnDisk
    <3>2. handler.u \in Uuids
      BY <3>1, Handler DEF Idle
    <3> QED BY <3>1, <3>2 DEF OnDisk
  <2> QED BY <2>1, <2>2
<1> QED BY <1>1, <1>2, Summary DEF TxOf, OnDisk

(* Steps that leave the trackers alone.                                    *)
TrackersStay ==
    /\ UNCHANGED <<trackers, tx_tracker_map, unconfirmed_txs, dbr, handler>>
    /\ missed_confirmations' \in [Txs -> Nat] /\ silent' \in [Txs -> Nat]
    /\ issued_receipts' \in [Txs -> Receipts]
    /\ pc' = "rebroadcast" => pc = "rebroadcast"

LEMMA TrackersStayBy ==
    ASSUME BlockTypes, BlocksInOrder, MemoryTypes,
           \/ \E txs \in SUBSET mempool, told \in BOOLEAN : NewBlock(txs, told)
           \/ \E tx \in Txs : Evict(tx)
           \/ GetBlock \/ Rebroadcast \/ ClearReceipts \/ StoreLast \/ UNCHANGED vars
    PROVE  TrackersStay
<1> USE DEF TrackersStay, MemoryTypes, memory, watch, Receipts
<1>1. CASE \E txs \in SUBSET mempool, told \in BOOLEAN : NewBlock(txs, told)
  BY <1>1 DEF NewBlock
<1>2. CASE \E tx \in Txs : Evict(tx)
  BY <1>2 DEF Evict
<1>3. CASE GetBlock
  BY <1>3 DEF GetBlock
<1>4. CASE Rebroadcast
  <2>1. UNCHANGED <<trackers, tx_tracker_map, unconfirmed_txs, dbr, handler>> /\ pc = "rebroadcast"
    BY <1>4 DEF Rebroadcast
  <2>2. CASE UNCHANGED <<issued_receipts, missed_confirmations, silent>>
    BY <2>1, <2>2
  <2>3. CASE ~UNCHANGED <<issued_receipts, missed_confirmations, silent>>
    <3> DEFINE S == get_txs_to_rebroadcast
    <3>1. SendAll(S) /\ missed_confirmations' = [tx \in Txs |-> IF tx \in S THEN 0 ELSE missed_confirmations[tx]]
      BY <1>4, <2>3 DEF Rebroadcast
    <3>2. S \in SUBSET Txs
      BY DEF get_txs_to_rebroadcast
    <3> HIDE DEF S
    <3>3. issued_receipts' \in [Txs -> Receipts] /\ silent' \in [Txs -> Nat]
      BY <3>1, <3>2, Sent
    <3> QED BY <2>1, <3>1, <3>3
  <2> QED BY <2>2, <2>3
<1>5. CASE ClearReceipts
  BY <1>5 DEF ClearReceipts
<1>6. CASE StoreLast
  BY <1>6 DEF StoreLast
<1>7. CASE UNCHANGED vars
  BY <1>7 DEF vars
<1> QED BY <1>1, <1>2, <1>3, <1>4, <1>5, <1>6, <1>7

LEMMA MemoryStays ==
    ASSUME MemoryTypes, OnDisk, Index, TrackersStay
    PROVE  MemoryTypes' /\ OnDisk' /\ Index'
<1>1. MemoryTypes'
  BY DEF MemoryTypes, TrackersStay, Receipts
<1>2. OnDisk'
  BY DEF OnDisk, TrackersStay, TrackerOf
<1>3. Index'
  BY DEF Index, TrackersStay, TxOf
<1> QED BY <1>1, <1>2, <1>3

LEMMA MemoryHandleBreach ==
    ASSUME EachOnce, MemoryTypes, OnDisk, Index, NEW u \in Uuids, HandleBreach(u)
    PROVE  MemoryTypes' /\ OnDisk' /\ Index'
<1> DEFINE tx == PenaltyOf[u]
<1>1. {tx} \in SUBSET Txs
  BY Assumed
<1>2. /\ handler = Idle /\ u \notin Tracked /\ SendAll({tx})
      /\ handler' = IF issued_receipts'[tx] = "rejected" THEN Idle
                    ELSE [step |-> "add", u |-> u, new |-> issued_receipts'[tx] = "sent"]
      /\ UNCHANGED <<trackers, tx_tracker_map, unconfirmed_txs, missed_confirmations, dbr, pc>>
  BY DEF HandleBreach, memory, watch, EachOnce
<1> HIDE DEF tx
<1>3. issued_receipts' \in [Txs -> Receipts] /\ silent' \in [Txs -> Nat]
  BY <1>1, <1>2, Sent DEF MemoryTypes, Receipts
<1>4. MemoryTypes'
  BY <1>2, <1>3 DEF MemoryTypes, Receipts
<1>5. u \in Ids /\ trackers[u] = None
  BY <1>2 DEF Tracked, Ids
<1>6. handler.step = "idle" /\ handler'.step \in {"idle", "add"} /\ (handler'.step = "add" => handler'.u = u)
  BY <1>2 DEF Idle
<1>7. OnDisk'
  BY <1>2, <1>5, <1>6 DEF OnDisk, TrackerOf
<1>8. Index'
  BY <1>2 DEF Index, TxOf
<1> QED BY <1>4, <1>7, <1>8

LEMMA MemoryAddTracker ==
    ASSUME MemoryTypes, OnDisk, Index, AddTracker
    PROVE  /\ MemoryTypes' /\ OnDisk' /\ Index'
           /\ handler.u \in Uuids /\ trackers' = [trackers EXCEPT ![handler.u] = TrackerOf(handler.u)]
           /\ trackers[handler.u] = None
           /\ unconfirmed_txs' = [unconfirmed_txs EXCEPT ![PenaltyOf[handler.u]] = IF handler.new THEN 1 ELSE @]
<1> DEFINE u == handler.u
           t == TrackerOf(u)
           tx == PenaltyOf[u]
<1>1. handler.step = "add" /\ pc # "rebroadcast" /\ Add(u, t, handler.new) /\ pc' = pc
      /\ handler' = [handler EXCEPT !.step = "store"] /\ UNCHANGED <<dbr, issued_receipts, silent>>
  BY DEF AddTracker, WatchLock, watch
<1>2. handler # Idle /\ u \in Uuids /\ u \in Ids /\ handler.new \in BOOLEAN
  BY <1>1, Handler DEF Idle
<1>3. t \in Tracker /\ t # None /\ t.penalty_txid = tx /\ tx \in Txs
  BY <1>2, Summary
<1>4. trackers[u] = None
  BY <1>1 DEF OnDisk
<1>5. handler \in [step : {"add", "store"}, u : Uuids, new : BOOLEAN]
  BY <1>2 DEF MemoryTypes
<1>6. handler' \in [step : {"add", "store"}, u : Uuids, new : BOOLEAN] /\ handler'.step = "store" /\ handler'.u = u
  BY <1>1, <1>5
<1> HIDE DEF u, t, tx
<1>7. trackers' = [trackers EXCEPT ![u] = t] /\ tx_tracker_map' = [tx_tracker_map EXCEPT ![tx][u] = @ + 1]
      /\ missed_confirmations' = missed_confirmations
  BY <1>1, <1>3 DEF Add
<1>8. unconfirmed_txs' = [unconfirmed_txs EXCEPT ![tx] = IF handler.new THEN 1 ELSE @]
  <2>1. unconfirmed_txs \in [Txs -> 0..1]
    BY DEF MemoryTypes
  <2>2. CASE handler.new /\ ~Unconfirmed(tx)
    BY <1>1, <1>3, <2>2 DEF Add
  <2>3. CASE ~handler.new
    BY <1>1, <1>3, <2>1, <2>3 DEF Add
  <2>4. CASE handler.new /\ Unconfirmed(tx)
    <3>1. unconfirmed_txs[tx] = 1 /\ unconfirmed_txs' = unconfirmed_txs
      BY <1>1, <1>3, <2>1, <2>4 DEF Add, Unconfirmed
    <3> QED BY <1>3, <2>1, <2>4, <3>1
  <2> QED BY <2>2, <2>3, <2>4
<1>9. /\ trackers \in [Ids -> Tracker \cup {None}] /\ tx_tracker_map \in [Txs -> [Ids -> Nat]]
      /\ unconfirmed_txs \in [Txs -> 0..1]
  BY DEF MemoryTypes
<1>10. /\ trackers' \in [Ids -> Tracker \cup {None}] /\ tx_tracker_map' \in [Txs -> [Ids -> Nat]]
       /\ unconfirmed_txs' \in [Txs -> 0..1]
  <2>1. trackers' \in [Ids -> Tracker \cup {None}]
    BY <1>2, <1>3, <1>7, <1>9
  <2>2. tx_tracker_map' \in [Txs -> [Ids -> Nat]]
    BY <1>2, <1>3, <1>7, <1>9
  <2>3. unconfirmed_txs' \in [Txs -> 0..1]
    BY <1>3, <1>8, <1>9
  <2> QED BY <2>1, <2>2, <2>3
<1>11. MemoryTypes'
  BY <1>1, <1>6, <1>7, <1>10 DEF MemoryTypes
<1>12. OnDisk'
  <2>1. \A i \in Ids : dbr'[i] # None => i \in Uuids /\ dbr'[i] = TrackerOf(i)
    BY <1>1 DEF OnDisk
  <2>2. ASSUME NEW i \in Ids, trackers'[i] # dbr'[i] PROVE i = u
    BY <1>1, <1>7, <1>9, <2>2 DEF OnDisk
  <2>3. trackers'[u] = TrackerOf(u)
    BY <1>2, <1>7, <1>9 DEF t
  <2> QED BY <1>1, <1>6, <2>1, <2>2, <2>3 DEF OnDisk, TrackerOf
<1>13. Index'
  <2> SUFFICES ASSUME NEW x \in Txs, NEW i \in Ids
               PROVE  tx_tracker_map'[x][i] =
                        IF trackers'[i] # None /\ trackers'[i].penalty_txid = x THEN 1 ELSE 0
    BY DEF Index, TxOf
  <2>1. tx_tracker_map[x][i] = IF trackers[i] # None /\ trackers[i].penalty_txid = x THEN 1 ELSE 0
    BY DEF Index, TxOf
  <2>2. tx_tracker_map'[x][i] = IF x = tx /\ i = u THEN tx_tracker_map[x][i] + 1 ELSE tx_tracker_map[x][i]
    BY <1>2, <1>3, <1>7, <1>9
  <2>3. trackers'[i] = IF i = u THEN t ELSE trackers[i]
    BY <1>2, <1>7, <1>9
  <2>4. CASE i = u
    BY <1>3, <1>4, <2>1, <2>2, <2>3, <2>4
  <2>5. CASE i # u
    BY <2>1, <2>2, <2>3, <2>5
  <2> QED BY <2>4, <2>5
<1> QED BY <1>2, <1>4, <1>7, <1>8, <1>11, <1>12, <1>13 DEF u, t, tx

LEMMA MemoryStoreTracker ==
    ASSUME MemoryTypes, OnDisk, Index, StoreTracker
    PROVE  MemoryTypes' /\ OnDisk' /\ Index'
<1> DEFINE u == handler.u
<1>1. /\ handler.step = "store" /\ dbr' = [dbr EXCEPT ![u] = TrackerOf(u)] /\ handler' = Idle
      /\ UNCHANGED <<trackers, tx_tracker_map, unconfirmed_txs, missed_confirmations, issued_receipts, silent, pc>>
  BY DEF StoreTracker, watch, memory
<1>2. u \in Uuids /\ u \in Ids
  BY <1>1, Handler DEF Idle
<1>3. TrackerOf(u) \in Tracker /\ TrackerOf(u) # None /\ trackers[u] = TrackerOf(u)
  BY <1>1, <1>2, Summary DEF OnDisk
<1> HIDE DEF u
<1>4. dbr \in [Ids -> Tracker \cup {None}]
  BY DEF MemoryTypes
<1>5. dbr' \in [Ids -> Tracker \cup {None}]
  BY <1>1, <1>2, <1>3, <1>4
<1>6. MemoryTypes'
  BY <1>1, <1>5 DEF MemoryTypes
<1>7. OnDisk'
  <2>1. ASSUME NEW i \in Ids, dbr'[i] # None PROVE i \in Uuids /\ dbr'[i] = TrackerOf(i)
    BY <1>1, <1>2, <1>4, <2>1 DEF OnDisk
  <2>2. ASSUME NEW i \in Ids PROVE trackers'[i] = dbr'[i]
    BY <1>1, <1>2, <1>3, <1>4 DEF OnDisk, u
  <2>3. handler'.step = "idle"
    BY <1>1 DEF Idle
  <2> QED BY <2>1, <2>2, <2>3 DEF OnDisk, TrackerOf
<1>8. Index'
  BY <1>1 DEF Index, TxOf
<1> QED BY <1>6, <1>7, <1>8

(* What is deleted is tracked.                                             *)
LEMMA DeletedAreTracked ==
    ASSUME OutdatedAppointments \subseteq Tracked
    PROVE  get_completed_trackers \cup get_outdated_trackers \subseteq Tracked
BY DEF get_completed_trackers, get_outdated_trackers

LEMMA MemoryExamine ==
    ASSUME MemoryTypes, OnDisk, Index, Examine
    PROVE  MemoryTypes' /\ OnDisk' /\ Index'
<1>1. handler.step # "store" /\ pc = "block" /\ UNCHANGED <<issued_receipts, handler>>
  BY DEF Examine, ApiLock
<1>2. CASE ~(OutdatedAppointments \subseteq Tracked)
  <2>1. UNCHANGED <<trackers, tx_tracker_map, unconfirmed_txs, missed_confirmations, dbr, silent>> /\ pc' = "dead"
    BY <1>2 DEF Examine, memory
  <2>2. TrackersStay
    BY <1>1, <2>1 DEF TrackersStay, MemoryTypes, Receipts
  <2> QED BY <2>2, MemoryStays
<1>3. CASE OutdatedAppointments \subseteq Tracked
  <2> DEFINE S == get_completed_trackers \cup get_outdated_trackers
             txs == Last(block).txs
  <2>1. /\ check_confirmations(txs) /\ delete_trackers(S)
        /\ silent' = [tx \in Txs |-> IF Listed(tx) # {} THEN silent[tx] + 1 ELSE 0]
        /\ pc' = "rebroadcast"
    BY <1>3 DEF Examine
  <2>2. S \subseteq Tracked
    BY <1>3, DeletedAreTracked
  <2> HIDE DEF S, txs
  <2>3. /\ trackers \in [Ids -> Tracker \cup {None}] /\ dbr \in [Ids -> Tracker \cup {None}]
        /\ tx_tracker_map \in [Txs -> [Ids -> Nat]] /\ unconfirmed_txs \in [Txs -> 0..1]
        /\ missed_confirmations \in [Txs -> Nat] /\ silent \in [Txs -> Nat]
    BY DEF MemoryTypes
  <2>4. /\ trackers' = [i \in Ids |-> IF i \in S THEN None ELSE trackers[i]]
        /\ dbr' = [i \in Ids |-> IF i \in S THEN None ELSE dbr[i]]
        /\ tx_tracker_map' =
             [tx \in Txs |-> [i \in Ids |-> IF i \in S /\ TxOf(i) = tx
                                            THEN tx_tracker_map[tx][i] - 1 ELSE tx_tracker_map[tx][i]]]
    BY <2>1 DEF delete_trackers
  <2>5. /\ unconfirmed_txs' =
             [tx \in Txs |-> IF tx \in txs /\ Listed(tx) # {} /\ Unconfirmed(tx)
                             THEN unconfirmed_txs[tx] - 1 ELSE unconfirmed_txs[tx]]
        /\ missed_confirmations' = [tx \in Txs |-> missed_confirmations[tx] + unconfirmed_txs'[tx]]
    BY <2>1 DEF check_confirmations
  <2>6. \A tx \in Txs, i \in Ids :
          /\ tx_tracker_map[tx][i] = IF trackers[i] # None /\ TxOf(i) = tx THEN 1 ELSE 0
          /\ tx_tracker_map'[tx][i] = IF trackers'[i] # None /\ TxOf(i)' = tx THEN 1 ELSE 0
    <3> TAKE tx \in Txs, i \in Ids
    <3>1. tx_tracker_map[tx][i] = IF trackers[i] # None /\ trackers[i].penalty_txid = tx THEN 1 ELSE 0
      BY DEF Index, TxOf
    <3>2. tx_tracker_map'[tx][i] = IF i \in S /\ trackers[i].penalty_txid = tx
                                   THEN tx_tracker_map[tx][i] - 1 ELSE tx_tracker_map[tx][i]
      BY <2>4 DEF TxOf
    <3>3. trackers'[i] = IF i \in S THEN None ELSE trackers[i]
      BY <2>4
    <3>4. i \in S => trackers[i] # None
      BY <2>2 DEF Tracked
    <3> QED BY <3>1, <3>2, <3>3, <3>4 DEF TxOf
  <2>7. unconfirmed_txs' \in [Txs -> 0..1]
    BY <2>3, <2>5 DEF Unconfirmed
  <2>8. missed_confirmations' \in [Txs -> Nat]
    BY <2>3, <2>5, <2>7
  <2>9. silent' \in [Txs -> Nat]
    BY <2>1, <2>3
  <2>10. tx_tracker_map' \in [Txs -> [Ids -> Nat]]
    <3>1. \A tx \in Txs, i \in Ids : tx_tracker_map'[tx][i] \in Nat
      BY <2>6
    <3> DEFINE F(tx, i) == IF i \in S /\ TxOf(i) = tx THEN tx_tracker_map[tx][i] - 1 ELSE tx_tracker_map[tx][i]
    <3>2. tx_tracker_map' = [tx \in Txs |-> [i \in Ids |-> F(tx, i)]]
      BY <2>4
    <3> HIDE DEF F
    <3>3. \A tx \in Txs, i \in Ids : F(tx, i) \in Nat
      BY <3>1, <3>2
    <3> QED BY <3>2, <3>3
  <2>11. trackers' \in [Ids -> Tracker \cup {None}] /\ dbr' \in [Ids -> Tracker \cup {None}]
    BY <2>3, <2>4
  <2>12. MemoryTypes'
    BY <1>1, <2>7, <2>8, <2>9, <2>10, <2>11 DEF MemoryTypes
  <2>13. OnDisk'
    <3>1. ASSUME NEW i \in Ids, dbr'[i] # None PROVE i \in Uuids /\ dbr'[i] = TrackerOf(i)
      BY <2>4, <3>1 DEF OnDisk
    <3>2. ASSUME NEW i \in Ids PROVE trackers'[i] = dbr'[i]
      BY <1>1, <2>4 DEF OnDisk
    <3>3. handler.step = "add" => trackers'[handler.u] = None
      <4> SUFFICES ASSUME handler.step = "add" PROVE trackers'[handler.u] = None
        OBVIOUS
      <4>1. handler.u \in Ids /\ trackers[handler.u] = None
        BY Handler DEF OnDisk, Idle
      <4> QED BY <2>4, <4>1
    <3> QED BY <1>1, <3>1, <3>2, <3>3 DEF OnDisk, TrackerOf
  <2>14. Index'
    BY <2>6 DEF Index
  <2> QED BY <2>12, <2>13, <2>14
<1> QED BY <1>2, <1>3

LEMMA MemoryRestart ==
    ASSUME MemoryTypes, OnDisk, Index, Restart
    PROVE  MemoryTypes' /\ OnDisk' /\ Index'
<1>1. /\ trackers' = dbr /\ dbr' = dbr /\ tx_tracker_map' = build_tx_tracker_map /\ handler' = Idle
      /\ unconfirmed_txs' = [tx \in Txs |-> 0] /\ missed_confirmations' = [tx \in Txs |-> 0]
      /\ issued_receipts' = [tx \in Txs |-> None] /\ silent' = silent /\ pc' = "wait"
  BY DEF Restart
<1>2. tx_tracker_map' = [tx \in Txs |-> [i \in Ids |-> IF dbr[i] # None /\ dbr[i].penalty_txid = tx THEN 1 ELSE 0]]
  BY <1>1 DEF build_tx_tracker_map
<1>3. tx_tracker_map' \in [Txs -> [Ids -> Nat]]
  BY <1>2
<1>4. MemoryTypes'
  BY <1>1, <1>3 DEF MemoryTypes
<1>5. handler'.step = "idle"
  BY <1>1 DEF Idle
<1>6. OnDisk'
  BY <1>1, <1>5 DEF OnDisk, TrackerOf
<1>7. Index'
  BY <1>1, <1>2 DEF Index, TxOf
<1> QED BY <1>4, <1>6, <1>7

LEMMA MemoryInit == EveryBlock /\ EachOnce /\ Init => MemoryInv
<1> SUFFICES ASSUME EachOnce, Init PROVE MemoryTypes /\ OnDisk /\ Index
  BY DEF MemoryInv
<1>1. /\ trackers = [i \in Ids |-> None] /\ dbr = trackers /\ tx_tracker_map = [tx \in Txs |-> [i \in Ids |-> 0]]
      /\ unconfirmed_txs = [tx \in Txs |-> 0] /\ missed_confirmations = [tx \in Txs |-> 0]
      /\ issued_receipts = [tx \in Txs |-> None] /\ handler = Idle /\ silent = [tx \in Txs |-> 0] /\ pc = "wait"
  BY DEF Init
<1>2. MemoryTypes
  BY <1>1 DEF MemoryTypes
<1>3. handler.step = "idle"
  BY <1>1 DEF Idle
<1>4. OnDisk
  BY <1>1, <1>3 DEF OnDisk
<1>5. Index
  BY <1>1 DEF Index
<1> QED BY <1>2, <1>4, <1>5

(* The steps that are left when the chain only grows.                      *)
LEMMA Growing ==
    ASSUME OrderInv, OrderInv', [Next]_vars, reorgs' = 0
    PROVE  /\ reorgs = 0 /\ BlockTypes /\ BlocksInOrder /\ BlockTypes' /\ BlocksInOrder'
           /\ \/ \E txs \in SUBSET mempool, told \in BOOLEAN : NewBlock(txs, told)
              \/ \E tx \in Txs : Evict(tx)
              \/ \E u \in Uuids : HandleBreach(u)
              \/ AddTracker \/ StoreTracker \/ GetBlock \/ Examine \/ Rebroadcast \/ ClearReceipts \/ StoreLast
              \/ Restart \/ UNCHANGED vars
<1>1. reorgs \in Nat
  BY Assumed DEF OrderInv
<1>2. ~\E txs, back \in SUBSET Txs : Reorg(txs, back)
  <2> SUFFICES ASSUME NEW txs \in SUBSET Txs, NEW back \in SUBSET Txs, Reorg(txs, back) PROVE FALSE
    OBVIOUS
  <2>1. reorgs' = reorgs + 1
    BY DEF Reorg
  <2> QED BY <1>1, <2>1
<1>3. reorgs = 0
  <2>1. reorgs' = reorgs
    BY <1>2 DEF Next, NewBlock, Evict, HandleBreach, AddTracker, StoreTracker, WatchThread, GetBlock, Rebroadcast,
        ClearReceipts, StoreLast, HandleReorg, HandledReorg, Examine, Restart, bitcoind, vars
  <2> QED BY <2>1
<1>4. BlockTypes /\ BlocksInOrder /\ BlockTypes' /\ BlocksInOrder'
  BY <1>3 DEF OrderInv
<1>5. ~((\E i \in Ids : HandleReorg(i)) \/ HandledReorg)
  BY <1>4 DEF HandleReorg, HandledReorg, BlockTypes
<1> QED BY <1>2, <1>3, <1>4, <1>5 DEF Next, WatchThread

LEMMA MemoryStep == OrderInv /\ OrderInv' /\ MemoryInv /\ [Next]_vars => MemoryInv'
<1> SUFFICES ASSUME OrderInv, OrderInv', MemoryInv, [Next]_vars, reorgs' = 0
             PROVE  MemoryTypes' /\ OnDisk' /\ Index'
  BY DEF MemoryInv
<1>1. EachOnce /\ MemoryTypes /\ OnDisk /\ Index /\ BlockTypes /\ BlocksInOrder
  BY Growing DEF MemoryInv
<1>2. ASSUME NEW u \in Uuids, HandleBreach(u) PROVE MemoryTypes' /\ OnDisk' /\ Index'
  BY <1>1, <1>2, MemoryHandleBreach
<1>3. CASE AddTracker
  BY <1>1, <1>3, MemoryAddTracker
<1>4. CASE StoreTracker
  BY <1>1, <1>4, MemoryStoreTracker
<1>5. CASE Examine
  BY <1>1, <1>5, MemoryExamine
<1>6. CASE Restart
  BY <1>1, <1>6, MemoryRestart
<1>7. CASE \/ \E txs \in SUBSET mempool, told \in BOOLEAN : NewBlock(txs, told)
           \/ \E tx \in Txs : Evict(tx)
           \/ GetBlock \/ Rebroadcast \/ ClearReceipts \/ StoreLast \/ UNCHANGED vars
  <2>1. TrackersStay
    BY <1>1, <1>7, TrackersStayBy
  <2> QED BY <1>1, <2>1, MemoryStays
<1> QED BY <1>2, <1>3, <1>4, <1>5, <1>6, <1>7, Growing

-----------------------------------------------------------------------------
(* Over one reorg.                                                         *)

(* One reorg, no restart, and no two users of one channel.                 *)
OneReorg == reorgs <= 1 /\ restarts = 0 /\ IsInjective(LocatorOf)

(* What the n-th block of the queue should follow, and whether it does.    *)
Before(n) == IF n = 1 THEN Taken ELSE block_queue[n - 1]
Breaks(n) == n \in 1..Len(block_queue) /\ Front(block_queue[n]) # Before(n)

(* No tracker has been reset: there is none under a locator.               *)
NoneReset == pc # "reorg" /\ \A l \in Locators : trackers[l] = None /\ dbr[l] = None

LineTypes ==
    /\ chain \in Chains /\ last \in Chains /\ block \in Chains /\ block_queue \in Seq(Chains)
    /\ mempool \subseteq Txs

(* The queue breaks once at most, and not any more when the reorg is seen. *)
BreaksOnce ==
    /\ chain = IF block_queue = <<>> THEN Taken ELSE block_queue[Len(block_queue)]
    /\ \A m, n : Breaks(m) /\ Breaks(n) => m = n
    /\ reorgs = 0 => NoneReset /\ \A n : ~Breaks(n)
    /\ \A n : Breaks(n) => NoneReset

TrackerTypes ==
    /\ trackers \in [Ids -> Tracker \cup {None}] /\ dbr \in [Ids -> Tracker \cup {None}]
    /\ tx_tracker_map \in [Txs -> [Ids -> Nat]]
    /\ handler \in {Idle} \cup [step : {"add", "store"}, u : Uuids, new : BOOLEAN]

(* Memory and disk as above, but for what is under a locator: nothing is   *)
(* where a tracker of this reorg may still be reset to.                    *)
ResetOnDisk ==
    /\ \A u \in Uuids : dbr[u] # None => dbr[u] = TrackerOf(u)
    /\ \A i \in Ids : trackers[i] # dbr[i] => handler.step = "store" /\ i = handler.u
    /\ handler.step = "store" => trackers[handler.u] = TrackerOf(handler.u)
    /\ handler.step = "add" => trackers[handler.u] = None
    /\ pc = "reorg" => todo \subseteq Uuids /\ \A u \in todo : trackers[LocatorOf[u]] = None

ReorgInv ==
    /\ EveryBlock /\ EachOnce /\ reorgs \in 0..MaxReorgs /\ restarts \in 0..MaxRestarts
    /\ OneReorg => LineTypes /\ BreaksOnce /\ TrackerTypes /\ ResetOnDisk /\ Index

LEMMA FrontOfAppend ==
    ASSUME NEW c \in Chains, NEW b \in [txs : SUBSET Txs, branch : 0..MaxReorgs]
    PROVE  Append(c, b) \in Chains /\ Front(Append(c, b)) = c
<1> DEFINE d == Append(c, b)
           k == Len(c) + 1
<1>1. /\ d \in Chains /\ Len(d) = k /\ SubSeq(d, 1, k) = d
      /\ \A n \in 0..Len(c) : SubSeq(d, 1, n) = SubSeq(c, 1, n)
  BY PrefixOfAppend
<1>2. Len(c) \in Nat /\ SubSeq(c, 1, Len(c)) = c
  BY LenProperties, SubSeqFull DEF Chains
<1>3. k \in 1..Len(d) /\ k - 1 = Len(c) /\ Len(c) \in 0..Len(c)
  BY <1>1, <1>2
<1> HIDE DEF d, k
<1>4. Front(SubSeq(d, 1, k)) = SubSeq(d, 1, k - 1)
  BY <1>1, <1>3, FrontOfPrefix
<1>5. SubSeq(d, 1, k - 1) = c
  BY <1>1, <1>2, <1>3
<1> QED BY <1>1, <1>4, <1>5 DEF d

(* A block more: if the queue breaks where it did not, it breaks there.    *)
LEMMA AppendedBreak ==
    ASSUME LineTypes, BreaksOnce, chain' \in Chains,
           block_queue' = Append(block_queue, chain'), Taken' = Taken
    PROVE  /\ block_queue' \in Seq(Chains)
           /\ chain' = IF block_queue' = <<>> THEN Taken' ELSE block_queue'[Len(block_queue')]
           /\ \A n : Breaks(n)' => Breaks(n) \/ (n = Len(block_queue) + 1 /\ Front(chain') # chain)
<1>1. /\ block_queue \in Seq(Chains) /\ Len(block_queue) \in Nat
      /\ block_queue = <<>> <=> Len(block_queue) = 0
  BY LenProperties, EmptySeq DEF LineTypes
<1>2. /\ block_queue' \in Seq(Chains) /\ Len(block_queue') = Len(block_queue) + 1
      /\ \A n \in 1..Len(block_queue) : block_queue'[n] = block_queue[n]
      /\ block_queue'[Len(block_queue) + 1] = chain'
  BY <1>1, AppendProperties
<1>3. ASSUME NEW n, Breaks(n)', ~Breaks(n)
      PROVE  n = Len(block_queue) + 1 /\ Front(chain') # chain
  <2>1. n \in 1..Len(block_queue') /\ Front(block_queue'[n]) # (IF n = 1 THEN Taken ELSE block_queue'[n - 1])
    BY <1>3 DEF Breaks, Before
  <2>2. n \in Nat /\ n >= 1 /\ n <= Len(block_queue) + 1
    BY <1>1, <1>2, <2>1
  <2>3. n # 1 => n - 1 \in 1..Len(block_queue)
    BY <1>1, <2>2
  <2>4. n # 1 => block_queue'[n - 1] = block_queue[n - 1]
    BY <1>2, <2>3
  <2>5. Front(block_queue'[n]) # Before(n)
    BY <2>1, <2>4 DEF Before
  <2>6. n \notin 1..Len(block_queue)
    BY <1>2, <1>3, <2>5 DEF Breaks
  <2>7. n = Len(block_queue) + 1
    BY <1>1, <2>2, <2>6
  <2>8. Before(n) = chain
    <3>1. CASE Len(block_queue) = 0
      <4>1. n = 1
        BY <2>7, <3>1
      <4> QED BY <1>1, <3>1, <4>1 DEF Before, BreaksOnce
    <3>2. CASE Len(block_queue) # 0
      <4>1. n # 1 /\ n - 1 = Len(block_queue)
        BY <1>1, <2>7, <3>2
      <4> QED BY <1>1, <3>2, <4>1 DEF Before, BreaksOnce
    <3> QED BY <3>1, <3>2
  <2> QED BY <1>2, <2>5, <2>7, <2>8
<1>4. Len(block_queue') # 0 /\ block_queue'[Len(block_queue')] = chain'
  BY <1>1, <1>2
<1>5. block_queue' # <<>>
  BY <1>2, <1>4, EmptySeq
<1> QED BY <1>2, <1>3, <1>4, <1>5

LEMMA BreaksNewBlock ==
    ASSUME LineTypes, BreaksOnce, EveryBlock, reorgs \in 0..MaxReorgs,
           NEW txs \in SUBSET mempool, NEW told \in BOOLEAN, NewBlock(txs, told)
    PROVE  LineTypes' /\ BreaksOnce'
<1> DEFINE b == [txs |-> txs, branch |-> reorgs]
<1>1. chain \in Chains /\ b \in [txs : SUBSET Txs, branch : 0..MaxReorgs]
  BY DEF LineTypes
<1>2. /\ chain' = Append(chain, b) /\ block_queue' = Append(block_queue, chain') /\ mempool' \subseteq mempool
      /\ UNCHANGED <<reorgs, last, block, pc, trackers, dbr>>
  BY DEF NewBlock, EveryBlock, watch, memory
<1> HIDE DEF b
<1>3. chain' \in Chains /\ Front(chain') = chain
  BY <1>1, <1>2, FrontOfAppend
<1>4. Taken' = Taken /\ NoneReset' = NoneReset
  BY <1>2 DEF Taken, NoneReset
<1>5. /\ block_queue' \in Seq(Chains)
      /\ chain' = IF block_queue' = <<>> THEN Taken' ELSE block_queue'[Len(block_queue')]
      /\ \A n : Breaks(n)' => Breaks(n)
  BY <1>2, <1>3, <1>4, AppendedBreak
<1>6. LineTypes'
  BY <1>2, <1>3, <1>5 DEF LineTypes
<1> QED BY <1>2, <1>4, <1>5, <1>6 DEF BreaksOnce

LEMMA BreaksReorg ==
    ASSUME LineTypes, BreaksOnce, reorgs = 0, MaxReorgs \in Nat,
           NEW txs \in SUBSET Txs, NEW back \in SUBSET Txs, Reorg(txs, back)
    PROVE  LineTypes' /\ BreaksOnce'
<1> DEFINE B == [txs : SUBSET Txs, branch : 0..MaxReorgs]
           two == <<[txs |-> {}, branch |-> reorgs'], [txs |-> txs, branch |-> reorgs']>>
<1>1. /\ chain' = Front(chain) \o two /\ block_queue' = Append(block_queue, chain')
      /\ reorgs' = 1 /\ reorgs < MaxReorgs /\ Len(chain) \in 1..(MaxHeight - 1)
      /\ UNCHANGED <<last, block, pc, trackers, dbr>>
  BY DEF Reorg, watch, memory
<1>2. mempool' \subseteq Txs
  BY DEF Reorg, LineTypes
<1>3. two \in Chains
  <2>1. [txs |-> {}, branch |-> reorgs'] \in B /\ [txs |-> txs, branch |-> reorgs'] \in B
    BY <1>1
  <2> HIDE DEF B
  <2>2. two \in Seq(B)
    BY <2>1
  <2> QED BY <2>2 DEF B, Chains
<1>4. Front(chain) \in Chains
  <2>1. chain \in Chains /\ Len(chain) \in Nat /\ Len(chain) >= 1
    BY <1>1, LenProperties DEF LineTypes, Chains
  <2>2. Len(chain) - 1 \in 0..Len(chain)
    BY <2>1
  <2> QED BY <2>1, <2>2, PrefixOf DEF Front
<1> HIDE DEF two
<1>5. chain' \in Chains
  BY <1>1, <1>3, <1>4, ConcatProperties DEF Chains
<1>6. Taken' = Taken /\ NoneReset' = NoneReset
  BY <1>1 DEF Taken, NoneReset
<1>7. /\ block_queue' \in Seq(Chains)
      /\ chain' = IF block_queue' = <<>> THEN Taken' ELSE block_queue'[Len(block_queue')]
      /\ \A n : Breaks(n)' => Breaks(n) \/ n = Len(block_queue) + 1
  BY <1>1, <1>5, <1>6, AppendedBreak
<1>8. LineTypes'
  BY <1>1, <1>2, <1>5, <1>7 DEF LineTypes
<1>9. NoneReset /\ \A n : ~Breaks(n)
  BY DEF BreaksOnce
<1>10. reorgs' # 0
  BY <1>1
<1> QED BY <1>6, <1>7, <1>8, <1>9, <1>10 DEF BreaksOnce

(* The block taken is where the queue breaks, or nothing has changed.      *)
LEMMA BreaksGetBlock ==
    ASSUME LineTypes, BreaksOnce, GetBlock
    PROVE  /\ LineTypes' /\ BreaksOnce'
           /\ pc' = "reorg" => NoneReset /\ todo' = Tracked
<1>1. /\ pc = "wait" /\ block_queue # <<>> /\ block' = Head(block_queue) /\ block_queue' = Tail(block_queue)
      /\ pc' \in {"store", "block", "reorg"}
      /\ pc' = "reorg" => last # Front(block') /\ todo' = Tracked
      /\ UNCHANGED <<chain, last, mempool, reorgs, trackers, dbr>>
  <2>1. /\ pc = "wait" /\ block_queue # <<>> /\ block' = Head(block_queue) /\ block_queue' = Tail(block_queue)
        /\ IF Tracked = {} THEN pc' = "store"
           ELSE IF last = Front(block') THEN pc' = "block" ELSE pc' = "reorg" /\ todo' = Tracked
    BY Zenon DEF GetBlock
  <2>2. UNCHANGED <<bitcoind, last, memory, dbr>>
    BY Zenon DEF GetBlock
  <2> QED BY <2>1, <2>2 DEF bitcoind, memory
<1>2. /\ block_queue \in Seq(Chains) /\ Len(block_queue) \in Nat /\ Len(block_queue) # 0
  BY <1>1, LenProperties, EmptySeq DEF LineTypes
<1>3. /\ block_queue' \in Seq(Chains) /\ Len(block_queue') = Len(block_queue) - 1
      /\ \A n \in 1..Len(block_queue') : block_queue'[n] = block_queue[n + 1]
      /\ block' = block_queue[1] /\ block' \in Chains
  <2>1. Head(block_queue) = block_queue[1]
    BY <1>2
  <2>2. /\ Head(block_queue) \in Chains /\ Tail(block_queue) \in Seq(Chains)
        /\ Len(Tail(block_queue)) = Len(block_queue) - 1
        /\ \A n \in 1..Len(Tail(block_queue)) : Tail(block_queue)[n] = block_queue[n + 1]
    BY <1>1, <1>2, HeadTailProperties
  <2> QED BY <1>1, <2>1, <2>2
<1>4. LineTypes'
  BY <1>1, <1>3 DEF LineTypes
<1>5. Taken' = block' /\ Taken = last
  BY <1>1 DEF Taken
<1>6. ASSUME NEW n, Breaks(n)'
      PROVE  n \in Nat /\ n >= 1 /\ Breaks(n + 1)
  <2>1. n \in 1..Len(block_queue') /\ Front(block_queue'[n]) # (IF n = 1 THEN block' ELSE block_queue'[n - 1])
    BY <1>5, <1>6 DEF Breaks, Before
  <2>2. n \in Nat /\ n >= 1 /\ n + 1 \in 1..Len(block_queue) /\ n + 1 # 1 /\ n + 1 - 1 = n
    BY <1>2, <1>3, <2>1
  <2>3. n # 1 => block_queue'[n - 1] = block_queue[n]
    <3> SUFFICES ASSUME n # 1 PROVE block_queue'[n - 1] = block_queue[n]
      OBVIOUS
    <3>1. n - 1 \in 1..Len(block_queue') /\ n - 1 + 1 = n
      BY <1>2, <1>3, <2>1, <2>2
    <3> QED BY <1>3, <3>1
  <2>4. Before(n + 1) = block_queue[n]
    BY <2>2 DEF Before
  <2>5. (IF n = 1 THEN block' ELSE block_queue'[n - 1]) = block_queue[n]
    BY <1>3, <2>3
  <2>6. block_queue'[n] = block_queue[n + 1]
    BY <1>3, <2>1
  <2> QED BY <2>1, <2>2, <2>4, <2>5, <2>6 DEF Breaks
<1>7. chain' = IF block_queue' = <<>> THEN Taken' ELSE block_queue'[Len(block_queue')]
  <2>1. chain' = block_queue[Len(block_queue)]
    BY <1>1 DEF BreaksOnce
  <2>2. CASE block_queue' = <<>>
    <3>1. Len(block_queue') = 0
      BY <2>2, EmptySeq
    <3>2. Len(block_queue) = 1
      BY <1>2, <1>3, <3>1
    <3> QED BY <1>3, <1>5, <2>1, <2>2, <3>2
  <2>3. CASE block_queue' # <<>>
    <3>1. Len(block_queue') \in Nat /\ Len(block_queue') # 0
      BY <1>3, <2>3, LenProperties, EmptySeq
    <3>2. Len(block_queue') \in 1..Len(block_queue') /\ Len(block_queue') + 1 = Len(block_queue)
      BY <1>2, <1>3, <3>1
    <3>3. block_queue'[Len(block_queue')] = block_queue[Len(block_queue') + 1]
      BY <1>3, <3>2
    <3> QED BY <2>1, <2>3, <3>2, <3>3
  <2> QED BY <2>2, <2>3
<1>8. \A m, n : Breaks(m)' /\ Breaks(n)' => m = n
  <2> SUFFICES ASSUME NEW m, NEW n, Breaks(m)', Breaks(n)' PROVE m = n
    OBVIOUS
  <2>1. m \in Nat /\ n \in Nat /\ Breaks(m + 1) /\ Breaks(n + 1)
    BY <1>6
  <2>2. m + 1 = n + 1
    BY <2>1 DEF BreaksOnce
  <2> QED BY <2>1, <2>2
<1>9. pc' = "reorg" => Breaks(1)
  <2> SUFFICES ASSUME last # Front(block') PROVE Breaks(1)
    BY <1>1
  <2>1. 1 \in 1..Len(block_queue)
    BY <1>2
  <2> QED BY <1>3, <1>5, <2>1 DEF Breaks, Before
<1>10. pc' = "reorg" => NoneReset /\ reorgs # 0 /\ \A n : ~Breaks(n)'
  <2> SUFFICES ASSUME pc' = "reorg" PROVE NoneReset /\ reorgs # 0 /\ \A n : ~Breaks(n)'
    OBVIOUS
  <2>1. NoneReset /\ reorgs # 0
    BY <1>9 DEF BreaksOnce
  <2>2. ASSUME NEW n, Breaks(n)' PROVE FALSE
    <3>1. n \in Nat /\ n >= 1 /\ Breaks(n + 1)
      BY <1>6, <2>2
    <3>2. n + 1 = 1
      BY <1>9, <3>1 DEF BreaksOnce
    <3> QED BY <3>1, <3>2
  <2> QED BY <2>1, <2>2
<1>11. NoneReset /\ pc' # "reorg" => NoneReset'
  BY <1>1 DEF NoneReset
<1>12. \A n : Breaks(n)' => NoneReset'
  BY <1>6, <1>10, <1>11 DEF BreaksOnce
<1>13. reorgs' = 0 => NoneReset' /\ \A n : ~Breaks(n)'
  BY <1>1, <1>6, <1>10, <1>11 DEF BreaksOnce
<1>14. BreaksOnce'
  BY <1>7, <1>8, <1>12, <1>13 DEF BreaksOnce
<1> QED BY <1>1, <1>4, <1>10, <1>14

LEMMA BreaksQuiet ==
    ASSUME BreaksOnce, UNCHANGED <<chain, block_queue, reorgs>>, Taken' = Taken, NoneReset => NoneReset'
    PROVE  BreaksOnce'
<1>1. \A n : Breaks(n)' <=> Breaks(n)
  BY DEF Breaks, Before
<1> QED BY <1>1 DEF BreaksOnce

(* Steps that leave the trackers alone.                                    *)
TrackersKept ==
    /\ UNCHANGED <<trackers, tx_tracker_map, dbr, handler>>
    /\ pc' = "reorg" => pc = "reorg" /\ todo' \subseteq todo

(* What a step owes to the trackers.                                       *)
TrackersHold == TrackerTypes' /\ ResetOnDisk' /\ Index' /\ (NoneReset => NoneReset')

LEMMA KeptHolds ==
    ASSUME TrackerTypes, ResetOnDisk, Index, TrackersKept
    PROVE  TrackersHold
<1>1. TrackerTypes'
  BY DEF TrackerTypes, TrackersKept
<1>2. ResetOnDisk'
  BY DEF ResetOnDisk, TrackersKept, TrackerOf
<1>3. Index'
  BY DEF Index, TrackersKept, TxOf
<1>4. NoneReset => NoneReset'
  BY DEF NoneReset, TrackersKept
<1> QED BY <1>1, <1>2, <1>3, <1>4 DEF TrackersHold

LEMMA HandlerOf ==
    ASSUME TrackerTypes
    PROVE  /\ handler.step \in {"idle", "add", "store"} /\ (handler.step = "idle" <=> handler = Idle)
           /\ handler # Idle => handler.u \in Uuids /\ handler.u \in Ids /\ handler.u \notin Locators
<1>1. Uuids \cap Locators = {}
  BY ResponderAssumption, Zenon DEF ResponderAssumption
<1> QED BY <1>1 DEF TrackerTypes, Idle, Ids

LEMMA KeptHandleBreach ==
    ASSUME EachOnce, TrackerTypes, ResetOnDisk, Index, NEW u \in Uuids, HandleBreach(u)
    PROVE  TrackersHold
<1> DEFINE r == issued_receipts'[PenaltyOf[u]]
<1>1. /\ handler = Idle /\ u \notin Tracked
      /\ handler' = IF r = "rejected" THEN Idle ELSE [step |-> "add", u |-> u, new |-> r = "sent"]
  BY Zenon DEF HandleBreach, EachOnce
<1>2. UNCHANGED <<trackers, tx_tracker_map, dbr, pc, todo>>
  <2>1. UNCHANGED <<watch, memory, dbr>>
    BY Zenon DEF HandleBreach
  <2> QED BY <2>1 DEF memory, watch
<1> HIDE DEF r
<1>3. TrackerTypes'
  BY <1>1, <1>2 DEF TrackerTypes
<1>4. u \in Ids /\ trackers[u] = None
  BY <1>1 DEF Tracked, Ids
<1>5. handler.step = "idle" /\ handler'.step \in {"idle", "add"} /\ (handler'.step = "add" => handler'.u = u)
  BY <1>1 DEF Idle
<1>6. ResetOnDisk'
  BY <1>2, <1>4, <1>5 DEF ResetOnDisk, TrackerOf
<1>7. Index'
  BY <1>2 DEF Index, TxOf
<1>8. NoneReset => NoneReset'
  BY <1>2 DEF NoneReset
<1> QED BY <1>3, <1>6, <1>7, <1>8 DEF TrackersHold

(* A tracker where there is none: memory and index take it alike.          *)
LEMMA Added ==
    ASSUME TrackerTypes, Index, NEW i \in Ids, NEW t \in Tracker, NEW new, Add(i, t, new), trackers[i] = None
    PROVE  /\ trackers' = [trackers EXCEPT ![i] = t] /\ trackers' \in [Ids -> Tracker \cup {None}]
           /\ tx_tracker_map' \in [Txs -> [Ids -> Nat]] /\ Index'
<1> DEFINE tx == t.penalty_txid
<1>1. trackers' = [trackers EXCEPT ![i] = t] /\ tx_tracker_map' = [tx_tracker_map EXCEPT ![tx][i] = @ + 1]
  BY DEF Add
<1>2. tx \in Txs /\ t # None
  <2>1. None \notin Tracker
    BY Assumed
  <2> QED BY <2>1 DEF Tracker
<1>3. trackers \in [Ids -> Tracker \cup {None}] /\ tx_tracker_map \in [Txs -> [Ids -> Nat]]
  BY DEF TrackerTypes
<1> HIDE DEF tx
<1>4. trackers' \in [Ids -> Tracker \cup {None}]
  BY <1>1, <1>3
<1>5. tx_tracker_map' \in [Txs -> [Ids -> Nat]]
  BY <1>1, <1>2, <1>3
<1>6. Index'
  <2> SUFFICES ASSUME NEW x \in Txs, NEW j \in Ids
               PROVE  tx_tracker_map'[x][j] =
                        IF trackers'[j] # None /\ trackers'[j].penalty_txid = x THEN 1 ELSE 0
    BY DEF Index, TxOf
  <2>1. tx_tracker_map[x][j] = IF trackers[j] # None /\ trackers[j].penalty_txid = x THEN 1 ELSE 0
    BY DEF Index, TxOf
  <2>2. tx_tracker_map'[x][j] = IF x = tx /\ j = i THEN tx_tracker_map[x][j] + 1 ELSE tx_tracker_map[x][j]
    BY <1>1, <1>2, <1>3
  <2>3. trackers'[j] = IF j = i THEN t ELSE trackers[j]
    BY <1>1, <1>3
  <2>4. CASE j = i
    BY <1>2, <2>1, <2>2, <2>3, <2>4 DEF tx
  <2>5. CASE j # i
    BY <2>1, <2>2, <2>3, <2>5
  <2> QED BY <2>4, <2>5
<1> QED BY <1>1, <1>4, <1>5, <1>6

LEMMA KeptAddTracker ==
    ASSUME TrackerTypes, ResetOnDisk, Index, AddTracker
    PROVE  TrackersHold
<1>1. /\ handler.step = "add" /\ Add(handler.u, TrackerOf(handler.u), handler.new)
      /\ handler' = [handler EXCEPT !.step = "store"] /\ UNCHANGED <<dbr, pc, todo>>
  BY DEF AddTracker, watch
<1>2. handler # Idle /\ handler.u \in Uuids /\ handler.u \in Ids /\ handler.u \notin Locators
  BY <1>1, HandlerOf DEF Idle
<1>3. PICK u \in Uuids : u = handler.u
  BY <1>2
<1>4. u \in Ids /\ u \notin Locators /\ trackers[u] = None /\ TrackerOf(u) \in Tracker
  BY <1>1, <1>2, <1>3, Summary DEF ResetOnDisk
<1>5. /\ trackers' = [trackers EXCEPT ![u] = TrackerOf(u)] /\ trackers' \in [Ids -> Tracker \cup {None}]
      /\ tx_tracker_map' \in [Txs -> [Ids -> Nat]] /\ Index'
  BY <1>1, <1>3, <1>4, Added
<1>6. handler \in [step : {"add", "store"}, u : Uuids, new : BOOLEAN]
  BY <1>2 DEF TrackerTypes
<1>7. handler' \in [step : {"add", "store"}, u : Uuids, new : BOOLEAN] /\ handler'.step = "store" /\ handler'.u = u
  BY <1>1, <1>3, <1>6
<1>8. TrackerTypes'
  BY <1>1, <1>5, <1>7 DEF TrackerTypes
<1>9. trackers \in [Ids -> Tracker \cup {None}] /\ \A l \in Locators : l \in Ids /\ l # u
  BY <1>4 DEF TrackerTypes, Ids
<1>10. \A i \in Ids : trackers'[i] = IF i = u THEN TrackerOf(u) ELSE trackers[i]
  BY <1>5, <1>9
<1>11. ResetOnDisk'
  <2>1. \A v \in Uuids : dbr'[v] # None => dbr'[v] = TrackerOf(v)
    BY <1>1 DEF ResetOnDisk
  <2>2. ASSUME NEW i \in Ids, trackers'[i] # dbr'[i] PROVE i = u
    BY <1>1, <1>10, <2>2 DEF ResetOnDisk
  <2>3. trackers'[u] = TrackerOf(u)
    BY <1>4, <1>10
  <2>4. ASSUME pc = "reorg" PROVE todo \subseteq Uuids /\ \A v \in todo : trackers'[LocatorOf[v]] = None
    <3>1. todo \subseteq Uuids /\ \A v \in todo : trackers[LocatorOf[v]] = None
      BY <2>4 DEF ResetOnDisk
    <3>2. \A v \in todo : LocatorOf[v] \in Locators
      BY <3>1, Assumed
    <3> QED BY <1>9, <1>10, <3>1, <3>2
  <2> QED BY <1>1, <1>7, <2>1, <2>2, <2>3, <2>4 DEF ResetOnDisk, TrackerOf
<1>12. NoneReset => NoneReset'
  BY <1>1, <1>9, <1>10 DEF NoneReset
<1> QED BY <1>5, <1>8, <1>11, <1>12 DEF TrackersHold

LEMMA KeptStoreTracker ==
    ASSUME TrackerTypes, ResetOnDisk, Index, StoreTracker
    PROVE  TrackersHold
<1>1. /\ handler.step = "store" /\ dbr' = [dbr EXCEPT ![handler.u] = TrackerOf(handler.u)] /\ handler' = Idle
      /\ UNCHANGED <<trackers, tx_tracker_map, pc, todo>>
  BY DEF StoreTracker, watch, memory
<1>2. handler.u \in Uuids /\ handler.u \in Ids /\ handler.u \notin Locators
  BY <1>1, HandlerOf DEF Idle
<1>3. PICK u \in Uuids : u = handler.u
  BY <1>2
<1>4. u \in Ids /\ u \notin Locators /\ trackers[u] = TrackerOf(u) /\ TrackerOf(u) \in Tracker
  BY <1>1, <1>2, <1>3, Summary DEF ResetOnDisk
<1>5. dbr \in [Ids -> Tracker \cup {None}] /\ dbr' = [dbr EXCEPT ![u] = TrackerOf(u)]
  BY <1>1, <1>3 DEF TrackerTypes
<1>6. TrackerTypes'
  BY <1>1, <1>4, <1>5 DEF TrackerTypes
<1>7. \A i \in Ids : dbr'[i] = IF i = u THEN TrackerOf(u) ELSE dbr[i]
  BY <1>5
<1>8. handler'.step = "idle"
  BY <1>1 DEF Idle
<1>9. ResetOnDisk'
  <2>1. \A v \in Uuids : v \in Ids
    BY DEF Ids
  <2>2. ASSUME NEW v \in Uuids, dbr'[v] # None PROVE dbr'[v] = TrackerOf(v)
    BY <1>7, <2>1, <2>2 DEF ResetOnDisk
  <2>3. ASSUME NEW i \in Ids PROVE trackers'[i] = dbr'[i]
    BY <1>1, <1>3, <1>4, <1>7 DEF ResetOnDisk
  <2>4. pc' = "reorg" => todo' \subseteq Uuids /\ \A v \in todo' : trackers'[LocatorOf[v]] = None
    BY <1>1 DEF ResetOnDisk
  <2> QED BY <1>8, <2>2, <2>3, <2>4 DEF ResetOnDisk, TrackerOf
<1>10. Index'
  BY <1>1 DEF Index, TxOf
<1>11. NoneReset => NoneReset'
  <2>1. \A l \in Locators : l \in Ids /\ l # u
    BY <1>4 DEF Ids
  <2> QED BY <1>1, <1>7, <2>1 DEF NoneReset
<1> QED BY <1>6, <1>9, <1>10, <1>11 DEF TrackersHold

LEMMA KeptExamine ==
    ASSUME TrackerTypes, ResetOnDisk, Index, Examine
    PROVE  TrackersHold
<1>1. handler.step # "store" /\ pc = "block" /\ handler' = handler /\ pc' \in {"rebroadcast", "dead"}
  <2>1. handler.step # "store" /\ pc = "block" /\ handler' = handler
    BY DEF Examine, ApiLock
  <2>2. pc' = "rebroadcast" \/ pc' = "dead"
    BY Zenon DEF Examine
  <2> QED BY <2>1, <2>2
<1>2. CASE ~(OutdatedAppointments \subseteq Tracked)
  <2>1. UNCHANGED <<trackers, tx_tracker_map, dbr>>
    BY <1>2 DEF Examine, memory
  <2>2. TrackersKept
    BY <1>1, <2>1 DEF TrackersKept
  <2> QED BY <2>2, KeptHolds
<1>3. CASE OutdatedAppointments \subseteq Tracked
  <2> DEFINE S == get_completed_trackers \cup get_outdated_trackers
  <2>1. delete_trackers(S)
    BY <1>3 DEF Examine
  <2>2. S \subseteq Tracked
    BY <1>3, DeletedAreTracked
  <2> HIDE DEF S
  <2>3. /\ trackers \in [Ids -> Tracker \cup {None}] /\ dbr \in [Ids -> Tracker \cup {None}]
        /\ tx_tracker_map \in [Txs -> [Ids -> Nat]]
    BY DEF TrackerTypes
  <2>4. /\ trackers' = [i \in Ids |-> IF i \in S THEN None ELSE trackers[i]]
        /\ dbr' = [i \in Ids |-> IF i \in S THEN None ELSE dbr[i]]
        /\ tx_tracker_map' =
             [tx \in Txs |-> [i \in Ids |-> IF i \in S /\ TxOf(i) = tx
                                            THEN tx_tracker_map[tx][i] - 1 ELSE tx_tracker_map[tx][i]]]
    BY <2>1 DEF delete_trackers
  <2>5. \A tx \in Txs, i \in Ids :
          tx_tracker_map'[tx][i] = IF trackers'[i] # None /\ trackers'[i].penalty_txid = tx THEN 1 ELSE 0
    <3> TAKE tx \in Txs, i \in Ids
    <3>1. tx_tracker_map[tx][i] = IF trackers[i] # None /\ trackers[i].penalty_txid = tx THEN 1 ELSE 0
      BY DEF Index, TxOf
    <3>2. tx_tracker_map'[tx][i] = IF i \in S /\ trackers[i].penalty_txid = tx
                                   THEN tx_tracker_map[tx][i] - 1 ELSE tx_tracker_map[tx][i]
      BY <2>4 DEF TxOf
    <3>3. trackers'[i] = IF i \in S THEN None ELSE trackers[i]
      BY <2>4
    <3>4. i \in S => trackers[i] # None
      BY <2>2 DEF Tracked
    <3> QED BY <3>1, <3>2, <3>3, <3>4
  <2>6. tx_tracker_map' \in [Txs -> [Ids -> Nat]]
    <3>1. \A tx \in Txs, i \in Ids : tx_tracker_map'[tx][i] \in Nat
      BY <2>5
    <3> DEFINE F(tx, i) == IF i \in S /\ TxOf(i) = tx THEN tx_tracker_map[tx][i] - 1 ELSE tx_tracker_map[tx][i]
    <3>2. tx_tracker_map' = [tx \in Txs |-> [i \in Ids |-> F(tx, i)]]
      BY <2>4
    <3> HIDE DEF F
    <3>3. \A tx \in Txs, i \in Ids : F(tx, i) \in Nat
      BY <3>1, <3>2
    <3> QED BY <3>2, <3>3
  <2>7. trackers' \in [Ids -> Tracker \cup {None}] /\ dbr' \in [Ids -> Tracker \cup {None}]
    BY <2>3, <2>4
  <2>8. TrackerTypes'
    BY <1>1, <2>6, <2>7 DEF TrackerTypes
  <2>9. ResetOnDisk'
    <3>1. ASSUME NEW u \in Uuids, dbr'[u] # None PROVE dbr'[u] = TrackerOf(u)
      <4>1. u \in Ids
        BY DEF Ids
      <4> QED BY <2>4, <3>1, <4>1 DEF ResetOnDisk
    <3>2. ASSUME NEW i \in Ids PROVE trackers'[i] = dbr'[i]
      BY <1>1, <2>4 DEF ResetOnDisk
    <3>3. handler.step = "add" => trackers'[handler.u] = None
      <4> SUFFICES ASSUME handler.step = "add" PROVE trackers'[handler.u] = None
        OBVIOUS
      <4>1. handler.u \in Ids /\ trackers[handler.u] = None
        BY HandlerOf DEF ResetOnDisk, Idle
      <4> QED BY <2>4, <4>1
    <3> QED BY <1>1, <3>1, <3>2, <3>3 DEF ResetOnDisk, TrackerOf
  <2>10. Index'
    BY <2>5 DEF Index, TxOf
  <2>11. NoneReset => NoneReset'
    <3>1. \A l \in Locators : l \in Ids
      BY DEF Ids
    <3> QED BY <1>1, <2>4, <3>1 DEF NoneReset
  <2> QED BY <2>8, <2>9, <2>10, <2>11 DEF TrackersHold
<1> QED BY <1>2, <1>3

(* The block taken is where the queue breaks: no tracker has been reset,   *)
(* and each has a locator of its own to be reset to.                       *)
LEMMA KeptGetBlock ==
    ASSUME LineTypes, BreaksOnce, TrackerTypes, ResetOnDisk, Index, GetBlock
    PROVE  TrackerTypes' /\ ResetOnDisk' /\ Index'
<1>1. UNCHANGED <<trackers, tx_tracker_map, dbr, handler>>
  <2>1. UNCHANGED <<memory, dbr, handler>>
    BY Zenon DEF GetBlock
  <2> QED BY <2>1 DEF memory
<1>2. CASE pc' # "reorg"
  BY <1>1, <1>2, KeptHolds DEF TrackersKept, TrackersHold
<1>3. CASE pc' = "reorg"
  <2>1. NoneReset /\ todo' = Tracked
    BY <1>3, BreaksGetBlock
  <2>2. Tracked \subseteq Uuids
    BY <2>1 DEF Tracked, NoneReset, Ids
  <2>3. \A u \in Tracked : trackers[LocatorOf[u]] = None
    BY <2>1, <2>2, Assumed DEF NoneReset
  <2>4. ResetOnDisk'
    BY <1>1, <2>1, <2>2, <2>3 DEF ResetOnDisk, TrackerOf
  <2> QED BY <1>1, <2>4 DEF TrackerTypes, Index, TxOf
<1> QED BY <1>2, <1>3

(* A tracker is reset to the locator that is its own, where there is none. *)
LEMMA KeptHandleReorg ==
    ASSUME IsInjective(LocatorOf), TrackerTypes, ResetOnDisk, Index, NEW i \in Ids, HandleReorg(i)
    PROVE  TrackersHold /\ pc = "reorg"
<1> DEFINE tx == dbr[i].penalty_txid
           l  == dbr[i].locator
           t  == [penalty_txid |-> tx, locator |-> i]
           Reset == /\ dbr[i] # None /\ ~ApiLock /\ pc' = pc
                    /\ Add(l, t, issued_receipts'[tx] = "sent") /\ dbr' = [dbr EXCEPT ![l] = t]
<1>1. pc = "reorg" /\ i \in todo /\ todo' = todo \ {i} /\ handler' = handler
  BY DEF HandleReorg
<1>2. \/ UNCHANGED <<trackers, tx_tracker_map, dbr>> /\ (pc' = pc \/ pc' = "dead")
      \/ Reset
  BY Zenon DEF HandleReorg, memory
<1>3. CASE UNCHANGED <<trackers, tx_tracker_map, dbr>> /\ (pc' = pc \/ pc' = "dead")
  <2>1. TrackersKept
    BY <1>1, <1>3 DEF TrackersKept
  <2> QED BY <1>1, <2>1, KeptHolds
<1>4. CASE Reset
  <2>1. PICK u \in Uuids : u = i
    BY <1>1 DEF ResetOnDisk
  <2>2. dbr[u] = TrackerOf(u) /\ tx = PenaltyOf[u] /\ l = LocatorOf[u] /\ handler.step # "store"
    BY <1>4, <2>1 DEF ResetOnDisk, ApiLock, TrackerOf
  <2>3. PICK k \in Locators : k = LocatorOf[u]
    BY Assumed
  <2>4. PICK s \in Tracker : s = t
    BY <2>1, <2>2, Assumed DEF Tracker
  <2>5. k \in Ids /\ k \notin Uuids /\ \A v \in Uuids : v \in Ids
    <3>1. Uuids \cap Locators = {}
      BY ResponderAssumption, Zenon DEF ResponderAssumption
    <3> QED BY <3>1 DEF Ids
  <2>6. Add(k, s, issued_receipts'[tx] = "sent") /\ dbr' = [dbr EXCEPT ![k] = s] /\ pc' = pc
    BY <1>4, <2>2, <2>3, <2>4
  <2> HIDE DEF tx, l, t, Reset
  <2>7. trackers[k] = None
    BY <1>1, <2>1, <2>3 DEF ResetOnDisk
  <2>8. /\ trackers' = [trackers EXCEPT ![k] = s] /\ trackers' \in [Ids -> Tracker \cup {None}]
        /\ tx_tracker_map' \in [Txs -> [Ids -> Nat]] /\ Index'
    BY <2>5, <2>6, <2>7, Added
  <2>9. trackers \in [Ids -> Tracker \cup {None}] /\ dbr \in [Ids -> Tracker \cup {None}]
    BY DEF TrackerTypes
  <2>10. TrackerTypes'
    BY <1>1, <2>5, <2>6, <2>8, <2>9 DEF TrackerTypes
  <2>11. \A j \in Ids : /\ trackers'[j] = IF j = k THEN s ELSE trackers[j]
                        /\ dbr'[j] = IF j = k THEN s ELSE dbr[j]
    BY <2>6, <2>8, <2>9
  <2>12. ResetOnDisk'
    <3>1. ASSUME NEW v \in Uuids, dbr'[v] # None PROVE dbr'[v] = TrackerOf(v)
      BY <2>5, <2>11, <3>1 DEF ResetOnDisk
    <3>2. ASSUME NEW j \in Ids PROVE trackers'[j] = dbr'[j]
      BY <2>2, <2>11 DEF ResetOnDisk
    <3>3. handler.step = "add" => trackers'[handler.u] = None
      <4> SUFFICES ASSUME handler.step = "add" PROVE trackers'[handler.u] = None
        OBVIOUS
      <4>1. handler.u \in Uuids /\ handler.u \in Ids /\ trackers[handler.u] = None
        BY HandlerOf DEF ResetOnDisk, Idle
      <4> QED BY <2>5, <2>11, <4>1
    <3>4. todo \ {i} \subseteq Uuids /\ \A v \in todo \ {i} : trackers'[LocatorOf[v]] = None
      <4>1. todo \subseteq Uuids /\ \A v \in todo : trackers[LocatorOf[v]] = None
        BY <1>1 DEF ResetOnDisk
      <4>2. ASSUME NEW v \in todo \ {i} PROVE LocatorOf[v] # k /\ LocatorOf[v] \in Ids
        <5>1. LocatorOf \in [Uuids -> Locators]
          BY ResponderAssumption, Zenon DEF ResponderAssumption
        <5>2. v \in Uuids /\ v # u
          BY <2>1, <4>1
        <5> QED BY <2>3, <5>1, <5>2 DEF IsInjective, Ids
      <4> QED BY <2>11, <4>1, <4>2
    <3> QED BY <1>1, <2>2, <3>1, <3>2, <3>3, <3>4 DEF ResetOnDisk, TrackerOf
  <2> QED BY <1>1, <2>8, <2>10, <2>12 DEF TrackersHold, NoneReset
<1> QED BY <1>2, <1>3, <1>4

LEMMA ReorgInit == EveryBlock /\ EachOnce /\ Init => ReorgInv
<1> SUFFICES ASSUME EveryBlock, EachOnce, Init PROVE ReorgInv
  OBVIOUS
<1>1. <<>> \in Chains /\ <<>> \in Seq(Chains) /\ Len(<<>>) = 0
  BY EmptySeq DEF Chains
<1>2. LineTypes /\ reorgs = 0 /\ restarts = 0 /\ chain = Taken /\ block_queue = <<>> /\ pc = "wait"
  BY <1>1 DEF Init, LineTypes, Taken
<1>3. /\ trackers = [i \in Ids |-> None] /\ dbr = trackers /\ tx_tracker_map = [tx \in Txs |-> [i \in Ids |-> 0]]
      /\ handler = Idle
  BY DEF Init
<1>4. NoneReset /\ \A n : ~Breaks(n)
  <2>1. \A l \in Locators : l \in Ids
    BY DEF Ids
  <2>2. \A n : n \notin 1..Len(block_queue)
    BY <1>1, <1>2
  <2> QED BY <1>2, <1>3, <2>1, <2>2 DEF NoneReset, Breaks
<1>5. BreaksOnce
  BY <1>2, <1>4 DEF BreaksOnce
<1>6. TrackerTypes
  BY <1>3 DEF TrackerTypes
<1>7. ResetOnDisk
  <2>1. \A u \in Uuids : u \in Ids
    BY DEF Ids
  <2> QED BY <1>2, <1>3, <2>1 DEF ResetOnDisk, Idle
<1>8. Index
  BY <1>3 DEF Index, TxOf
<1> QED BY <1>2, <1>5, <1>6, <1>7, <1>8, Assumed DEF ReorgInv

(* Steps that move no block but into last.                                 *)
LEMMA QuietLine ==
    ASSUME LineTypes, TrackerTypes,
           \/ \E tx \in Txs : Evict(tx)
           \/ \E u \in Uuids : HandleBreach(u)
           \/ AddTracker \/ StoreTracker \/ Examine \/ Rebroadcast \/ ClearReceipts \/ StoreLast
           \/ (\E i \in Ids : HandleReorg(i)) \/ HandledReorg
           \/ UNCHANGED vars
    PROVE  LineTypes' /\ UNCHANGED <<chain, block_queue, reorgs, restarts>> /\ Taken' = Taken
<1> DEFINE Stay == UNCHANGED <<chain, block_queue, reorgs, restarts, last, block>> /\ mempool' \subseteq Txs
                   /\ (pc' = "wait" <=> pc = "wait")
<1>1. Stay => LineTypes' /\ UNCHANGED <<chain, block_queue, reorgs, restarts>> /\ Taken' = Taken
  BY DEF LineTypes, Taken
<1>2. mempool \subseteq Txs
  BY DEF LineTypes
<1>3. CASE \E tx \in Txs : Evict(tx)
  BY <1>1, <1>2, <1>3 DEF Evict, feed, watch
<1>4. ASSUME NEW u \in Uuids, HandleBreach(u) PROVE Stay
  <2>1. {PenaltyOf[u]} \in SUBSET Txs
    BY Assumed
  <2>2. SendAll({PenaltyOf[u]}) /\ UNCHANGED <<chain, reorgs, feed, watch>>
    BY <1>4, Zenon DEF HandleBreach
  <2>3. mempool' \subseteq Txs
    BY <1>2, <2>1, <2>2, SendAllTypes
  <2> QED BY <2>2, <2>3 DEF feed, watch
<1>5. CASE AddTracker
  BY <1>1, <1>2, <1>5 DEF AddTracker, bitcoind, feed, watch
<1>6. CASE StoreTracker
  BY <1>1, <1>2, <1>6 DEF StoreTracker, bitcoind, feed, watch
<1>7. CASE Examine
  <2>1. pc = "block" /\ (pc' = "rebroadcast" \/ pc' = "dead") /\ UNCHANGED <<bitcoind, feed, block>>
    BY <1>7, Zenon DEF Examine
  <2> QED BY <1>1, <1>2, <2>1 DEF bitcoind, feed
<1>8. CASE Rebroadcast
  <2>1. /\ pc = "rebroadcast" /\ (pc' = "clear" \/ pc' = "dead") /\ UNCHANGED <<chain, reorgs, feed, block>>
        /\ UNCHANGED mempool \/ SendAll(get_txs_to_rebroadcast)
    BY <1>8 DEF Rebroadcast
  <2>2. get_txs_to_rebroadcast \in SUBSET Txs
    BY DEF get_txs_to_rebroadcast
  <2>3. mempool' \subseteq Txs
    BY <1>2, <2>1, <2>2, SendAllTypes
  <2> QED BY <1>1, <2>1, <2>3 DEF feed
<1>9. CASE ClearReceipts
  BY <1>1, <1>2, <1>9 DEF ClearReceipts, bitcoind, feed
<1>10. CASE StoreLast
  BY <1>10 DEF StoreLast, bitcoind, LineTypes, Taken
<1>11. ASSUME NEW i \in Ids, HandleReorg(i) PROVE Stay
  <2> DEFINE tx == dbr[i].penalty_txid
  <2>1. /\ pc = "reorg" /\ (pc' = "reorg" \/ pc' = "dead") /\ UNCHANGED <<chain, reorgs, feed, block>>
        /\ UNCHANGED mempool \/ (dbr[i] # None /\ SendAll({tx}))
    BY <1>11 DEF HandleReorg
  <2>2. dbr[i] # None => {tx} \in SUBSET Txs
    BY DEF TrackerTypes, Tracker
  <2> HIDE DEF tx
  <2>3. mempool' \subseteq Txs
    BY <1>2, <2>1, <2>2, SendAllTypes
  <2> QED BY <2>1, <2>3 DEF feed
<1>12. CASE HandledReorg
  BY <1>1, <1>2, <1>12 DEF HandledReorg, bitcoind, feed
<1>13. CASE UNCHANGED vars
  BY <1>1, <1>2, <1>13 DEF vars, bitcoind, feed, watch
<1> QED BY <1>1, <1>3, <1>4, <1>5, <1>6, <1>7, <1>8, <1>9, <1>10, <1>11, <1>12, <1>13

LEMMA KeptBy ==
    ASSUME \/ \E txs \in SUBSET mempool, told \in BOOLEAN : NewBlock(txs, told)
           \/ \E txs, back \in SUBSET Txs : Reorg(txs, back)
           \/ \E tx \in Txs : Evict(tx)
           \/ Rebroadcast \/ ClearReceipts \/ StoreLast \/ HandledReorg \/ UNCHANGED vars
    PROVE  TrackersKept
<1> USE DEF TrackersKept, memory, watch
<1>1. CASE \E txs \in SUBSET mempool, told \in BOOLEAN : NewBlock(txs, told)
  BY <1>1 DEF NewBlock
<1>2. CASE \E txs, back \in SUBSET Txs : Reorg(txs, back)
  BY <1>2 DEF Reorg
<1>3. CASE \E tx \in Txs : Evict(tx)
  BY <1>3 DEF Evict
<1>4. CASE Rebroadcast
  <2>1. (pc' = "clear" \/ pc' = "dead") /\ UNCHANGED <<trackers, tx_tracker_map, dbr, handler>>
    BY <1>4 DEF Rebroadcast
  <2> QED BY <2>1
<1>5. CASE ClearReceipts
  BY <1>5 DEF ClearReceipts
<1>6. CASE StoreLast
  BY <1>6 DEF StoreLast
<1>7. CASE HandledReorg
  BY <1>7 DEF HandledReorg
<1>8. CASE UNCHANGED vars
  BY <1>8 DEF vars
<1> QED BY <1>1, <1>2, <1>3, <1>4, <1>5, <1>6, <1>7, <1>8

(* Reorgs and restarts are only counted up.                                *)
LEMMA Counting ==
    ASSUME [Next]_vars, reorgs \in 0..MaxReorgs, restarts \in 0..MaxRestarts
    PROVE  /\ reorgs' \in 0..MaxReorgs /\ restarts' \in 0..MaxRestarts
           /\ reorgs' >= reorgs /\ restarts' >= restarts
           /\ (\E txs, back \in SUBSET Txs : Reorg(txs, back)) => reorgs' = reorgs + 1
           /\ Restart => restarts' = restarts + 1
<1>1. (\E txs, back \in SUBSET Txs : Reorg(txs, back)) =>
          reorgs' = reorgs + 1 /\ reorgs < MaxReorgs /\ restarts' = restarts
  BY DEF Reorg
<1>2. Restart => restarts' = restarts + 1 /\ restarts < MaxRestarts /\ reorgs' = reorgs
  BY DEF Restart, bitcoind
<1>3. \/ \E txs, back \in SUBSET Txs : Reorg(txs, back)
      \/ Restart
      \/ reorgs' = reorgs /\ restarts' = restarts
  BY Zenon DEF Next, NewBlock, Evict, HandleBreach, AddTracker, StoreTracker, WatchThread, GetBlock, Rebroadcast,
      ClearReceipts, StoreLast, HandleReorg, HandledReorg, Examine, bitcoind, feed, vars
<1> QED BY <1>1, <1>2, <1>3, Assumed

LEMMA ReorgStep == ReorgInv /\ [Next]_vars => ReorgInv'
<1> SUFFICES ASSUME ReorgInv, [Next]_vars PROVE ReorgInv'
  OBVIOUS
<1>1. EveryBlock /\ EachOnce /\ reorgs \in 0..MaxReorgs /\ restarts \in 0..MaxRestarts
  BY DEF ReorgInv
<1>2. /\ reorgs' \in 0..MaxReorgs /\ restarts' \in 0..MaxRestarts
      /\ reorgs' >= reorgs /\ restarts' >= restarts
      /\ (\E txs, back \in SUBSET Txs : Reorg(txs, back)) => reorgs' = reorgs + 1
      /\ Restart => restarts' = restarts + 1
  BY <1>1, Counting
<1> SUFFICES ASSUME OneReorg' PROVE LineTypes' /\ BreaksOnce' /\ TrackerTypes' /\ ResetOnDisk' /\ Index'
  BY <1>1, <1>2 DEF ReorgInv, EveryBlock, EachOnce
<1>3. OneReorg /\ ~Restart /\ ((\E txs, back \in SUBSET Txs : Reorg(txs, back)) => reorgs = 0)
  BY <1>1, <1>2, Assumed DEF OneReorg
<1>4. LineTypes /\ BreaksOnce /\ TrackerTypes /\ ResetOnDisk /\ Index /\ IsInjective(LocatorOf)
  BY <1>3 DEF ReorgInv, OneReorg
<1>5. ASSUME NEW txs \in SUBSET mempool, NEW told \in BOOLEAN, NewBlock(txs, told)
      PROVE  LineTypes' /\ BreaksOnce' /\ TrackersHold
  BY <1>1, <1>4, <1>5, BreaksNewBlock, KeptBy, KeptHolds
<1>6. ASSUME NEW txs \in SUBSET Txs, NEW back \in SUBSET Txs, Reorg(txs, back)
      PROVE  LineTypes' /\ BreaksOnce' /\ TrackersHold
  BY <1>3, <1>4, <1>6, BreaksReorg, KeptBy, KeptHolds, Assumed
<1>7. CASE GetBlock
  BY <1>4, <1>7, BreaksGetBlock, KeptGetBlock
<1>8. CASE \/ \E tx \in Txs : Evict(tx)
           \/ \E u \in Uuids : HandleBreach(u)
           \/ AddTracker \/ StoreTracker \/ Examine \/ Rebroadcast \/ ClearReceipts \/ StoreLast
           \/ (\E i \in Ids : HandleReorg(i)) \/ HandledReorg
           \/ UNCHANGED vars
  <2>1. LineTypes' /\ UNCHANGED <<chain, block_queue, reorgs, restarts>> /\ Taken' = Taken
    BY <1>4, <1>8, QuietLine
  <2>2. TrackersHold
    <3>1. ASSUME NEW u \in Uuids, HandleBreach(u) PROVE TrackersHold
      BY <1>1, <1>4, <3>1, KeptHandleBreach
    <3>2. ASSUME NEW i \in Ids, HandleReorg(i) PROVE TrackersHold
      BY <1>4, <3>2, KeptHandleReorg
    <3>3. CASE AddTracker
      BY <1>4, <3>3, KeptAddTracker
    <3>4. CASE StoreTracker
      BY <1>4, <3>4, KeptStoreTracker
    <3>5. CASE Examine
      BY <1>4, <3>5, KeptExamine
    <3>6. CASE \/ \E tx \in Txs : Evict(tx)
               \/ Rebroadcast \/ ClearReceipts \/ StoreLast \/ HandledReorg \/ UNCHANGED vars
      BY <1>4, <3>6, KeptBy, KeptHolds
    <3> QED BY <1>8, <3>1, <3>2, <3>3, <3>4, <3>5, <3>6
  <2>3. BreaksOnce'
    BY <1>4, <2>1, <2>2, BreaksQuiet DEF TrackersHold
  <2> QED BY <2>1, <2>2, <2>3 DEF TrackersHold
<1> QED BY <1>3, <1>5, <1>6, <1>7, <1>8 DEF Next, WatchThread, TrackersHold

-----------------------------------------------------------------------------
(* Whatever is skipped, late, handed over again or reset, no tracker is    *)
(* missing from the map.                                                   *)

ListedInv == TrackerTypes /\ TrackersAreListed

LEMMA AddListed ==
    ASSUME TrackersAreListed, NEW i \in Ids, NEW t \in Tracker, NEW new, Add(i, t, new),
           trackers \in [Ids -> Tracker \cup {None}], tx_tracker_map \in [Txs -> [Ids -> Nat]]
    PROVE  /\ trackers' \in [Ids -> Tracker \cup {None}] /\ tx_tracker_map' \in [Txs -> [Ids -> Nat]]
           /\ TrackersAreListed'
<1> DEFINE tx == t.penalty_txid
<1>1. trackers' = [trackers EXCEPT ![i] = t] /\ tx_tracker_map' = [tx_tracker_map EXCEPT ![tx][i] = @ + 1]
  BY DEF Add
<1>2. tx \in Txs
  BY DEF Tracker
<1>3. trackers' \in [Ids -> Tracker \cup {None}]
  BY <1>1
<1> HIDE DEF tx
<1>4. /\ tx_tracker_map' \in [Txs -> [Ids -> Nat]] /\ tx_tracker_map'[tx][i] > 0
      /\ \A x \in Txs, k \in Ids : tx_tracker_map[x][k] > 0 => tx_tracker_map'[x][k] > 0
  BY <1>1, <1>2
<1>5. ASSUME NEW k \in Ids, trackers'[k] # None PROVE tx_tracker_map'[trackers'[k].penalty_txid][k] > 0
  <2>1. CASE k = i
    <3>1. trackers'[k] = t
      BY <1>1, <2>1
    <3> QED BY <1>4, <2>1, <3>1 DEF tx
  <2>2. CASE k # i
    <3>1. trackers'[k] = trackers[k] /\ trackers[k] \in Tracker
      BY <1>1, <1>5, <2>2
    <3>2. trackers[k].penalty_txid \in Txs /\ tx_tracker_map[trackers[k].penalty_txid][k] > 0
      BY <1>5, <3>1 DEF TrackersAreListed, Tracked, TxOf, Tracker
    <3> QED BY <1>4, <3>1, <3>2
  <2> QED BY <2>1, <2>2
<1> QED BY <1>3, <1>4, <1>5 DEF TrackersAreListed, Tracked, TxOf

LEMMA DeleteListed ==
    ASSUME TrackerTypes, TrackersAreListed, NEW S \in SUBSET Tracked, delete_trackers(S)
    PROVE  /\ trackers' \in [Ids -> Tracker \cup {None}] /\ dbr' \in [Ids -> Tracker \cup {None}]
           /\ tx_tracker_map' \in [Txs -> [Ids -> Nat]] /\ TrackersAreListed'
<1>1. /\ trackers' = [i \in Ids |-> IF i \in S THEN None ELSE trackers[i]]
      /\ dbr' = [i \in Ids |-> IF i \in S THEN None ELSE dbr[i]]
      /\ tx_tracker_map' = [tx \in Txs |-> [i \in Ids |-> IF i \in S /\ TxOf(i) = tx
                                THEN tx_tracker_map[tx][i] - 1 ELSE tx_tracker_map[tx][i]]]
  BY DEF delete_trackers
<1>2. /\ trackers \in [Ids -> Tracker \cup {None}] /\ dbr \in [Ids -> Tracker \cup {None}]
      /\ tx_tracker_map \in [Txs -> [Ids -> Nat]]
  BY DEF TrackerTypes
<1>3. trackers' \in [Ids -> Tracker \cup {None}] /\ dbr' \in [Ids -> Tracker \cup {None}]
  BY <1>1, <1>2
<1>4. ASSUME NEW tx \in Txs, NEW i \in Ids, i \in S, TxOf(i) = tx PROVE tx_tracker_map[tx][i] - 1 \in Nat
  BY <1>2, <1>4 DEF TrackersAreListed
<1>5. tx_tracker_map' \in [Txs -> [Ids -> Nat]]
  BY <1>1, <1>2, <1>4
<1>6. ASSUME NEW k \in Ids, trackers'[k] # None PROVE tx_tracker_map'[trackers'[k].penalty_txid][k] > 0
  <2>1. k \notin S /\ trackers'[k] = trackers[k] /\ trackers[k] \in Tracker
    BY <1>1, <1>2, <1>6
  <2>2. trackers[k].penalty_txid \in Txs /\ tx_tracker_map[trackers[k].penalty_txid][k] > 0
    BY <1>6, <2>1 DEF TrackersAreListed, Tracked, TxOf, Tracker
  <2> QED BY <1>1, <2>1, <2>2
<1> QED BY <1>3, <1>5, <1>6 DEF TrackersAreListed, Tracked, TxOf

LEMMA ListedAlone ==
    ASSUME ListedInv, UNCHANGED <<trackers, tx_tracker_map, dbr, handler>>
    PROVE  ListedInv'
BY DEF ListedInv, TrackerTypes, TrackersAreListed, Tracked, TxOf

LEMMA ListedInit == Init => ListedInv
<1> SUFFICES ASSUME Init PROVE ListedInv
  OBVIOUS
<1>1. /\ trackers = [i \in Ids |-> None] /\ dbr = trackers /\ tx_tracker_map = [tx \in Txs |-> [i \in Ids |-> 0]]
      /\ handler = Idle
  BY DEF Init
<1> QED BY <1>1 DEF ListedInv, TrackerTypes, TrackersAreListed, Tracked

LEMMA ListedHandler ==
    ASSUME ListedInv, (\E u \in Uuids : HandleBreach(u)) \/ AddTracker \/ StoreTracker
    PROVE  ListedInv'
<1>1. /\ trackers \in [Ids -> Tracker \cup {None}] /\ dbr \in [Ids -> Tracker \cup {None}]
      /\ tx_tracker_map \in [Txs -> [Ids -> Nat]] /\ TrackersAreListed
      /\ handler \in {Idle} \cup [step : {"add", "store"}, u : Uuids, new : BOOLEAN]
  BY DEF ListedInv, TrackerTypes
<1>2. ASSUME handler.step \in {"add", "store"}
      PROVE  /\ handler.u \in Uuids /\ handler.u \in Ids /\ TrackerOf(handler.u) \in Tracker
             /\ handler \in [step : {"add", "store"}, u : Uuids, new : BOOLEAN]
  <2>1. handler \in [step : {"add", "store"}, u : Uuids, new : BOOLEAN]
    BY <1>1, <1>2 DEF Idle
  <2>2. handler.u \in Uuids
    BY <2>1
  <2> QED BY <2>1, <2>2, Summary DEF Ids
<1>3. ASSUME NEW u \in Uuids, HandleBreach(u) PROVE ListedInv'
  <2> DEFINE r == issued_receipts'[PenaltyOf[u]]
  <2>1. /\ handler' = IF r = "rejected" THEN Idle ELSE [step |-> "add", u |-> u, new |-> r = "sent"]
        /\ UNCHANGED <<memory, dbr>>
    BY <1>3, Zenon DEF HandleBreach
  <2> HIDE DEF r
  <2>2. handler' \in {Idle} \cup [step : {"add", "store"}, u : Uuids, new : BOOLEAN]
    BY <2>1
  <2> QED BY <1>1, <2>1, <2>2 DEF memory, ListedInv, TrackerTypes, TrackersAreListed, Tracked, TxOf
<1>4. CASE AddTracker
  <2>1. /\ handler.step = "add" /\ Add(handler.u, TrackerOf(handler.u), handler.new)
        /\ handler' = [handler EXCEPT !.step = "store"] /\ UNCHANGED dbr
    BY <1>4 DEF AddTracker
  <2>2. handler' \in {Idle} \cup [step : {"add", "store"}, u : Uuids, new : BOOLEAN]
    BY <1>2, <2>1
  <2>3. /\ trackers' \in [Ids -> Tracker \cup {None}] /\ tx_tracker_map' \in [Txs -> [Ids -> Nat]]
        /\ TrackersAreListed'
    BY <1>1, <1>2, <2>1, AddListed
  <2> QED BY <1>1, <2>1, <2>2, <2>3 DEF ListedInv, TrackerTypes
<1>5. CASE StoreTracker
  <2>1. /\ handler.step = "store" /\ dbr' = [dbr EXCEPT ![handler.u] = TrackerOf(handler.u)]
        /\ handler' = Idle /\ UNCHANGED memory
    BY <1>5 DEF StoreTracker
  <2>2. dbr' \in [Ids -> Tracker \cup {None}]
    BY <1>1, <1>2, <2>1
  <2> QED BY <1>1, <2>1, <2>2 DEF memory, ListedInv, TrackerTypes, TrackersAreListed, Tracked, TxOf
<1> QED BY <1>3, <1>4, <1>5

LEMMA ListedReorg ==
    ASSUME ListedInv, NEW i \in Ids, HandleReorg(i)
    PROVE  ListedInv'
<1>1. /\ trackers \in [Ids -> Tracker \cup {None}] /\ dbr \in [Ids -> Tracker \cup {None}]
      /\ tx_tracker_map \in [Txs -> [Ids -> Nat]] /\ TrackersAreListed
  BY DEF ListedInv, TrackerTypes
<1> DEFINE tx == dbr[i].penalty_txid
           t == [penalty_txid |-> tx, locator |-> i]
<1>2. UNCHANGED handler
  BY Zenon DEF HandleReorg
<1>3. \/ UNCHANGED <<trackers, tx_tracker_map, dbr>>
      \/ /\ dbr[i] # None
         /\ \E new \in BOOLEAN : Add(dbr[i].locator, t, new)
         /\ dbr' = [dbr EXCEPT ![dbr[i].locator] = t]
  BY DEF HandleReorg, memory
<1>4. CASE UNCHANGED <<trackers, tx_tracker_map, dbr>>
  BY <1>2, <1>4, ListedAlone
<1>5. CASE /\ dbr[i] # None
           /\ \E new \in BOOLEAN : Add(dbr[i].locator, t, new)
           /\ dbr' = [dbr EXCEPT ![dbr[i].locator] = t]
  <2>1. dbr[i] \in Tracker
    BY <1>1, <1>5
  <2>2. dbr[i].locator \in Ids /\ t \in Tracker
    BY <2>1 DEF Tracker
  <2>3. PICK new \in BOOLEAN : Add(dbr[i].locator, t, new)
    BY <1>5
  <2> HIDE DEF t
  <2>4. /\ trackers' \in [Ids -> Tracker \cup {None}] /\ tx_tracker_map' \in [Txs -> [Ids -> Nat]]
        /\ TrackersAreListed'
    BY <1>1, <2>2, <2>3, AddListed
  <2>5. dbr' \in [Ids -> Tracker \cup {None}]
    BY <1>1, <1>5, <2>2
  <2> QED BY <1>2, <2>4, <2>5 DEF ListedInv, TrackerTypes
<1> QED BY <1>3, <1>4, <1>5

LEMMA ListedStep == ListedInv /\ [Next]_vars => ListedInv'
<1> SUFFICES ASSUME ListedInv, [Next]_vars PROVE ListedInv'
  OBVIOUS
<1>1. CASE (\E u \in Uuids : HandleBreach(u)) \/ AddTracker \/ StoreTracker
  BY <1>1, ListedHandler
<1>2. CASE \E i \in Ids : HandleReorg(i)
  BY <1>2, ListedReorg
<1>3. CASE Examine
  <2>1. UNCHANGED handler
    BY <1>3 DEF Examine
  <2>2. CASE OutdatedAppointments \subseteq Tracked
    <3>1. delete_trackers(get_completed_trackers \cup get_outdated_trackers)
      BY <1>3, <2>2 DEF Examine
    <3>2. get_completed_trackers \cup get_outdated_trackers \in SUBSET Tracked
      BY <2>2, DeletedAreTracked
    <3> QED BY <2>1, <3>1, <3>2, DeleteListed DEF ListedInv, TrackerTypes
  <2>3. CASE ~(OutdatedAppointments \subseteq Tracked)
    <3>1. UNCHANGED <<trackers, tx_tracker_map, dbr>>
      BY <1>3, <2>3 DEF Examine, memory
    <3> QED BY <2>1, <3>1, ListedAlone
  <2> QED BY <2>2, <2>3
<1>4. CASE Restart
  <2>1. trackers' = dbr /\ tx_tracker_map' = build_tx_tracker_map /\ UNCHANGED dbr /\ handler' = Idle
    BY <1>4, Zenon DEF Restart
  <2>2. dbr \in [Ids -> Tracker \cup {None}]
    BY DEF ListedInv, TrackerTypes
  <2>3. build_tx_tracker_map \in [Txs -> [Ids -> Nat]]
    BY DEF build_tx_tracker_map
  <2>4. TrackersAreListed'
    BY <2>1, <2>2 DEF TrackersAreListed, Tracked, TxOf, build_tx_tracker_map, Tracker
  <2> QED BY <2>1, <2>2, <2>3, <2>4 DEF ListedInv, TrackerTypes
<1>5. CASE \/ \E txs \in SUBSET mempool, told \in BOOLEAN : NewBlock(txs, told)
           \/ \E txs, back \in SUBSET Txs : Reorg(txs, back)
           \/ \E tx \in Txs : Evict(tx)
  <2>1. UNCHANGED <<memory, dbr, handler>>
    BY <1>5 DEF NewBlock, Reorg, Evict
  <2> QED BY <2>1, ListedAlone DEF memory
<1>6. CASE GetBlock \/ Rebroadcast \/ ClearReceipts \/ StoreLast \/ HandledReorg \/ UNCHANGED vars
  <2>1. UNCHANGED <<trackers, tx_tracker_map, dbr, handler>>
    BY <1>6 DEF GetBlock, Rebroadcast, ClearReceipts, StoreLast, HandledReorg, vars, memory
  <2> QED BY <2>1, ListedAlone
<1> QED BY <1>1, <1>2, <1>3, <1>4, <1>5, <1>6 DEF Next, WatchThread

(* Every tracker is listed under its penalty, so that delete_trackers      *)
(* finds it there: over any number of reorgs and restarts, and whatever    *)
(* the Watcher hands over twice.                                           *)
THEOREM TrackersAreListedHolds == Spec => []TrackersAreListed
<1>1. ListedInv => TrackersAreListed
  BY DEF ListedInv
<1> QED BY <1>1, ListedInit, ListedStep, PTL DEF Spec

(* While the chain only grows, over restarts too, and over one reorg       *)
(* without restarts, tx_tracker_map lists the trackers of each penalty,    *)
(* each of them once, if the Watcher hands over none that is tracked.      *)
THEOREM MapIsIndexHolds == EveryBlock /\ EachOnce /\ Spec => []MapIsIndex
<1>1. TrackersAreListed /\ MemoryInv /\ ReorgInv => MapIsIndex
  <2> SUFFICES ASSUME MemoryInv, ReorgInv,
                      reorgs = 0 \/ (reorgs = 1 /\ restarts = 0 /\ IsInjective(LocatorOf))
               PROVE  Index
    BY DEF MapIsIndex, Index
  <2>1. CASE reorgs = 0
    BY <2>1 DEF MemoryInv
  <2>2. CASE reorgs = 1 /\ restarts = 0 /\ IsInjective(LocatorOf)
    BY <2>2 DEF ReorgInv, OneReorg
  <2> QED BY <2>1, <2>2
<1> QED BY <1>1, TrackersAreListedHolds, MemoryInit, MemoryStep, OrderInvariance, ReorgInit, ReorgStep, PTL DEF Spec

-----------------------------------------------------------------------------
(* The list of the unconfirmed.                                            *)

LEMMA ExaminedIs ==
    ASSUME BlockTypes, BlocksInOrder
    PROVE  /\ Reached \in Nat
           /\ pc \in {"rebroadcast", "clear", "store"} => Examined = block /\ Reached = Len(block)
           /\ pc \in {"wait", "block"} => Examined = last /\ Reached = Len(last)
           /\ pc = "dead" => Examined = last /\ Reached = Len(block)
<1>1. Len(last) \in Nat /\ Len(block) \in Nat
  BY LenProperties DEF BlockTypes, Chains
<1> QED BY <1>1 DEF Examined, Reached, BlockTypes

LEMMA ReachedIsNat ==
    ASSUME BlockTypes, BlockTypes'
    PROVE  Reached \in Nat /\ Reached' \in Nat
<1>1. Len(last) \in Nat /\ Len(block) \in Nat /\ Len(last') \in Nat /\ Len(block') \in Nat
  BY LenProperties DEF BlockTypes, Chains
<1> QED BY <1>1 DEF Reached

(* What is in no block up to the last is in none before it.                *)
LEMMA UnminedBefore ==
    ASSUME BlockTypes, BlocksInOrder, pc # "wait", NEW tx, MinedAt(tx, block) = 0
    PROVE  MinedAt(tx, last) = 0
<1>1. /\ Len(block) \in 1..Len(chain) /\ block = SubSeq(chain, 1, Len(block))
      /\ last = SubSeq(chain, 1, Len(block) - 1) /\ chain \in Chains
  BY TakenIsPrefix DEF BlockTypes, BlocksInOrder
<1>2. Len(chain) \in Nat
  BY LenProperties DEF BlockTypes, Chains
<1> DEFINE n == Len(block)
           m == Len(block) - 1
<1>3. n \in 0..Len(chain) /\ m \in 0..n
  BY <1>1, <1>2
<1>4. MinedAt(tx, SubSeq(chain, 1, n)) = 0
  BY <1>1
<1> HIDE DEF n, m
<1>5. MinedAt(tx, SubSeq(chain, 1, m)) = 0
  BY <1>1, <1>3, <1>4, UnminedPrefix
<1> QED BY <1>1, <1>5 DEF m

LEMMA RanOutGrows ==
    ASSUME BlockTypes, BlocksInOrder, BlockTypes', BlocksInOrder', Reached <= Reached', NEW tx, RanOut(tx)
    PROVE  RanOut(tx)'
<1>1. PICK u \in Uuids : PenaltyOf[u] = tx /\ OutdatedAt[u] <= Reached
  BY DEF RanOut
<1>2. Reached \in Nat /\ Reached' \in Nat
  BY ReachedIsNat
<1>3. OutdatedAt[u] \in Nat
  BY Assumed
<1>4. OutdatedAt[u] <= Reached'
  BY <1>1, <1>2, <1>3
<1> QED BY <1>1, <1>4 DEF RanOut

(* Steps that leave list and trackers alone, and mine nothing.             *)
ListStays ==
    /\ UNCHANGED <<trackers, unconfirmed_txs>> /\ (handler'.step = "add" => handler' = handler)
    /\ \A tx : MinedAt(tx, Examined) = 0 => MinedAt(tx, Examined') = 0
    /\ Reached <= Reached'

LEMMA ListStaysBy ==
    ASSUME BlockTypes, BlocksInOrder, BlockTypes', BlocksInOrder', MemoryTypes,
           \/ \E txs \in SUBSET mempool, told \in BOOLEAN : NewBlock(txs, told)
           \/ \E tx \in Txs : Evict(tx)
           \/ StoreTracker \/ Rebroadcast \/ ClearReceipts \/ StoreLast \/ UNCHANGED vars
    PROVE  ListStays
<1>1. UNCHANGED <<trackers, unconfirmed_txs>>
  BY DEF NewBlock, Evict, StoreTracker, Rebroadcast, ClearReceipts, StoreLast, vars, memory
<1>2. handler'.step = "add" => handler' = handler
  <2>1. CASE StoreTracker
    BY <2>1 DEF StoreTracker, Idle
  <2>2. CASE ~StoreTracker
    BY <2>2 DEF NewBlock, Evict, Rebroadcast, ClearReceipts, StoreLast, vars
  <2> QED BY <2>1, <2>2
<1>3. Reached \in Nat /\ Reached' \in Nat
  BY ReachedIsNat
<1>4. CASE UNCHANGED <<block, last, pc>>
  <2>1. Examined' = Examined /\ Reached' = Reached
    BY <1>4 DEF Examined, Reached
  <2>2. \A tx : MinedAt(tx, Examined') = MinedAt(tx, Examined)
    BY <2>1 DEF MinedAt
  <2> QED BY <1>1, <1>2, <1>3, <2>1, <2>2 DEF ListStays
<1>5. CASE Rebroadcast
  <2>1. pc = "rebroadcast" /\ pc' \in {"clear", "dead"} /\ UNCHANGED <<block, last>>
    BY <1>5 DEF Rebroadcast, feed
  <2>2. Examined = block /\ Reached = Len(block) /\ Reached' = Len(block) /\ Examined' \in {block, last}
    BY <2>1 DEF Examined, Reached
  <2>3. \A tx : MinedAt(tx, block) = 0 => MinedAt(tx, last) = 0
    BY <2>1, UnminedBefore
  <2>4. \A tx : MinedAt(tx, Examined) = 0 => MinedAt(tx, Examined') = 0
    BY <2>2, <2>3 DEF MinedAt
  <2> QED BY <1>1, <1>2, <1>3, <2>2, <2>4 DEF ListStays
<1>6. CASE ClearReceipts
  <2>1. pc = "clear" /\ pc' = "store" /\ UNCHANGED <<block, last>>
    BY <1>6 DEF ClearReceipts, feed
  <2>2. Examined' = Examined /\ Reached' = Reached
    BY <2>1 DEF Examined, Reached
  <2>3. \A tx : MinedAt(tx, Examined') = MinedAt(tx, Examined)
    BY <2>2 DEF MinedAt
  <2> QED BY <1>1, <1>2, <1>3, <2>2, <2>3 DEF ListStays
<1>7. CASE StoreLast
  <2>1. pc = "store" /\ pc' = "wait" /\ last' = block
    BY <1>7 DEF StoreLast
  <2>2. Examined' = Examined /\ Reached' = Reached
    BY <2>1 DEF Examined, Reached
  <2>3. \A tx : MinedAt(tx, Examined') = MinedAt(tx, Examined)
    BY <2>2 DEF MinedAt
  <2> QED BY <1>1, <1>2, <1>3, <2>2, <2>3 DEF ListStays
<1>8. CASE ~(Rebroadcast \/ ClearReceipts \/ StoreLast)
  <2>1. UNCHANGED <<block, last, pc>>
    BY <1>8 DEF NewBlock, Evict, StoreTracker, vars, feed, watch
  <2> QED BY <1>4, <2>1
<1> QED BY <1>5, <1>6, <1>7, <1>8

LEMMA ListQuiet ==
    ASSUME BlockTypes, BlocksInOrder, BlockTypes', BlocksInOrder', ListedAreTracked, ListedAreUnmined, ListStays
    PROVE  ListedAreTracked' /\ ListedAreUnmined'
<1>1. \A tx : RanOut(tx) => RanOut(tx)'
  BY RanOutGrows DEF ListStays
<1>2. \A tx : (HasTracker(tx)' <=> HasTracker(tx)) /\ (Unconfirmed(tx)' <=> Unconfirmed(tx))
  BY DEF HasTracker, Unconfirmed, ListStays, Tracked, TxOf
<1>3. ListedAreTracked'
  BY <1>1, <1>2 DEF ListedAreTracked
<1>4. ASSUME "late add" \notin Rare
      PROVE  /\ \A tx \in Txs : Unconfirmed(tx)' => MinedAt(tx, Examined') = 0 \/ RanOut(tx)'
             /\ handler'.step = "add" /\ handler'.new => MinedAt(PenaltyOf[handler'.u], Examined') = 0
  <2>1. \A tx \in Txs : Unconfirmed(tx)' => MinedAt(tx, Examined') = 0 \/ RanOut(tx)'
    BY <1>1, <1>2, <1>4 DEF ListedAreUnmined, ListStays
  <2>2. ASSUME handler'.step = "add", handler'.new
        PROVE  MinedAt(PenaltyOf[handler'.u], Examined') = 0
    <3>1. handler' = handler
      BY <2>2 DEF ListStays
    <3>2. MinedAt(PenaltyOf[handler.u], Examined) = 0
      BY <1>4, <2>2, <3>1 DEF ListedAreUnmined
    <3>3. MinedAt(PenaltyOf[handler.u], Examined') = 0
      BY <3>2 DEF ListStays
    <3> QED BY <3>1, <3>3
  <2> QED BY <2>1, <2>2
<1> QED BY <1>3, <1>4 DEF ListedAreUnmined

(* One block more without the penalty.                                     *)
LEMMA UnminedAfter ==
    ASSUME NEW c \in Chains, NEW b \in Chains, NEW l \in Chains, Len(b) \in 1..Len(c),
           b = SubSeq(c, 1, Len(b)), l = SubSeq(c, 1, Len(b) - 1),
           NEW tx, MinedAt(tx, l) = 0, tx \notin Last(b).txs
    PROVE  MinedAt(tx, b) = 0
<1> DEFINE n == Len(b)
<1>1. n \in 1..Len(c) /\ b = SubSeq(c, 1, n) /\ l = SubSeq(c, 1, n - 1)
  OBVIOUS
<1> HIDE DEF n
<1>2. Last(b) = c[n]
  BY <1>1, FrontOfPrefix
<1> QED BY <1>1, <1>2, UnminedNext

LEMMA ListGetBlock ==
    ASSUME BlockTypes, BlocksInOrder, BlockTypes', BlocksInOrder', MemoryTypes,
           ListedAreTracked, ListedAreUnmined, GetBlock
    PROVE  ListedAreTracked' /\ ListedAreUnmined'
<1>1. /\ pc = "wait" /\ trackers' = trackers /\ unconfirmed_txs' = unconfirmed_txs /\ handler' = handler
      /\ last' = last /\ chain' = chain
  BY DEF GetBlock, memory, bitcoind
<1>7. Overtakes(block') => "late add" \in Rare
  BY DEF GetBlock
<1>2. /\ pc' = IF Tracked = {} THEN "store" ELSE "block"
      /\ block' = SubSeq(chain, 1, Len(last) + 1) /\ Len(block') = Len(last) + 1
      /\ Len(last) + 1 \in 1..Len(chain)
  BY OrderGetBlock
<1>3. Len(last) \in Nat /\ chain \in Chains /\ last \in Chains /\ block' \in Chains
  BY LenProperties DEF BlockTypes, Chains
<1>4. Examined = last /\ Reached = Len(last)
  BY <1>1 DEF Examined, Reached
<1>5. CASE Tracked # {}
  <2>1. Examined' = Examined /\ Reached' = Reached
    BY <1>1, <1>2, <1>4, <1>5 DEF Examined, Reached
  <2>2. \A tx : MinedAt(tx, Examined') = MinedAt(tx, Examined)
    BY <2>1 DEF MinedAt
  <2>3. ListStays
    BY <1>1, <1>3, <1>4, <2>1, <2>2 DEF ListStays
  <2> QED BY <2>3, ListQuiet
<1>6. CASE Tracked = {}
  <2>1. pc' = "store" /\ Examined' = block' /\ Reached' = Len(last) + 1
    BY <1>2, <1>6 DEF Examined, Reached
  <2>2. \A tx \in Txs : Unconfirmed(tx)' => RanOut(tx)'
    <3> SUFFICES ASSUME NEW tx \in Txs, Unconfirmed(tx)' PROVE RanOut(tx)'
      OBVIOUS
    <3>1. RanOut(tx)
      BY <1>1, <1>6 DEF ListedAreTracked, HasTracker, Unconfirmed
    <3>2. Reached <= Reached'
      BY <1>3, <1>4, <2>1
    <3> QED BY <3>1, <3>2, RanOutGrows
  <2>3. ASSUME "late add" \notin Rare, handler'.step = "add", handler'.new
        PROVE  MinedAt(PenaltyOf[handler'.u], Examined') = 0
    <3> DEFINE tx == PenaltyOf[handler.u]
    <3>1. MinedAt(tx, last) = 0
      BY <1>1, <1>4, <2>3 DEF ListedAreUnmined
    <3>2. handler # Idle
      <4>1. handler.step = "add"
        BY <1>1, <2>3
      <4> QED BY <4>1, Handler
    <3>3. tx \notin Last(block').txs
      BY <1>1, <1>7, <2>3, <3>2 DEF Overtakes
    <3> HIDE DEF tx
    <3>4. last = SubSeq(chain, 1, Len(block') - 1) /\ block' = SubSeq(chain, 1, Len(block')) /\ Len(block') \in 1..Len(chain)
      <4>1. last = SubSeq(chain, 1, Len(last))
        BY TakenIsPrefix
      <4>2. Len(block') - 1 = Len(last)
        BY <1>2, <1>3
      <4> QED BY <1>2, <4>1, <4>2
    <3>5. MinedAt(tx, block') = 0
      BY <1>3, <3>1, <3>3, <3>4, UnminedAfter
    <3>6. MinedAt(tx, Examined') = MinedAt(tx, block')
      BY <2>1 DEF MinedAt
    <3> QED BY <1>1, <3>5, <3>6 DEF tx
  <2> QED BY <2>2, <2>3 DEF ListedAreTracked, ListedAreUnmined
<1> QED BY <1>5, <1>6

LEMMA ListHandleBreach ==
    ASSUME BlockTypes, BlocksInOrder, BlockTypes', BlocksInOrder', MemoryTypes,
           ListedAreTracked, ListedAreUnmined, NEW u \in Uuids, HandleBreach(u)
    PROVE  ListedAreTracked' /\ ListedAreUnmined'
<1> DEFINE r == issued_receipts'[PenaltyOf[u]]
<1>1. /\ UNCHANGED <<trackers, unconfirmed_txs, pc, block, last>>
      /\ r = "sent" => MinedAt(PenaltyOf[u], Examined) = 0 \/ "late add" \in Rare
      /\ handler' = IF r = "rejected" THEN Idle ELSE [step |-> "add", u |-> u, new |-> r = "sent"]
  BY DEF HandleBreach, memory, watch, feed
<1> HIDE DEF r
<1>2. handler'.step = "add" /\ handler'.new => handler'.u = u /\ r = "sent"
  BY <1>1 DEF Idle
<1>3. /\ Examined' = Examined /\ Reached' = Reached
  BY <1>1 DEF Examined, Reached
<1>4. \A tx : /\ MinedAt(tx, Examined') = MinedAt(tx, Examined) /\ (RanOut(tx)' <=> RanOut(tx))
              /\ (HasTracker(tx)' <=> HasTracker(tx)) /\ (Unconfirmed(tx)' <=> Unconfirmed(tx))
  BY <1>1, <1>3 DEF MinedAt, RanOut, HasTracker, Unconfirmed, Tracked, TxOf
<1>5. ListedAreTracked'
  BY <1>4 DEF ListedAreTracked
<1>6. ASSUME "late add" \notin Rare
      PROVE  /\ \A tx \in Txs : Unconfirmed(tx)' => MinedAt(tx, Examined') = 0 \/ RanOut(tx)'
             /\ handler'.step = "add" /\ handler'.new => MinedAt(PenaltyOf[handler'.u], Examined') = 0
  BY <1>1, <1>2, <1>4, <1>6 DEF ListedAreUnmined
<1> QED BY <1>5, <1>6 DEF ListedAreUnmined

LEMMA ListAddTracker ==
    ASSUME BlockTypes, BlocksInOrder, BlockTypes', BlocksInOrder', MemoryTypes, OnDisk, Index,
           ListedAreTracked, ListedAreUnmined, AddTracker
    PROVE  ListedAreTracked' /\ ListedAreUnmined'
<1> DEFINE u == handler.u
           P == PenaltyOf[u]
<1>1. /\ handler.step = "add" /\ handler' = [handler EXCEPT !.step = "store"]
      /\ UNCHANGED <<pc, block, last>>
  BY DEF AddTracker, watch, feed
<1>2. /\ u \in Uuids /\ trackers' = [trackers EXCEPT ![u] = TrackerOf(u)] /\ trackers[u] = None
      /\ unconfirmed_txs' = [unconfirmed_txs EXCEPT ![P] = IF handler.new THEN 1 ELSE @]
  BY MemoryAddTracker
<1>3. TrackerOf(u) # None /\ TrackerOf(u).penalty_txid = P /\ P \in Txs /\ u \in Ids
  BY <1>2, Summary DEF Ids
<1>4. trackers \in [Ids -> Tracker \cup {None}] /\ unconfirmed_txs \in [Txs -> 0..1]
  BY DEF MemoryTypes
<1>5. handler'.step = "store"
  <2>1. handler # Idle
    BY <1>1 DEF Idle
  <2>2. handler \in [step : {"add", "store"}, u : Uuids, new : BOOLEAN]
    BY <2>1 DEF MemoryTypes
  <2> QED BY <1>1, <2>2
<1>6. Examined' = Examined /\ Reached' = Reached
  BY <1>1 DEF Examined, Reached
<1>7. \A tx : MinedAt(tx, Examined') = MinedAt(tx, Examined) /\ (RanOut(tx)' <=> RanOut(tx))
  BY <1>6 DEF MinedAt, RanOut
<1> HIDE DEF P
<1>8. \A tx : HasTracker(tx)' <=> HasTracker(tx) \/ tx = P
  <2>1. \A i \in Ids : trackers'[i] = IF i = u THEN TrackerOf(u) ELSE trackers[i]
    BY <1>2, <1>3, <1>4
  <2> HIDE DEF u
  <2> QED BY <1>2, <1>3, <2>1 DEF HasTracker, Tracked, TxOf
<1>9. \A tx \in Txs : Unconfirmed(tx)' => Unconfirmed(tx) \/ (tx = P /\ handler.new)
  BY <1>2, <1>3, <1>4 DEF Unconfirmed
<1>10. ListedAreTracked'
  BY <1>7, <1>8, <1>9 DEF ListedAreTracked
<1>11. ASSUME "late add" \notin Rare, NEW tx \in Txs, Unconfirmed(tx)'
       PROVE  MinedAt(tx, Examined') = 0 \/ RanOut(tx)'
  <2>1. CASE Unconfirmed(tx)
    BY <1>7, <1>11, <2>1 DEF ListedAreUnmined
  <2>2. CASE tx = P /\ handler.new
    BY <1>1, <1>7, <1>11, <2>2 DEF ListedAreUnmined, P
  <2> QED BY <1>9, <1>11, <2>1, <2>2
<1> QED BY <1>5, <1>10, <1>11 DEF ListedAreUnmined

LEMMA ListExamine ==
    ASSUME BlockTypes, BlocksInOrder, BlockTypes', BlocksInOrder', MemoryTypes, OnDisk, Index,
           ListedAreTracked, ListedAreUnmined, Examine
    PROVE  ListedAreTracked' /\ ListedAreUnmined'
<1>1. /\ pc = "block" /\ UNCHANGED <<handler, block, last, chain>>
  BY DEF Examine, feed, bitcoind
<1>2. Overtakes(block) => "late add" \in Rare
  BY DEF Examine
<1>3. Len(block) \in Nat /\ Len(last) = Len(block) - 1 /\ Len(last) \in Nat
  BY <1>1, TakenIsPrefix, LenProperties DEF BlockTypes, Chains
<1>4. Examined = last /\ Reached = Len(last)
  BY <1>1 DEF Examined, Reached
<1>5. CASE ~(OutdatedAppointments \subseteq Tracked)
  <2>1. trackers' = trackers /\ unconfirmed_txs' = unconfirmed_txs /\ pc' = "dead"
    BY <1>5 DEF Examine, memory
  <2>2. Examined' = Examined /\ Reached' = Len(block)
    BY <1>1, <1>4, <2>1 DEF Examined, Reached
  <2>3. \A tx : MinedAt(tx, Examined') = MinedAt(tx, Examined)
    BY <2>2
  <2>4. Reached <= Reached'
    BY <1>3, <1>4, <2>2
  <2>5. ListStays
    BY <1>1, <2>1, <2>3, <2>4 DEF ListStays
  <2> QED BY <2>5, ListQuiet
<1>6. CASE OutdatedAppointments \subseteq Tracked
  <2> DEFINE S == get_completed_trackers \cup get_outdated_trackers
             txs == Last(block).txs
  <2>1. check_confirmations(txs) /\ delete_trackers(S) /\ pc' = "rebroadcast"
    BY <1>6 DEF Examine
  <2>2. Examined' = block /\ Reached' = Len(block)
    BY <1>1, <2>1 DEF Examined, Reached
  <2>3. /\ trackers' = [i \in Ids |-> IF i \in S THEN None ELSE trackers[i]]
        /\ unconfirmed_txs' =
             [tx \in Txs |-> IF tx \in txs /\ Listed(tx) # {} /\ Unconfirmed(tx)
                             THEN unconfirmed_txs[tx] - 1 ELSE unconfirmed_txs[tx]]
    BY <2>1 DEF delete_trackers, check_confirmations
  <2> HIDE DEF txs
  <2>4. ASSUME NEW tx \in Txs, Unconfirmed(tx)'
        PROVE  Unconfirmed(tx) /\ (tx \notin txs \/ Listed(tx) = {})
    <3>1. unconfirmed_txs[tx] \in 0..1
      BY DEF MemoryTypes
    <3> QED BY <2>3, <2>4, <3>1 DEF Unconfirmed
  <2>5. ASSUME NEW tx \in Txs, RanOut(tx) PROVE RanOut(tx)'
    <3>1. Reached <= Reached'
      BY <1>3, <1>4, <2>2
    <3> QED BY <2>5, <3>1, RanOutGrows
  <2>6. ASSUME NEW tx \in Txs, HasTracker(tx), Listed(tx) = {} PROVE FALSE
    <3>1. PICK i \in Tracked : TxOf(i) = tx
      BY <2>6 DEF HasTracker
    <3>2. i \in Ids /\ trackers[i] # None
      BY DEF Tracked
    <3>3. tx_tracker_map[tx][i] = 1
      BY <3>1, <3>2 DEF Index
    <3> QED BY <2>6, <3>2, <3>3 DEF Listed
  <2>7. ASSUME NEW tx \in Txs, Unconfirmed(tx)' PROVE HasTracker(tx)' \/ RanOut(tx)'
    <3>1. CASE RanOut(tx)
      BY <2>5, <3>1
    <3>2. CASE ~RanOut(tx)
      <4>1. PICK i \in Tracked : TxOf(i) = tx
        BY <2>4, <2>7, <3>2 DEF ListedAreTracked, HasTracker
      <4>2. i \in Uuids /\ i \in Ids /\ TxOf(i) = PenaltyOf[i] /\ trackers[i] # None
        BY TrackedIs DEF Tracked
      <4>3. CASE i \in S
        <5>1. i \in get_outdated_trackers
          BY <2>4, <2>7, <4>1, <4>3 DEF get_completed_trackers
        <5>2. "outdated" \in Rare /\ OutdatedAt[i] = Len(block)
          BY <5>1 DEF get_outdated_trackers, OutdatedAppointments
        <5>3. OutdatedAt[i] <= Reached'
          BY <1>3, <2>2, <5>2
        <5> QED BY <4>1, <4>2, <5>2, <5>3 DEF RanOut
      <4>4. CASE i \notin S
        <5>1. trackers'[i] = trackers[i]
          BY <2>3, <4>2, <4>4
        <5> QED BY <4>1, <4>2, <5>1 DEF HasTracker, Tracked, TxOf
      <4> QED BY <4>3, <4>4
    <3> QED BY <3>1, <3>2
  <2>8. ASSUME NEW tx, MinedAt(tx, last) = 0, tx \notin txs
        PROVE  MinedAt(tx, block) = 0
    <3>1. /\ chain \in Chains /\ block \in Chains /\ last \in Chains /\ Len(block) \in 1..Len(chain)
          /\ block = SubSeq(chain, 1, Len(block)) /\ last = SubSeq(chain, 1, Len(block) - 1)
      BY <1>1, TakenIsPrefix DEF BlockTypes, BlocksInOrder
    <3> QED BY <2>8, <3>1, UnminedAfter DEF txs
  <2>9. ASSUME "late add" \notin Rare, NEW tx \in Txs, Unconfirmed(tx)'
        PROVE  MinedAt(tx, Examined') = 0 \/ RanOut(tx)'
    <3>1. Unconfirmed(tx) /\ (tx \notin txs \/ Listed(tx) = {})
      BY <2>4, <2>9
    <3>2. CASE RanOut(tx)
      BY <2>5, <3>2
    <3>3. CASE ~RanOut(tx)
      <4>1. HasTracker(tx) /\ MinedAt(tx, last) = 0
        BY <1>4, <2>9, <3>1, <3>3 DEF ListedAreTracked, ListedAreUnmined
      <4>2. tx \notin txs
        BY <2>6, <3>1, <4>1
      <4> QED BY <2>2, <2>8, <4>1, <4>2
    <3> QED BY <3>2, <3>3
  <2>10. ASSUME "late add" \notin Rare, handler'.step = "add", handler'.new
         PROVE  MinedAt(PenaltyOf[handler'.u], Examined') = 0
    <3>1. handler.step = "add" /\ handler.new
      BY <1>1, <2>10
    <3>2. handler # Idle
      BY <3>1, Handler
    <3>3. PenaltyOf[handler.u] \notin txs
      BY <1>2, <2>10, <3>1, <3>2 DEF Overtakes, txs
    <3>4. MinedAt(PenaltyOf[handler.u], last) = 0
      BY <1>4, <2>10, <3>1 DEF ListedAreUnmined
    <3>5. MinedAt(PenaltyOf[handler.u], block) = 0
      BY <2>8, <3>3, <3>4
    <3> QED BY <1>1, <2>2, <3>5
  <2> QED BY <2>7, <2>9, <2>10 DEF ListedAreTracked, ListedAreUnmined
<1> QED BY <1>5, <1>6

LEMMA ListRestart ==
    ASSUME MemoryTypes, Restart
    PROVE  ListedAreTracked' /\ ListedAreUnmined'
<1>1. \A tx \in Txs : unconfirmed_txs'[tx] = 0
  BY DEF Restart
<1>2. \A tx \in Txs : ~Unconfirmed(tx)'
  BY <1>1 DEF Unconfirmed
<1>3. handler'.step = "idle"
  BY DEF Restart, Idle
<1> QED BY <1>2, <1>3 DEF ListedAreTracked, ListedAreUnmined

LEMMA ListInit == EveryBlock /\ Init => ListInv
<1> SUFFICES ASSUME Init PROVE ListedAreTracked /\ ListedAreUnmined
  BY DEF ListInv
<1>1. \A tx \in Txs : unconfirmed_txs[tx] = 0
  BY DEF Init
<1>2. \A tx \in Txs : ~Unconfirmed(tx)
  BY <1>1 DEF Unconfirmed
<1>3. handler.step = "idle"
  BY DEF Init, Idle
<1> QED BY <1>2, <1>3 DEF ListedAreTracked, ListedAreUnmined

LEMMA ListStep == OrderInv /\ OrderInv' /\ MemoryInv /\ ListInv /\ [Next]_vars => ListInv'
<1> SUFFICES ASSUME OrderInv, OrderInv', MemoryInv, ListInv, [Next]_vars, reorgs' = 0
             PROVE  ListedAreTracked' /\ ListedAreUnmined'
  BY DEF ListInv
<1>1. /\ BlockTypes /\ BlocksInOrder /\ BlockTypes' /\ BlocksInOrder' /\ MemoryTypes /\ OnDisk /\ Index
      /\ ListedAreTracked /\ ListedAreUnmined
  BY Growing DEF MemoryInv, ListInv
<1>2. ASSUME NEW u \in Uuids, HandleBreach(u) PROVE ListedAreTracked' /\ ListedAreUnmined'
  BY <1>1, <1>2, ListHandleBreach
<1>3. CASE AddTracker
  BY <1>1, <1>3, ListAddTracker
<1>4. CASE GetBlock
  BY <1>1, <1>4, ListGetBlock
<1>5. CASE Examine
  BY <1>1, <1>5, ListExamine
<1>6. CASE Restart
  BY <1>1, <1>6, ListRestart
<1>7. CASE \/ \E txs \in SUBSET mempool, told \in BOOLEAN : NewBlock(txs, told)
           \/ \E tx \in Txs : Evict(tx)
           \/ StoreTracker \/ Rebroadcast \/ ClearReceipts \/ StoreLast \/ UNCHANGED vars
  <2>1. ListStays
    BY <1>1, <1>7, ListStaysBy
  <2> QED BY <1>1, <2>1, ListQuiet
<1> QED BY <1>2, <1>3, <1>4, <1>5, <1>6, <1>7, Growing

THEOREM ListInvariance == EveryBlock /\ EachOnce /\ Spec => [](OrderInv /\ MemoryInv /\ ListInv)
<1> QED BY MemoryInit, MemoryStep, OrderInvariance, ListInit, ListStep, PTL DEF Spec

(* No block with a penalty in it overtakes the tracker, and no             *)
(* subscription runs out.                                                  *)
InTime == "late add" \notin Rare
Subscribed == "outdated" \notin Rare

(* While the chain only grows, and over restarts, what is on the list of   *)
(* the unconfirmed is in no block that has been examined.                  *)
THEOREM UnconfirmedHolds ==
    EveryBlock /\ EachOnce /\ InTime /\ Subscribed /\ Spec => [](reorgs = 0 => UnconfirmedAreUnconfirmed)
<1>1. ListInv /\ InTime /\ Subscribed => (reorgs = 0 => UnconfirmedAreUnconfirmed)
  BY DEF ListInv, ListedAreUnmined, RanOut, InTime, Subscribed, UnconfirmedAreUnconfirmed
<1>2. InTime /\ Subscribed /\ [Next]_vars => InTime' /\ Subscribed'
  BY DEF InTime, Subscribed
<1> QED BY <1>1, <1>2, ListInvariance, PTL DEF Spec

(* The thread alone deletes, and what it deletes was tracked.              *)
LEMMA GoneBy ==
    ASSUME BlockTypes, MemoryTypes, OnDisk, Index, NEW i \in Gone, Next, ~\E txs, back \in SUBSET Txs : Reorg(txs, back)
    PROVE  /\ Examine /\ OutdatedAppointments \subseteq Tracked /\ i \in Tracked
           /\ i \in get_completed_trackers \cup get_outdated_trackers
<1>1. restarts' = restarts /\ i \in Tracked /\ i \in Ids /\ trackers[i] # None /\ trackers'[i] = None
  BY DEF Gone, Tracked
<1>2. trackers' # trackers
  BY <1>1
<1>3. ~Restart
  BY <1>1 DEF Restart, BlockTypes
<1>4. ~AddTracker
  <2> SUFFICES ASSUME AddTracker PROVE FALSE
    OBVIOUS
  <2>1. /\ handler.u \in Uuids /\ trackers' = [trackers EXCEPT ![handler.u] = TrackerOf(handler.u)]
        /\ trackers[handler.u] = None
    BY MemoryAddTracker
  <2>2. trackers'[i] = trackers[i]
    BY <1>1, <2>1 DEF MemoryTypes
  <2> QED BY <1>1, <2>2
<1>5. ~\E j \in Ids : HandleReorg(j)
  BY DEF HandleReorg, BlockTypes
<1>6. Examine
  BY <1>2, <1>3, <1>4, <1>5 DEF Next, WatchThread, NewBlock, Evict, HandleBreach, StoreTracker, GetBlock, Rebroadcast,
      ClearReceipts, StoreLast, HandledReorg, memory
<1>7. OutdatedAppointments \subseteq Tracked /\ delete_trackers(get_completed_trackers \cup get_outdated_trackers)
  BY <1>2, <1>6 DEF Examine, memory
<1>8. i \in get_completed_trackers \cup get_outdated_trackers
  BY <1>1, <1>7 DEF delete_trackers
<1> QED BY <1>1, <1>6, <1>7, <1>8

(* While the chain only grows, and over restarts, no tracker is deleted    *)
(* whose penalty is on the chain and not buried, when the subscriptions of *)
(* one penalty run out at once.                                            *)
THEOREM DeletedAreDoneHolds ==
    EveryBlock /\ EachOnce /\ InTime /\ RunOutTogether /\ Spec => DeletedAreDone
<1> DEFINE Done(i) == \/ Confirmations(TxOf(i)) >= IRREVOCABLY_RESOLVED
                      \/ MinedAt(TxOf(i), Front(block)) = 0
<1>1. OrderInv /\ OrderInv' /\ MemoryInv /\ ListInv /\ InTime /\ RunOutTogether /\ [Next]_vars
        => [reorgs = 0 => \A i \in Gone : Done(i)]_vars
  <2> SUFFICES ASSUME OrderInv, OrderInv', MemoryInv, ListInv, InTime, RunOutTogether, Next, reorgs = 0,
                      NEW i \in Gone
               PROVE  Done(i)
    OBVIOUS
  <2>1. BlockTypes /\ BlocksInOrder /\ MemoryTypes /\ OnDisk /\ Index /\ ListedAreUnmined
    BY DEF OrderInv, MemoryInv, ListInv
  <2>2. ~\E txs, back \in SUBSET Txs : Reorg(txs, back)
    BY DEF Gone, Reorg, memory, Tracked
  <2>3. /\ Examine /\ OutdatedAppointments \subseteq Tracked /\ i \in Tracked
        /\ i \in get_completed_trackers \cup get_outdated_trackers
    BY <2>1, <2>2, GoneBy
  <2>4. CASE i \in get_completed_trackers
    BY <2>4 DEF get_completed_trackers
  <2>5. CASE i \in get_outdated_trackers
    <3>1. i \in Uuids /\ OutdatedAt[i] = Len(block) /\ Unconfirmed(TxOf(i))
      BY <2>5 DEF get_outdated_trackers, OutdatedAppointments
    <3>2. TxOf(i) = PenaltyOf[i] /\ TxOf(i) \in Txs
      BY <2>1, <2>3, TrackedIs
    <3>3. pc = "block"
      BY <2>3 DEF Examine
    <3>4. Examined = last /\ Reached = Len(last)
      BY <3>3 DEF Examined, Reached
    <3>5. Front(block) = last /\ Len(last) = Len(block) - 1 /\ Len(block) \in 1..Len(chain) /\ Len(chain) \in Nat
      BY <2>1, <3>3, TakenIsPrefix
    <3>6. MinedAt(TxOf(i), last) = 0 \/ RanOut(TxOf(i))
      BY <2>1, <3>1, <3>2, <3>4 DEF ListedAreUnmined, InTime
    <3>7. ~RanOut(TxOf(i))
      <4> SUFFICES ASSUME NEW v \in Uuids, PenaltyOf[v] = PenaltyOf[i], OutdatedAt[v] <= Len(last)
                   PROVE  FALSE
        BY <3>2, <3>4 DEF RanOut
      <4>1. OutdatedAt[v] \in Nat /\ MaxHeight \in Nat
        BY Assumed
      <4>2. OutdatedAt[i] <= MaxHeight /\ OutdatedAt[v] <= MaxHeight /\ OutdatedAt[i] # OutdatedAt[v]
        BY <2>1, <3>1, <3>5, <4>1 DEF BlockTypes
      <4> QED BY <3>1, <4>2 DEF RunOutTogether
    <3> QED BY <3>5, <3>6, <3>7
  <2> QED BY <2>3, <2>4, <2>5
<1>2. InTime /\ RunOutTogether /\ [Next]_vars => InTime' /\ RunOutTogether'
  BY DEF InTime, RunOutTogether
<1> QED BY <1>1, <1>2, ListInvariance, PTL DEF Spec, DeletedAreDone

-----------------------------------------------------------------------------
(* The thread lives.                                                       *)

(* A penalty on the list is in the map, and all its trackers on disk.      *)
LEMMA ListedOnDisk ==
    ASSUME MemoryTypes, OnDisk, Index, ListedAreTracked, Subscribed, pc = "rebroadcast",
           NEW tx \in Txs, Unconfirmed(tx)
    PROVE  Listed(tx) # {} /\ \A i \in Listed(tx) : dbr[i] # None
<1>1. PICK i \in Tracked : TxOf(i) = tx
  BY DEF ListedAreTracked, HasTracker, RanOut, Subscribed
<1>2. i \in Ids /\ trackers[i] # None
  BY DEF Tracked
<1>3. tx_tracker_map[tx][i] = 1
  BY <1>1, <1>2 DEF Index
<1>4. Listed(tx) # {}
  BY <1>2, <1>3 DEF Listed
<1>5. ASSUME NEW j \in Listed(tx) PROVE dbr[j] # None
  <2>1. j \in Ids /\ tx_tracker_map[tx][j] # 0
    BY DEF Listed, MemoryTypes
  <2>2. trackers[j] # None
    BY <2>1 DEF Index
  <2> QED BY <2>1, <2>2 DEF OnDisk
<1> QED BY <1>4, <1>5

LEMMA AliveRebroadcast ==
    ASSUME MemoryTypes, OnDisk, Index, ListedAreTracked, Subscribed, Missing, Rebroadcast
    PROVE  /\ pc' = "clear" /\ Missing' /\ SendAll(get_txs_to_rebroadcast)
           /\ \A tx \in get_txs_to_rebroadcast : missed_confirmations[tx] = CONFIRMATIONS_BEFORE_RETRY
           /\ missed_confirmations' =
                [tx \in Txs |-> IF tx \in get_txs_to_rebroadcast THEN 0 ELSE missed_confirmations[tx]]
<1> DEFINE S == get_txs_to_rebroadcast
<1>1. pc = "rebroadcast"
  BY DEF Rebroadcast
<1>2. \A tx \in Txs : missed_confirmations[tx] \in Nat /\ CONFIRMATIONS_BEFORE_RETRY \in Nat /\ CONFIRMATIONS_BEFORE_RETRY > 1
  BY Assumed DEF MemoryTypes
<1>3. \A tx \in S : tx \in Txs /\ missed_confirmations[tx] = CONFIRMATIONS_BEFORE_RETRY /\ Unconfirmed(tx)
  BY <1>2 DEF get_txs_to_rebroadcast, Missing
<1>4. \A tx \in S : Listed(tx) # {} /\ \A i \in Listed(tx) : dbr[i] # None
  BY <1>1, <1>3, ListedOnDisk
<1>5. /\ pc' = "clear" /\ SendAll(S)
      /\ missed_confirmations' = [tx \in Txs |-> IF tx \in S THEN 0 ELSE missed_confirmations[tx]]
  BY <1>4 DEF Rebroadcast
<1>6. ASSUME NEW tx \in Txs
      PROVE  missed_confirmations'[tx] < CONFIRMATIONS_BEFORE_RETRY
  <2>1. CASE tx \in S
    BY <1>2, <1>5, <2>1
  <2>2. CASE tx \notin S
    <3>1. ~(missed_confirmations[tx] >= CONFIRMATIONS_BEFORE_RETRY)
      BY <2>2 DEF get_txs_to_rebroadcast
    <3> HIDE DEF S
    <3> QED BY <1>2, <1>5, <2>2, <3>1
  <2> QED BY <2>1, <2>2
<1>7. Missing'
  <2>1. \A tx \in Txs : missed_confirmations'[tx] \in Nat
    BY <1>2, <1>5
  <2> QED BY <1>2, <1>6, <2>1 DEF Missing
<1> QED BY <1>3, <1>5, <1>7

LEMMA AliveExamine ==
    ASSUME BlockTypes, MemoryTypes, OnDisk, Index, Subscribed, Missing, Examine
    PROVE  /\ pc = "block" /\ pc' = "rebroadcast" /\ Missing' /\ OutdatedAppointments = {}
           /\ check_confirmations(Last(block).txs) /\ delete_trackers(get_completed_trackers)
           /\ silent' = [tx \in Txs |-> IF Listed(tx) # {} THEN silent[tx] + 1 ELSE 0]
<1>1. OutdatedAppointments = {}
  BY DEF OutdatedAppointments, Subscribed
<1>2. get_outdated_trackers = {} /\ get_completed_trackers \cup get_outdated_trackers = get_completed_trackers
  BY <1>1 DEF get_outdated_trackers
<1>3. /\ pc = "block" /\ pc' = "rebroadcast"
      /\ check_confirmations(Last(block).txs) /\ delete_trackers(get_completed_trackers)
      /\ silent' = [tx \in Txs |-> IF Listed(tx) # {} THEN silent[tx] + 1 ELSE 0]
  BY <1>1, <1>2 DEF Examine
<1>4. missed_confirmations' = [tx \in Txs |-> missed_confirmations[tx] + unconfirmed_txs'[tx]]
  BY <1>3 DEF check_confirmations
<1>5. unconfirmed_txs' \in [Txs -> 0..1]
  BY MemoryExamine DEF MemoryTypes
<1>6. ASSUME NEW tx \in Txs
      PROVE  /\ missed_confirmations'[tx] <= CONFIRMATIONS_BEFORE_RETRY
             /\ missed_confirmations'[tx] = CONFIRMATIONS_BEFORE_RETRY => Unconfirmed(tx)'
  <2>1. missed_confirmations[tx] \in Nat /\ CONFIRMATIONS_BEFORE_RETRY \in Nat
    BY Assumed DEF MemoryTypes
  <2>2. missed_confirmations[tx] < CONFIRMATIONS_BEFORE_RETRY
    BY <1>3, <2>1 DEF Missing
  <2>3. unconfirmed_txs'[tx] \in 0..1 /\ missed_confirmations'[tx] = missed_confirmations[tx] + unconfirmed_txs'[tx]
    BY <1>4, <1>5
  <2> QED BY <2>1, <2>2, <2>3 DEF Unconfirmed
<1>7. Missing'
  BY <1>3, <1>6 DEF Missing
<1> QED BY <1>1, <1>3, <1>7

LEMMA AliveInit == EveryBlock /\ Init => AliveInv
<1> SUFFICES ASSUME Init PROVE pc # "dead" /\ Missing
  BY DEF AliveInv
<1>1. \A tx \in Txs : missed_confirmations[tx] = 0
  BY DEF Init
<1>2. CONFIRMATIONS_BEFORE_RETRY \in Nat /\ CONFIRMATIONS_BEFORE_RETRY > 1
  BY Assumed
<1>3. Missing
  BY <1>1, <1>2 DEF Missing
<1> QED BY <1>3 DEF Init

LEMMA AliveStep ==
    OrderInv /\ OrderInv' /\ MemoryInv /\ ListInv /\ AliveInv /\ Subscribed /\ [Next]_vars => AliveInv'
<1> SUFFICES ASSUME OrderInv, OrderInv', MemoryInv, ListInv, AliveInv, Subscribed, [Next]_vars, reorgs' = 0
             PROVE  pc' # "dead" /\ Missing'
  BY DEF AliveInv
<1>1. /\ BlockTypes /\ BlocksInOrder /\ BlockTypes' /\ BlocksInOrder' /\ MemoryTypes /\ OnDisk /\ Index
      /\ ListedAreTracked /\ Missing /\ pc # "dead"
  BY Growing DEF MemoryInv, ListInv, AliveInv
<1>2. CONFIRMATIONS_BEFORE_RETRY \in Nat /\ CONFIRMATIONS_BEFORE_RETRY > 1
  BY Assumed
<1>3. CASE Examine
  BY <1>1, <1>3, AliveExamine
<1>4. CASE Rebroadcast
  BY <1>1, <1>4, AliveRebroadcast
<1>5. CASE Restart
  <2>1. pc' = "wait" /\ \A tx \in Txs : missed_confirmations'[tx] = 0
    BY <1>5 DEF Restart
  <2> QED BY <1>2, <2>1 DEF Missing
<1>6. CASE AddTracker
  <2>1. missed_confirmations' = missed_confirmations /\ pc' = pc /\ pc # "rebroadcast"
    BY <1>6 DEF AddTracker, Add, WatchLock, watch
  <2> QED BY <1>1, <2>1 DEF Missing
<1>7. CASE \/ \E txs \in SUBSET mempool, told \in BOOLEAN : NewBlock(txs, told)
           \/ \E tx \in Txs : Evict(tx)
           \/ \E u \in Uuids : HandleBreach(u)
           \/ StoreTracker \/ GetBlock \/ ClearReceipts \/ StoreLast \/ UNCHANGED vars
  <2>1. missed_confirmations' = missed_confirmations /\ unconfirmed_txs' = unconfirmed_txs
    BY <1>7 DEF NewBlock, Evict, HandleBreach, StoreTracker, GetBlock, ClearReceipts, StoreLast, vars, memory
  <2>2. pc' = pc \/ (pc # "rebroadcast" /\ pc' # "dead")
    BY <1>7 DEF NewBlock, Evict, HandleBreach, StoreTracker, GetBlock, ClearReceipts, StoreLast, vars, watch
  <2> QED BY <1>1, <2>1, <2>2 DEF Missing, Unconfirmed
<1> QED BY <1>3, <1>4, <1>5, <1>6, <1>7, Growing

THEOREM AliveInvariance ==
    EveryBlock /\ EachOnce /\ Subscribed /\ Spec => [](Subscribed /\ OrderInv /\ MemoryInv /\ ListInv /\ AliveInv)
<1>1. Subscribed /\ [Next]_vars => Subscribed'
  BY DEF Subscribed
<1> QED BY <1>1, ListInvariance, AliveInit, AliveStep, PTL DEF Spec

(* While the chain only grows, no exception ends the thread, with requests *)
(* in any order, restarts at any time, and whatever bitcoind evicts and    *)
(* rejects, when no subscription runs out.                                 *)
THEOREM NeverDiesHolds == EveryBlock /\ EachOnce /\ Subscribed /\ Spec => [](reorgs = 0 => NeverDies)
<1>1. OrderInv /\ MemoryInv /\ AliveInv => (reorgs = 0 => NeverDies)
  <2> SUFFICES ASSUME OrderInv, MemoryInv, AliveInv, reorgs = 0 PROVE pc # "dead" /\ TypeOK
    BY DEF NeverDies
  <2>1. BlockTypes /\ BlocksInOrder /\ MemoryTypes /\ pc # "dead" /\ Missing
    BY DEF OrderInv, MemoryInv, AliveInv
  <2>2. Len(chain) \in Nat /\ Len(last) \in Nat /\ Len(last) <= Len(chain) /\ MaxHeight \in Nat
    BY <2>1, TakenIsPrefix, Assumed, LenProperties DEF BlockTypes, Chains
  <2>3. IsChain(chain) /\ IsChain(last) /\ IsChain(block)
    BY <2>1, <2>2 DEF BlockTypes, IsChain
  <2>4. ASSUME NEW n \in DOMAIN block_queue PROVE IsChain(block_queue[n])
    <3>1. DOMAIN block_queue = 1..Len(block_queue) /\ Len(block_queue) \in Nat
      BY <2>1, LenProperties DEF BlockTypes
    <3>2. Len(Taken) \in 0..Len(chain)
      BY <2>1, TakenIsPrefix
    <3>3. Len(Taken) + n \in 0..Len(chain)
      BY <2>1, <2>2, <3>1, <3>2 DEF BlocksInOrder
    <3>4. block_queue[n] = SubSeq(chain, 1, Len(Taken) + n)
      BY <2>1, <3>1 DEF BlocksInOrder
    <3> DEFINE k == Len(Taken) + n
    <3> HIDE DEF k
    <3>5. k \in 0..Len(chain) /\ block_queue[n] = SubSeq(chain, 1, k) /\ chain \in Chains
      BY <2>1, <3>3, <3>4 DEF k, BlockTypes
    <3>6. block_queue[n] \in Chains /\ Len(block_queue[n]) = k
      BY <3>5, PrefixOf
    <3>7. Len(block_queue[n]) <= MaxHeight
      BY <2>1, <2>2, <3>5, <3>6 DEF BlockTypes
    <3> QED BY <3>6, <3>7 DEF IsChain
  <2>5. missed_confirmations \in [Txs -> 0..CONFIRMATIONS_BEFORE_RETRY]
    <3>1. \A tx \in Txs : missed_confirmations[tx] \in 0..CONFIRMATIONS_BEFORE_RETRY
      BY <2>1, Assumed DEF MemoryTypes, Missing
    <3> QED BY <2>1, <3>1 DEF MemoryTypes
  <2>6. unconfirmed_txs \in [Txs -> Nat]
    BY <2>1 DEF MemoryTypes
  <2>7. reorgs \in 0..MaxReorgs
    BY DEF OrderInv
  <2> QED BY <2>1, <2>3, <2>4, <2>5, <2>6, <2>7 DEF TypeOK, BlockTypes, MemoryTypes
<1> QED BY <1>1, AliveInvariance, PTL

-----------------------------------------------------------------------------
(* The penalties that wait.                                                *)

LEMMA UnminedStays ==
    ASSUME BlockTypes, BlockTypes', NEW tx, MinedAt(tx, chain') = 0,
           \/ chain' = chain
           \/ mempool \subseteq Txs /\ reorgs \in 0..MaxReorgs /\
              \E txs \in SUBSET mempool, told \in BOOLEAN : NewBlock(txs, told)
    PROVE  MinedAt(tx, chain) = 0
<1>1. CASE chain' = chain
  BY <1>1
<1>2. CASE mempool \subseteq Txs /\ reorgs \in 0..MaxReorgs /\
           \E txs \in SUBSET mempool, told \in BOOLEAN : NewBlock(txs, told)
  <2>1. PICK txs \in SUBSET mempool : chain' = Append(chain, [txs |-> txs, branch |-> reorgs])
    BY <1>2 DEF NewBlock
  <2> DEFINE b == [txs |-> txs, branch |-> reorgs]
  <2>2. b \in [txs : SUBSET Txs, branch : 0..MaxReorgs] /\ chain \in Chains /\ chain' \in Chains
    BY <1>2 DEF BlockTypes
  <2> HIDE DEF b
  <2>3. Len(chain) \in Nat /\ Len(Append(chain, b)) = Len(chain) + 1 /\ \A n \in 1..Len(chain) : Append(chain, b)[n] = chain[n]
    BY <2>2, AppendProperties, LenProperties DEF Chains
  <2>4. \A n \in 1..Len(chain) : n \in 1..Len(chain') /\ chain'[n] = chain[n]
    BY <2>1, <2>3 DEF b
  <2>5. \A n \in 1..Len(chain') : tx \notin chain'[n].txs
    BY <2>2, MinedIn
  <2>6. \A n \in 1..Len(chain) : tx \notin chain[n].txs
    BY <2>4, <2>5
  <2> QED BY <2>2, <2>6, MinedIn
<1> QED BY <1>1, <1>2

(* An unmined penalty is in no block of the chain, so not in one examined. *)
LEMMA UnminedNotIn ==
    ASSUME BlockTypes, BlocksInOrder, pc # "wait", NEW tx, MinedAt(tx, chain) = 0
    PROVE  tx \notin Last(block).txs /\ Confirmations(tx) = 0
<1>1. Len(block) \in 1..Len(chain) /\ Last(block) = chain[Len(block)] /\ chain \in Chains
  BY TakenIsPrefix DEF BlockTypes
<1> QED BY <1>1, MinedIn DEF Confirmations

(* Steps that send nothing and leave the trackers alone.                   *)
WaitStays ==
    /\ trackers' = trackers /\ unconfirmed_txs' = unconfirmed_txs
    /\ missed_confirmations' = missed_confirmations /\ silent' = silent
    /\ handler' = Idle \/ (handler # Idle /\ handler'.u = handler.u /\ handler'.new = handler.new)
    /\ \A tx \in Txs : issued_receipts'[tx] = None \/ (issued_receipts'[tx] = issued_receipts[tx] /\ Counted' = Counted)

LEMMA WaitStaysBy ==
    ASSUME BlockTypes, MemoryTypes,
           \/ \E txs \in SUBSET mempool, told \in BOOLEAN : NewBlock(txs, told)
           \/ \E tx \in Txs : Evict(tx)
           \/ StoreTracker \/ GetBlock \/ ClearReceipts \/ StoreLast \/ UNCHANGED vars,
           pc' # "reorg"
    PROVE  WaitStays
<1>1. /\ trackers' = trackers /\ unconfirmed_txs' = unconfirmed_txs
      /\ missed_confirmations' = missed_confirmations /\ silent' = silent
  BY DEF NewBlock, Evict, StoreTracker, GetBlock, ClearReceipts, StoreLast, vars, memory
<1>2. handler' = Idle \/ handler' = handler
  BY DEF NewBlock, Evict, StoreTracker, GetBlock, ClearReceipts, StoreLast, vars
<1>3. \A tx \in Txs : issued_receipts'[tx] = None \/ (issued_receipts'[tx] = issued_receipts[tx] /\ Counted' = Counted)
  <2>1. CASE ClearReceipts
    BY <2>1 DEF ClearReceipts
  <2>2. CASE ~ClearReceipts
    <3>1. issued_receipts' = issued_receipts
      BY <2>2 DEF NewBlock, Evict, StoreTracker, GetBlock, StoreLast, vars
    <3>2. pc' = pc \/ (pc \in {"wait", "store"} /\ pc' \in {"wait", "block", "store", "reorg"})
      BY <2>2 DEF NewBlock, Evict, StoreTracker, GetBlock, StoreLast, vars, watch
    <3> QED BY <3>1, <3>2 DEF Counted
  <2> QED BY <2>1, <2>2
<1>4. handler' = Idle \/ (handler # Idle /\ handler'.u = handler.u /\ handler'.new = handler.new)
  BY <1>2
<1> QED BY <1>1, <1>3, <1>4 DEF WaitStays

LEMMA Slacks == \A tx : Slack(tx) \in 0..1 /\ (~Shared(tx) => Slack(tx) = 0) /\ (Shared(tx) => Slack(tx) = 1)
BY DEF Slack

(* Where every part of what is waited for is as it was.                    *)
LEMMA WaitQuiet ==
    ASSUME MemoryTypes, MemoryTypes', WaitStays, NEW tx \in Txs, Waiting(tx)
    PROVE  Waiting(tx)'
<1>1. None # "mined"
  BY Assumed
<1>2. /\ HasTracker(tx)' <=> HasTracker(tx)
      /\ Unconfirmed(tx)' <=> Unconfirmed(tx)
      /\ silent'[tx] = silent[tx] /\ missed_confirmations'[tx] = missed_confirmations[tx]
      /\ Slack(tx)' = Slack(tx) /\ Shared(tx)' = Shared(tx)
  BY DEF WaitStays, HasTracker, Tracked, TxOf, Unconfirmed, Slack, Shared
<1>3. handler' # Idle /\ PenaltyOf[handler'.u] = tx => handler'.new
  BY DEF WaitStays, Waiting
<1>4. \/ issued_receipts'[tx] = None
      \/ issued_receipts'[tx] = issued_receipts[tx] /\ Counted' = Counted
  BY DEF WaitStays
<1> QED BY <1>1, <1>2, <1>3, <1>4 DEF Waiting

LEMMA WaitHandleBreach ==
    ASSUME EachOnce, MemoryTypes, OnDisk, NEW u \in Uuids, HandleBreach(u),
           NEW tx \in Txs, MinedAt(tx, chain) = 0, Waiting(tx)
    PROVE  Waiting(tx)'
<1> DEFINE p == PenaltyOf[u]
           r == issued_receipts'[p]
<1>1. {p} \in SUBSET Txs
  BY Assumed
<1>2. /\ u \notin Tracked /\ SendAll({p})
      /\ handler' = IF r = "rejected" THEN Idle ELSE [step |-> "add", u |-> u, new |-> r = "sent"]
      /\ UNCHANGED <<trackers, unconfirmed_txs, missed_confirmations, pc>>
  BY DEF HandleBreach, memory, watch, EachOnce
<1> HIDE DEF p
<1>3. /\ HasTracker(tx)' <=> HasTracker(tx)
      /\ Unconfirmed(tx)' <=> Unconfirmed(tx)
      /\ missed_confirmations'[tx] = missed_confirmations[tx]
      /\ Slack(tx)' = Slack(tx) /\ Shared(tx)' = Shared(tx) /\ Counted' = Counted /\ Counted \in 0..1
  BY <1>2 DEF HasTracker, Tracked, TxOf, Unconfirmed, Slack, Shared, Counted
<1>4. missed_confirmations[tx] \in Nat /\ silent[tx] \in Nat /\ None # "mined"
  BY Assumed DEF MemoryTypes
<1>5. CASE tx # p
  <2>1. issued_receipts'[tx] = issued_receipts[tx] /\ silent'[tx] = silent[tx]
    BY <1>1, <1>2, <1>5, Sent DEF MemoryTypes, Receipts
  <2>2. ~(handler' # Idle /\ PenaltyOf[handler'.u] = tx)
    BY <1>2, <1>5 DEF p
  <2> QED BY <1>3, <2>1, <2>2 DEF Waiting
<1>6. CASE tx = p
  <2>1. /\ r \in {"sent", "mined", "rejected"}
        /\ issued_receipts[tx] # None => r = issued_receipts[tx] /\ silent'[tx] = silent[tx]
        /\ issued_receipts[tx] = None => Answer(tx, r) /\ silent'[tx] = 0
    BY <1>1, <1>2, <1>6, Sent DEF MemoryTypes, Receipts
  <2>2. r # "mined"
    <3>1. CASE issued_receipts[tx] # None
      BY <2>1, <3>1 DEF Waiting
    <3>2. CASE issued_receipts[tx] = None
      BY <2>1, <3>2 DEF Answer
    <3> QED BY <3>1, <3>2
  <2>3. handler' # Idle => handler'.new
    BY <1>2, <2>1, <2>2
  <2>4. issued_receipts[tx] = None /\ ~Shared(tx) => missed_confirmations[tx] = 0
    <3> SUFFICES ASSUME ~Shared(tx) PROVE ~HasTracker(tx)
      BY DEF Waiting
    <3>1. \A i \in Tracked : i \in Uuids /\ TxOf(i) = PenaltyOf[i]
      BY TrackedIs
    <3>2. \A i \in Tracked : TxOf(i) # tx
      BY <1>2, <1>6, <3>1 DEF Shared, p
    <3> QED BY <3>2 DEF HasTracker
  <2>5. CASE issued_receipts[tx] # None
    BY <1>3, <1>6, <2>1, <2>2, <2>3, <2>5 DEF Waiting
  <2>6. CASE issued_receipts[tx] = None
    <3>1. silent'[tx] = 0 /\ (~Shared(tx) => missed_confirmations'[tx] = 0)
      BY <1>3, <2>1, <2>4, <2>6
    <3>2. silent'[tx] <= missed_confirmations'[tx] + Slack(tx)'
      BY <1>3, <1>4, <3>1, Slacks
    <3>3. silent'[tx] <= Counted' /\ (~Shared(tx)' => missed_confirmations'[tx] <= Counted')
      BY <1>3, <3>1
    <3>4. HasTracker(tx)' => Unconfirmed(tx)'
      BY <1>3 DEF Waiting
    <3>5. ~HasTracker(tx)' => silent'[tx] = 0 /\ missed_confirmations'[tx] = 0
      BY <1>3, <3>1 DEF Waiting
    <3>6. issued_receipts'[tx] # "mined"
      BY <1>6, <2>2
    <3> QED BY <2>3, <3>2, <3>3, <3>4, <3>5, <3>6 DEF Waiting
  <2> QED BY <2>5, <2>6
<1> QED BY <1>5, <1>6

LEMMA WaitAddTracker ==
    ASSUME MemoryTypes, OnDisk, Index, AddTracker, NEW tx \in Txs, Waiting(tx)
    PROVE  Waiting(tx)'
<1>0. PICK u \in Uuids : u = handler.u
  BY MemoryAddTracker
<1>1. /\ u \in Uuids /\ trackers' = [trackers EXCEPT ![u] = TrackerOf(u)] /\ trackers[u] = None
      /\ unconfirmed_txs' = [unconfirmed_txs EXCEPT ![PenaltyOf[u]] = IF handler.new THEN 1 ELSE @]
  BY <1>0, MemoryAddTracker
<1>2. /\ handler.step = "add" /\ handler' = [handler EXCEPT !.step = "store"]
      /\ UNCHANGED <<missed_confirmations, silent, issued_receipts, pc>>
  BY DEF AddTracker, Add, watch
<1>3. handler # Idle /\ handler'.u = u /\ handler'.new = handler.new /\ handler.new \in BOOLEAN
  BY <1>0, <1>2 DEF Idle, MemoryTypes
<1>4. /\ trackers \in [Ids -> Tracker \cup {None}] /\ u \in Ids /\ PenaltyOf[u] \in Txs
      /\ unconfirmed_txs \in [Txs -> 0..1] /\ TrackerOf(u) # None
      /\ TrackerOf(u).penalty_txid = PenaltyOf[u]
  BY <1>1, Summary DEF MemoryTypes, Ids
<1>5. /\ Slack(tx)' = Slack(tx) /\ Shared(tx)' = Shared(tx) /\ Counted' = Counted
  BY <1>2 DEF Slack, Shared, Counted
<1>6. CASE PenaltyOf[u] = tx
  <2>1. handler.new
    BY <1>0, <1>3, <1>6 DEF Waiting
  <2>2. HasTracker(tx)' /\ Unconfirmed(tx)'
    <3>1. trackers'[u] = TrackerOf(u) /\ unconfirmed_txs'[tx] = 1
      BY <1>1, <1>4, <1>6, <2>1
    <3>2. u \in Tracked' /\ TxOf(u)' = tx
      BY <1>4, <1>6, <3>1 DEF Tracked, TxOf
    <3> QED BY <3>1, <3>2 DEF HasTracker, Unconfirmed
  <2> QED BY <1>2, <1>3, <1>5, <2>1, <2>2 DEF Waiting
<1>7. CASE PenaltyOf[u] # tx
  <2>1. Unconfirmed(tx)' <=> Unconfirmed(tx)
    BY <1>1, <1>4, <1>7 DEF Unconfirmed
  <2>2. HasTracker(tx)' <=> HasTracker(tx)
    <3>1. trackers'[u] = TrackerOf(u) /\ \A i \in Ids \ {u} : trackers'[i] = trackers[i]
      BY <1>1, <1>4
    <3>2. \A i \in Ids : trackers'[i] # None /\ trackers'[i].penalty_txid = tx <=>
                         trackers[i] # None /\ trackers[i].penalty_txid = tx
      BY <1>1, <1>4, <1>7, <3>1
    <3> QED BY <3>2 DEF HasTracker, Tracked, TxOf
  <2>3. handler' # Idle /\ PenaltyOf[handler'.u] = tx => handler'.new
    BY <1>3, <1>7
  <2> QED BY <1>2, <1>5, <2>1, <2>2, <2>3 DEF Waiting
<1> QED BY <1>6, <1>7

LEMMA ListedHas ==
    ASSUME MemoryTypes, Index, NEW tx \in Txs
    PROVE  Listed(tx) # {} <=> HasTracker(tx)
<1>1. \A i \in Ids : tx_tracker_map[tx][i] > 0 <=> trackers[i] # None /\ TxOf(i) = tx
  BY DEF Index
<1> QED BY <1>1 DEF Listed, HasTracker, Tracked

LEMMA WaitExamine ==
    ASSUME BlockTypes, BlocksInOrder, MemoryTypes, OnDisk, Index, ListedAreTracked, Subscribed, Missing,
           Examine, NEW tx \in Txs, MinedAt(tx, chain) = 0, Waiting(tx)
    PROVE  Waiting(tx)'
<1>1. /\ pc = "block" /\ pc' = "rebroadcast"
      /\ check_confirmations(Last(block).txs) /\ delete_trackers(get_completed_trackers)
      /\ silent' = [t \in Txs |-> IF Listed(t) # {} THEN silent[t] + 1 ELSE 0]
  BY AliveExamine
<1>2. UNCHANGED <<handler, issued_receipts>>
  BY DEF Examine
<1>3. tx \notin Last(block).txs /\ Confirmations(tx) = 0
  BY <1>1, UnminedNotIn
<1>4. unconfirmed_txs'[tx] = unconfirmed_txs[tx]
  BY <1>1, <1>3 DEF check_confirmations
<1>5. missed_confirmations'[tx] = missed_confirmations[tx] + unconfirmed_txs[tx]
  BY <1>1, <1>4 DEF check_confirmations
<1>6. HasTracker(tx)' <=> HasTracker(tx)
  <2>1. \A i \in get_completed_trackers : TxOf(i) # tx
    BY <1>3, Assumed DEF get_completed_trackers
  <2>2. trackers' = [i \in Ids |-> IF i \in get_completed_trackers THEN None ELSE trackers[i]]
    BY <1>1 DEF delete_trackers
  <2>3. \A i \in Ids : trackers'[i] # None /\ trackers'[i].penalty_txid = tx <=>
                       trackers[i] # None /\ trackers[i].penalty_txid = tx
    BY <2>1, <2>2 DEF TxOf, get_completed_trackers, Tracked
  <2> QED BY <2>3 DEF HasTracker, Tracked, TxOf
<1>7. /\ Slack(tx)' = Slack(tx) /\ Shared(tx)' = Shared(tx) /\ Counted' = 1 /\ Counted = 0
      /\ Unconfirmed(tx)' <=> Unconfirmed(tx)
  BY <1>1, <1>4 DEF Slack, Shared, Counted, Unconfirmed
<1>8. /\ missed_confirmations[tx] \in Nat /\ silent[tx] \in Nat /\ unconfirmed_txs[tx] \in 0..1
      /\ Slack(tx) \in 0..1
  BY Slacks DEF MemoryTypes
<1>9. handler' # Idle /\ PenaltyOf[handler'.u] = tx => handler'.new
  BY <1>2 DEF Waiting
<1>10. CASE HasTracker(tx)
  <2>1. silent'[tx] = silent[tx] + 1 /\ missed_confirmations'[tx] = missed_confirmations[tx] + 1
    <3>1. Listed(tx) # {} /\ unconfirmed_txs[tx] = 1
      BY <1>8, <1>10, ListedHas DEF Waiting, Unconfirmed
    <3> QED BY <1>1, <1>5, <3>1
  <2> QED BY <1>2, <1>6, <1>7, <1>8, <1>9, <1>10, <2>1 DEF Waiting
<1>11. CASE ~HasTracker(tx)
  <2>1. ~RanOut(tx) /\ ~Unconfirmed(tx)
    BY <1>11 DEF RanOut, Subscribed, ListedAreTracked
  <2>2. silent'[tx] = 0 /\ missed_confirmations'[tx] = 0
    <3>1. Listed(tx) = {} /\ unconfirmed_txs[tx] = 0 /\ missed_confirmations[tx] = 0
      BY <1>8, <1>11, <2>1, ListedHas DEF Waiting, Unconfirmed
    <3> QED BY <1>1, <1>5, <3>1
  <2> QED BY <1>2, <1>6, <1>7, <1>8, <1>9, <1>11, <2>2 DEF Waiting
<1> QED BY <1>10, <1>11

LEMMA WaitRebroadcast ==
    ASSUME MemoryTypes, OnDisk, Index, ListedAreTracked, Subscribed, Missing, Rebroadcast,
           NEW tx \in Txs, MinedAt(tx, chain) = 0, Waiting(tx)
    PROVE  Waiting(tx)'
<1> DEFINE S == get_txs_to_rebroadcast
<1>1. /\ pc = "rebroadcast" /\ pc' = "clear" /\ SendAll(S) /\ S \in SUBSET Txs
      /\ \A t \in S : missed_confirmations[t] = CONFIRMATIONS_BEFORE_RETRY
      /\ missed_confirmations' = [t \in Txs |-> IF t \in S THEN 0 ELSE missed_confirmations[t]]
  BY AliveRebroadcast DEF Rebroadcast, get_txs_to_rebroadcast
<1>2. UNCHANGED <<handler, trackers, unconfirmed_txs>>
  BY DEF Rebroadcast
<1> HIDE DEF S
<1>3. /\ HasTracker(tx)' <=> HasTracker(tx)
      /\ Unconfirmed(tx)' <=> Unconfirmed(tx)
      /\ Slack(tx)' = Slack(tx) /\ Shared(tx)' = Shared(tx) /\ Counted' = 1 /\ Counted = 1
  BY <1>1, <1>2 DEF HasTracker, Tracked, TxOf, Unconfirmed, Slack, Shared, Counted
<1>4. missed_confirmations[tx] \in Nat /\ silent[tx] \in Nat /\ Slack(tx) \in 0..1
  BY Slacks DEF MemoryTypes
<1>5. handler' # Idle /\ PenaltyOf[handler'.u] = tx => handler'.new
  BY <1>2 DEF Waiting
<1>6. CASE tx \notin S
  <2>1. /\ issued_receipts'[tx] = issued_receipts[tx] /\ silent'[tx] = silent[tx]
        /\ missed_confirmations'[tx] = missed_confirmations[tx]
    BY <1>1, <1>6, Sent DEF MemoryTypes, Receipts
  <2> QED BY <1>3, <1>5, <2>1 DEF Waiting
<1>7. CASE tx \in S
  <2>1. /\ issued_receipts[tx] # None => issued_receipts'[tx] = issued_receipts[tx] /\ silent'[tx] = silent[tx]
        /\ issued_receipts[tx] = None => Answer(tx, issued_receipts'[tx]) /\ silent'[tx] = 0
    BY <1>1, <1>7, Sent DEF MemoryTypes, Receipts
  <2>2. missed_confirmations'[tx] = 0 /\ missed_confirmations[tx] > 1
    BY <1>1, <1>7, Assumed
  <2>3. CASE issued_receipts[tx] = None
    <3>1. issued_receipts'[tx] # "mined"
      BY <2>1, <2>3 DEF Answer
    <3>2. silent'[tx] = 0
      BY <2>1, <2>3
    <3> QED BY <1>3, <1>4, <1>5, <2>2, <3>1, <3>2 DEF Waiting
  <2>4. CASE issued_receipts[tx] # None
    <3>1. Shared(tx) /\ Slack(tx) = 1 /\ silent[tx] <= 1
      BY <1>3, <1>4, <2>2, <2>4, Slacks DEF Waiting
    <3> QED BY <1>3, <1>4, <1>5, <2>1, <2>2, <2>4, <3>1 DEF Waiting
  <2> QED BY <2>3, <2>4
<1> QED BY <1>6, <1>7

LEMMA WaitInit == EveryBlock /\ Init => WaitInv
<1> SUFFICES ASSUME Init, NEW tx \in Txs PROVE Waiting(tx)
  BY DEF WaitInv
<1>1. None # "mined"
  BY Assumed
<1>2. ~HasTracker(tx) /\ silent[tx] = 0 /\ missed_confirmations[tx] = 0 /\ issued_receipts[tx] = None /\ handler = Idle
  BY DEF Init, HasTracker, Tracked
<1> QED BY <1>1, <1>2, Slacks DEF Waiting

LEMMA WaitStep ==
    OrderInv /\ OrderInv' /\ MemoryInv /\ MemoryInv' /\ ListInv /\ AliveInv /\ WaitInv /\ Subscribed /\ [Next]_vars
        => WaitInv'
<1> SUFFICES ASSUME OrderInv, OrderInv', MemoryInv, MemoryInv', ListInv, AliveInv, WaitInv, Subscribed, [Next]_vars,
                    reorgs' = 0, restarts' = 0, NEW tx \in Txs, MinedAt(tx, chain') = 0
             PROVE  Waiting(tx)'
  BY DEF WaitInv
<1>1. /\ BlockTypes /\ BlocksInOrder /\ BlockTypes' /\ BlocksInOrder' /\ MemoryTypes /\ OnDisk /\ Index
      /\ MemoryTypes' /\ ListedAreTracked /\ Missing /\ reorgs = 0 /\ reorgs \in 0..MaxReorgs
      /\ EachOnce
  BY Growing DEF MemoryInv, ListInv, AliveInv, OrderInv
<1>2. ~Restart
  BY <1>1 DEF Restart, BlockTypes
<1>3. restarts = 0
  BY <1>1, <1>2, Growing DEF NewBlock, Evict, HandleBreach, AddTracker, StoreTracker, GetBlock, Examine,
        Rebroadcast, ClearReceipts, StoreLast, vars, feed
<1>4. MinedAt(tx, chain) = 0 => Waiting(tx)
  BY <1>1, <1>3 DEF WaitInv
<1>5. CASE \/ \E txs \in SUBSET mempool, told \in BOOLEAN : NewBlock(txs, told)
           \/ \E t \in Txs : Evict(t)
           \/ StoreTracker \/ GetBlock \/ ClearReceipts \/ StoreLast \/ UNCHANGED vars
  <2>1. pc' # "reorg"
    BY <1>1 DEF BlockTypes
  <2>2. WaitStays
    BY <1>1, <1>5, <2>1, WaitStaysBy
  <2>3. \/ chain' = chain
        \/ \E txs \in SUBSET mempool, told \in BOOLEAN : NewBlock(txs, told)
    BY <1>5 DEF Evict, StoreTracker, GetBlock, ClearReceipts, StoreLast, vars, bitcoind
  <2>4. mempool \subseteq Txs
    BY <1>1 DEF BlockTypes
  <2>5. MinedAt(tx, chain) = 0
    BY <1>1, <2>3, <2>4, UnminedStays
  <2> QED BY <1>1, <1>4, <2>2, <2>5, WaitQuiet
<1>6. ASSUME NEW u \in Uuids, HandleBreach(u) PROVE Waiting(tx)'
  <2>1. chain' = chain
    BY <1>6 DEF HandleBreach
  <2> QED BY <1>1, <1>4, <1>6, <2>1, WaitHandleBreach
<1>7. CASE AddTracker
  <2>1. chain' = chain
    BY <1>7 DEF AddTracker, bitcoind
  <2> QED BY <1>1, <1>4, <1>7, <2>1, WaitAddTracker
<1>8. CASE Examine
  <2>1. chain' = chain
    BY <1>8 DEF Examine, bitcoind
  <2> QED BY <1>1, <1>4, <1>8, <2>1, WaitExamine
<1>9. CASE Rebroadcast
  <2>1. chain' = chain
    BY <1>9 DEF Rebroadcast
  <2> QED BY <1>1, <1>4, <1>9, <2>1, WaitRebroadcast
<1> QED BY <1>2, <1>5, <1>6, <1>7, <1>8, <1>9, Growing

(* While the chain only grows and the tower runs, no penalty that is not   *)
(* mined is left unsent for more than CONFIRMATIONS_BEFORE_RETRY blocks,   *)
(* or one more if two appointments share it.                               *)
THEOREM ResentInTimeHolds ==
    EveryBlock /\ EachOnce /\ Subscribed /\ Spec => [](reorgs = 0 /\ restarts = 0 => ResentInTime)
<1>1. OrderInv /\ MemoryInv /\ AliveInv /\ WaitInv => (reorgs = 0 /\ restarts = 0 => ResentInTime)
  <2> SUFFICES ASSUME MemoryInv, AliveInv, WaitInv, reorgs = 0, restarts = 0,
                      NEW i \in Tracked, MinedAt(TxOf(i), chain) = 0
               PROVE  silent[TxOf(i)] <= CONFIRMATIONS_BEFORE_RETRY + Slack(TxOf(i))
    BY DEF ResentInTime, Slack
  <2>1. MemoryTypes /\ OnDisk /\ Missing
    BY DEF MemoryInv, AliveInv
  <2> DEFINE tx == TxOf(i)
  <2>2. tx \in Txs
    BY <2>1, TrackedIs
  <2>3. Waiting(tx)
    BY <2>2 DEF WaitInv
  <2> HIDE DEF tx
  <2>4. silent[tx] <= missed_confirmations[tx] + Slack(tx) /\ missed_confirmations[tx] <= CONFIRMATIONS_BEFORE_RETRY
    BY <2>1, <2>2, <2>3 DEF Waiting, Missing
  <2>5. /\ silent[tx] \in Nat /\ missed_confirmations[tx] \in Nat /\ Slack(tx) \in 0..1
        /\ CONFIRMATIONS_BEFORE_RETRY \in Nat
    BY <2>1, <2>2, Slacks, Assumed DEF MemoryTypes
  <2>6. silent[tx] <= CONFIRMATIONS_BEFORE_RETRY + Slack(tx)
    BY <2>4, <2>5
  <2> QED BY <2>6 DEF tx
<1>2. EveryBlock /\ Init /\ Subscribed => WaitInv
  BY WaitInit
<1> QED BY <1>1, <1>2, WaitStep, AliveInvariance, PTL DEF Spec
=============================================================================
