---------------------------- MODULE LocatorCache ----------------------------
(***************************************************************************)
(* The locator cache of src/teos/watcher.py: the transactions of the last  *)
(* CacheSize blocks, against which a new appointment is checked, kept by   *)
(* the watch thread as it takes blocks from its queue.  The queue may hand *)
(* it any block: the next one of the chain, one of another branch, one     *)
(* that skips others, or one seen before.                                  *)
(*                                                                         *)
(* Readers (get_txid) see the variables between any two steps.  The steps  *)
(* are the sections of code under the cache's write lock.                  *)
(***************************************************************************)
EXTENDS Blockchain

CONSTANT CacheSize

ASSUME CacheSizeAssumption == CacheSize \in Nat \ {0}

VARIABLES
    blocks, \* keys of LocatorCache.blocks, oldest first
    cache,  \* keys of LocatorCache.cache
    last,   \* Watcher.last_known_block
    cur,    \* block_hash, the block the watch thread is working on
    pc      \* where the watch thread is

cacheVars == <<blocks, cache, last, cur, pc>>

CacheTypeOK ==
    /\ blocks \in Seq(Blocks)
    /\ cache \subseteq Txs
    /\ last \in Blocks
    /\ cur \in Blocks
    /\ pc \in {"init", "wait", "got", "fixed", "added", "trimmed", "dead"}

-----------------------------------------------------------------------------
(* init: walk back from last_known_block.  The dictionary is filled newest *)
(* first and reversed at the end; nothing reads its order in between.      *)

StartAt(b) ==
    /\ last' = b /\ cur' = b
    /\ blocks' = <<>> /\ cache' = {}
    /\ pc' = "init"

InitBlock ==
    /\ pc = "init"
    /\ Len(blocks) < CacheSize /\ Len(blocks) < Len(Path[last])
    /\ LET b == Path[last][Len(Path[last]) - Len(blocks)]
       IN  /\ blocks' = <<b>> \o blocks
           /\ cache' = cache \cup TxsIn[b]
    /\ UNCHANGED <<last, cur, pc>>

InitDone ==
    /\ pc = "init"
    /\ Len(blocks) = CacheSize \/ Len(blocks) = Len(Path[last])
    /\ pc' = "wait"
    /\ UNCHANGED <<blocks, cache, last, cur>>

-----------------------------------------------------------------------------
(* The loop of do_watch.                                                   *)

Get(b) ==
    /\ pc = "wait"
    /\ cur' = b
    /\ pc' = "got"
    /\ UNCHANGED <<blocks, cache, last>>

(* Faults: fix adds to the old cache; fix leaves only the block.          *)
FixAdds ==
    /\ pc = "got" /\ ~IsParent(last, cur)
    /\ blocks' = LastBlocks(cur, CacheSize)
    /\ cache' = cache \cup TxsOf(LastBlocks(cur, CacheSize))
    /\ pc' = "fixed"
    /\ UNCHANGED <<last, cur>>

FixToTip ==
    /\ pc = "got" /\ ~IsParent(last, cur)
    /\ blocks' = <<cur>> /\ cache' = TxsIn[cur]
    /\ pc' = "fixed"
    /\ UNCHANGED <<last, cur>>

(* A block that does not extend last_known_block: fix rebuilds both        *)
(* dictionaries aside and swaps them in under the lock.                    *)
Fix ==
    /\ pc = "got" /\ ~IsParent(last, cur)
    /\ blocks' = LastBlocks(cur, CacheSize)
    /\ cache' = TxsOf(LastBlocks(cur, CacheSize))
    /\ pc' = "fixed"
    /\ UNCHANGED <<last, cur>>

(* update: a block that is already a key keeps its place.                  *)
Update ==
    /\ pc = "fixed" \/ (pc = "got" /\ IsParent(last, cur))
    /\ blocks' = IF \E i \in DOMAIN blocks : blocks[i] = cur THEN blocks
                 ELSE Append(blocks, cur)
    /\ cache' = cache \cup TxsIn[cur]
    /\ pc' = "added"
    /\ UNCHANGED <<last, cur>>

(* is_full and remove_oldest_block.  "del self.cache[locator]" raises a    *)
(* KeyError, which ends the thread, when the locator is not there.         *)
Trim ==
    /\ pc = "added"
    /\ IF Len(blocks) > CacheSize
       THEN /\ blocks' = Tail(blocks)
            /\ cache' = cache \ TxsIn[Head(blocks)]
            /\ pc' = IF TxsIn[Head(blocks)] \subseteq cache THEN "trimmed" ELSE "dead"
       ELSE /\ pc' = "trimmed"
            /\ UNCHANGED <<blocks, cache>>
    /\ UNCHANGED <<last, cur>>

(* The Watcher answers the breaches of the block and moves on to it.       *)
Done ==
    /\ pc = "trimmed"
    /\ last' = cur
    /\ pc' = "wait"
    /\ UNCHANGED <<blocks, cache, cur>>

CacheInit ==
    /\ last \in Blocks /\ cur = last
    /\ blocks = <<>> /\ cache = {}
    /\ pc = "init"

CacheNext ==
    \/ \E b \in Blocks : StartAt(b)     \* the process crashed and starts again
    \/ InitBlock \/ InitDone
    \/ \E b \in Blocks : Get(b)
    \/ Fix \/ Update \/ Trim \/ Done

CacheSpec == CacheInit /\ [][CacheNext]_cacheVars

-----------------------------------------------------------------------------
Window(b) == TxsOf(LastBlocks(b, CacheSize))

(* remove_oldest_block never misses a key: the watch thread does not die   *)
(* of a KeyError, whatever blocks it is given.                             *)
NeverKeyError == pc # "dead"

(* Between two blocks the cache holds the last CacheSize blocks of the     *)
(* chain the Watcher is at and nothing else: nothing of a reorged-out      *)
(* branch stays, although blocks of both branches may hold the same        *)
(* transaction.                                                            *)
WindowExact ==
    pc = "wait" => /\ blocks = LastBlocks(last, CacheSize)
                   /\ cache = Window(last)

(* A reader finds, at any moment after init, all of the window of the last *)
(* processed block or all of the window of the one being processed: fix    *)
(* and update leave no gap through which a breach is missed.               *)
ReadersCovered ==
    pc # "init" => Window(last) \subseteq cache \/ Window(cur) \subseteq cache

(* What add_appointment relies on when it asks the cache: an answer is one *)
(* of the window and none is missed.                                       *)
CacheServes == WindowExact /\ ReadersCovered

(* Once the cache answers with a transaction of the window of the block    *)
(* being processed it does not forget it before the next block.            *)
NoForgetting ==
    [][cur' = cur /\ pc' # "init" => cache \cap Window(cur) \subseteq cache']_cacheVars
=============================================================================
