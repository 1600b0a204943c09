# A verification development of the Eye of Satoshi (python-teos)

The Eye of Satoshi is a Lightning watchtower. A user registers with the tower
and sends it *appointments*: a locator, which is the first half of the id of a
commitment transaction that must never be mined, and an encrypted penalty that
can be decrypted with that id. The tower looks for locators in every block;
when one is there it decrypts the penalty, hands it to bitcoind, and follows it
until it is buried.

This directory holds TLA+ models of the tower's own logic, the TLC runs that
check them, and theorems about them that TLAPS has checked. The models are
translated from the code; where code and documentation disagree the model
follows the code and the disagreement is listed below.

## 1. Inventory

### The parts and how they meet

| part | state it keeps | operations | meets |
|---|---|---|---|
| `ChainMonitor` | `last_tips`, internal `queue`, `status`, `lock` | polling thread, zmq thread, notify thread, `activate`, `terminate` | puts block hashes in the `block_queue` of Watcher, Responder and Gatekeeper; sets and clears `bitcoind_reachable` |
| `BlockProcessor` | none (asks bitcoind) | `get_block`, `get_missed_blocks`, `find_last_common_ancestor`, blocking queries | called by everyone; waits for `bitcoind_reachable` |
| `LocatorCache` | `cache`, `blocks` | `init`, `update`, `fix`, `remove_oldest_block`, `get_txid` | written by the Watcher's thread, read by API threads, own read/write lock |
| `Watcher` | `appointments`, `locator_uuid_map`, `last_known_block` | `add_appointment`, `do_watch`, `get_breaches`, `check_breach` | calls Gatekeeper, Responder, Cleaner, `AppointmentsDBM`; own write lock |
| `Responder` | `trackers`, `tx_tracker_map`, `unconfirmed_txs`, `missed_confirmations` | `handle_breach`, `add_tracker`, `do_watch`, `handle_reorgs`, `rebroadcast` | called by the Watcher; calls Carrier, Gatekeeper, Cleaner, `AppointmentsDBM`; own write lock |
| `Carrier` | `issued_receipts` | `send_transaction`, `get_transaction` | called by the Responder; asks bitcoind |
| `Gatekeeper` | `registered_users`, `outdated_users_cache` | `add_update_user`, `add_update_appointment`, `delete_appointments`, `manage_subscription_expiry` | called by Watcher and Responder; writes `UsersDBM`; own write lock, which its deleting thread does not take |
| `Cleaner`, `Builder` | none | deletions from memory and disk; rebuilding memory from disk | called by the four above and by the bootstrap |
| `AppointmentsDBM`, `UsersDBM` | LevelDB: appointments, trackers, triggered flags, last blocks; users | one write, or one atomic batch, per call | survive a crash |
| `TeosDaemon` | processes and threads, `last_common_ancestor`, `missed_blocks_...` | bootstrap, services, teardown | starts and joins all of the above |
| API, Inspector | none | check a request, forward it, turn the answer into HTTP | a process in front of the InternalAPI |
| `InternalAPI` | none (a pool of threads) | one call of Watcher or Gatekeeper per request; exceptions become status codes | calls the Watcher; stopped by the teardown |
| RPC, CLI | none | the operator's queries and the stop command | a process of its own, joined by the teardown |
| `WTClient`, `Retrier` (watchtower-plugin) | `towers`, `TowersDBM`, `lock`, `temp_unreachable_towers` | `on_commitment_revocation`, `do_retry`, `registertower`, `retrytower`, `update_tower_state` | the user's side, a plugin of a Lightning node; sends appointments to towers |

The hard parts are these. Four locks and three databases are written one after
the other, so crashes and other threads see states in between. Two threads of
the ChainMonitor race to announce a block. Blocks come in an order that the
chain does not promise: after a reorg only the new tip is announced, after a
slow poll one is skipped, after a restart the missed ones come first.
Everything that is on disk is rebuilt at a start, and what is only in memory is
not. The list of hazards, each at its line, is in `PROJECT.json`.

### What would make each part correct

* LocatorCache: it is exactly the last blocks of the chain the Watcher is at,
  and a reader between two of its updates finds one whole window.
* Watcher: what it accepted it keeps, on disk and in memory; a breach from
  `start_block` on is answered; nothing is watched for free.
* Responder: a penalty is followed until it is buried, sent again when it is
  dropped, and the index by penalty agrees with the trackers.
* Gatekeeper: slots are neither made nor lost; a user is deleted at the end of
  the grace time, no sooner and no later; memory and disk agree.
* ChainMonitor: no tip is swallowed; a block is sent once, or, as the code has
  it, twice unless a thread is held up; the END message is the last; blocking
  queries are answered.
* TeosDaemon: over stops, crashes and starts no block is lost between the disk,
  the missed blocks and the announcements; the Watcher is caught up ahead of the
  Responder; every join returns; a database is closed when its users are done.
* API, Inspector, InternalAPI: what a user has paid for was accepted; what the
  user's software files of an appointment, with or without an answer, is true of
  the tower; a query misses nothing that moves meanwhile; the locks are given
  back, so that additions, queries and blocks all get their turn.
* WTClient: every revoked commitment is accepted, refused or pending for every
  tower, in one place, and pending ones leave in the order they came; what is
  pending is delivered in the end or the tower is flagged; one retry at a time;
  a misbehaving tower is left alone; the lock comes back.

## 2. Plan

In the order of importance: `Blockchain`, `LocatorCache` and `Watcher` with
their proofs; `ChainMonitor`, `Gatekeeper` and `Responder`; `WTClient`, its
abstract specification `Outbox` and the proof that it implements it; `Tower`,
which composes the ChainMonitor, the bootstrap, the queues, the services and the
teardown; `Requests`, which composes the two APIs, Watcher, Responder,
Gatekeeper and the client's side of a request.

All of these are written. What could still be added is an abstract tower
(accepted, answered, completed, dropped) that `Watcher` and `Responder` implement.

Every module is written for both tools: constants with named assumptions, one
action per operation, invariants as conjunctions, folds in place of RECURSIVE
operators.

## 3. The modules

Operators named `...Nothing`, `...Early`, `...Only` and the like, each under a
comment that begins with "Fault", are not part of a specification. They are
plausible mistakes in the definition that follows them, and each property was
seen to fail when one of them takes its place.

**`Blockchain`** is the block tree and what the BlockProcessor computes over
it. The tree is a constant; a tip moves over it. A transaction stands for its
id and its locator.

**`LocatorCache`** (`LocatorCache` of `watcher.py` and the part of
`Watcher.do_watch` that drives it). One action per section under the cache's
lock: `InitBlock` and `InitDone` are `init`, `Fix` is `fix`, `Update` is
`update`, `Trim` is `is_full` with `remove_oldest_block`. `Get` hands over *any*
block: the next one, one of another branch, one that skips some, one seen
before. Readers need no action; the invariants speak of every state in which one
could look. It is checked, and its theorems hold, within the Watcher.

**`Watcher`** extends `LocatorCache`. `Enter`, `HandOver`, `FlagTriggered`,
`DeleteDropped`, `FreeSlots`, `StoreLast` and `Finish` are the rest of
`do_watch`; `Accept`, `Watch`, `Trigger`, `StoreTriggered`, `FlagStored` and
`Sign` are `add_appointment`. Both hold the Watcher's write lock, so one API
thread stands for all. A step ends where a database is written, and `Crash` may
come between any two; `Boot` and `Serve` are the bootstrap. Of the Responder
there is only what the Watcher can notice: a tracker is added, or deleted in
three batches. Whether a blob decrypts is chosen per submission, whether
bitcoind takes the penalty at each attempt. `promised` is history: the
appointments for which a receipt is out and which the tower has not yet been
released from.

**`Responder`** covers `responder.py` and the Carrier. A block is the chain that
ends in it, so bitcoind may build any chain: which penalties of the mempool it
mines is a choice, as are evictions, rejections and reorgs. `Examine` is the
section of `do_watch` under the lock, `Rebroadcast` its last call, `HandleReorg`
one turn of the loop in `handle_reorgs`, with the exchanged arguments of the
code. `unconfirmed_txs` and the lists of `tx_tracker_map` are bags, how often each
member is in the list, as no code reads their order; an item that is removed is
one less. `silent` is history: blocks since a penalty was last sent.

**`Gatekeeper`** covers `gatekeeper.py`, the user database and the Cleaner's two
user functions. Operations under the lock are a change in memory, a snapshot
(`to_dict`) and a store; the deleting thread pops and deletes between them.
Blocks are heights. `bought` is history: registrations since the user was added.

**`ChainMonitor`** covers `chain_monitor.py` and `_blocking_query`. Three
threads with program counters, tips numbered in the order in which bitcoind
moves to them. `Ask` and `Call` stand for a blocking query of any other thread,
if `Queries`. `heldUp` is history: whether the polling or the zmq thread has had a
tip in its hands that was half a window old.

**`Tower`** is one tower from start to exit, and again: `MonitorChain` to
`StartServices` are `bootstrap_components` and `start_services` of `teosd.py`,
`StopApi` to `Exit` its `teardown`, each a step of the main thread; `Notice`,
`NotifierGet` and `NotifierSend` are the ChainMonitor; `Begin`, `Get`, `Process`
and `Store` the thread of Watcher or Responder, of which only the block queue
and the last block on disk are left. `Feeding` and `update_states` are what
`builder.py` puts in which queue, in which order, joining after each batch. A
request is `Request` and `Respond`, all of which matters here being that it uses
the databases. The ChainMonitor's own races are the subject of its module, so
its two threads are one here. `settled` is history: the blocks a component has
processed, or of which it owes nothing to anybody.

**`Requests`** follows a request from the user's software through the Inspector
(`inspect`), the InternalAPI, the locks of the Watcher (`Enter`, `Charge`,
`Keep` for `add_appointment`; `Read`, `HasTracker`, `LoadTracker` for
`get_appointment`; `GetUserInfo`, `StartList`, `ListNext` for
`get_subscription_info`) and back (`Answer`, `Receive`, or `TimeOut`). The steps
are those between which a lock is free, as the Gatekeeper's thread
(`GatekeeperBlock`), the Watcher's (`WatchBlock`) and the Responder's
(`EndTracker`) may come between; a list is made in two looks per appointment, at
`has_tracker` and at `get_tracker`. `GatekeeperBlock` is the entry of the cache and
the deletion in one step, what may come between being the subject of `Gatekeeper`.
`SendAdd` is the hook or a retry: they may wait for different appointments at a
time. `Filing` is what `net/http.py` of the plugin makes of an answer: a 500 is
filed nowhere, as None is then unpacked. `unheard` and `owed` are history: the appointments with a
receipt that has not reached the user, and those the tower is not yet released
from.

**`Outbox`** is what the client promises, in three actions: an appointment is
postponed, settled, or forgotten with the registration; pending ones leave in
the order they came, and what is settled stays where it is.

**`WTClient`** covers the watchtower-plugin. `Revoke`, `Visit`, `HookAnswer`,
`Tell` and `HookDone` are `on_commitment_revocation`, which looks at a tower's
status without the lock, waits for the tower and tells the outcome under the
lock; `RetryTower`, `RetryUnknown` and `Register` are commands, which the plugin
runs between two hooks; `manage_retry` takes a tower from the queue and starts a
thread, whose `Begin`, `Answer`, `Deliver` and `on_giveup` are `do_retry` under
its backoff. `update_tower_state` loads, changes, summarises and stores a record
in one step. What `add_appointment` of `net/http.py` may come to is `Answers`. A
record is held in `db` and its summary in `towers`; `handed` is history: what the
hook is done with. `OutboxSpec` is `Outbox` with the records on disk for its
state.

**`LocatorCacheProofs`**, **`WatcherProofs`**, **`GatekeeperProofs`**,
**`ResponderProofs`**, **`ChainMonitorProofs`**, **`WTClientProofs`**,
**`TowerProofs`** and **`RequestsProofs`** hold the theorems (section 6).
The `MC...` modules give the constants values.

### Rare events

`Rare` is a constant of six modules: the set of unusual events that a run
includes. With the empty set the environment behaves as the code expects it to,
and with each of the events the code is known to fail some property (section 5).
The events are guards on the environment, or on the timing of two threads; no
handler is changed by them.

| module | event | meaning |
|---|---|---|
| Watcher | `live reorg` | the tip moves to a block that does not extend the last one while the tower runs |
| | `idle restart` | a tower with nothing on disk misses blocks while it is down |
| | `torn deletion` | a crash between the batches of `delete_trackers` |
| | `early api` | a request before a fresh cache is filled |
| | `double custody` | the end of a tracker that, after a crash, the Watcher still watches for |
| | `early end` | the end of a tracker between `handle_breach` and the flag of its appointment, or while a request is at work on it |
| Gatekeeper | `missed` | a height that the Gatekeeper is not given |
| | `duplicate` | a height that it is given twice |
| | `overlap` | a request for a user that the deleting thread is busy with |
| Responder | `outdated` | a subscription runs out |
| | `untriggered` | and one of its appointments is still with the Watcher |
| | `skip` | the poll jumps over a block |
| | `late add` | the block with the penalty is examined between its sending and `add_tracker` |
| | `again` | the Watcher hands over an appointment that has a tracker: after a crash before its flag, or when an update of it was triggered from the cache |
| Tower | `skip` | a tip that does not extend the one before, while the tower runs |
| | `moving tip` | a new tip while the missed blocks are looked up |
| | `busy end` | `terminate` with a tip on its way |
| | `slow request` | a request that outlives the grace time |
| | `busy gatekeeper` | the Gatekeeper's thread is behind when the databases are closed |
| Requests | `lag` | the Watcher is behind the Gatekeeper when a user comes back |
| | `unheard` | a breach after an acceptance that the user has not heard of |
| | `twice` | a hook and a retry send one appointment at the same time |
| WTClient | `overlap` | a hook comes to a tower that a retry is going through, or the other way round |
| | `retry again` | `retrytower` for a tower that is being retried |
| | `restart` | a restart with something pending that no tower's status gives away |
| | `register` | `registertower` for a tower that is registered |
| | `unknown` | `retrytower` for a tower that is not |

## 4. The runs

| run | states | what it shows |
|---|---|---|
| `watcher` | 242 000 | two users, one dispute that a reorg moves to another height, cache of 3, one crash at any step. `WatchedFromStartBlock`: nothing is still watched whose dispute `start_block` covers. `PromiseKept`: every breach of a promised appointment is answered in the end |
| `watcher_storm` | 569 000 | the same with live reorgs, idle restarts and early requests. Memory, index, disk, slots and promises agree (`WatchedAreReadable`, `MapIsIndex`, `WatchedAreAccounted`, `PromisesSurvive`); `CacheSpec` says that the Watcher's steps on the cache are those of `LocatorCache`, `CacheServes` and `NoForgetting` that a reader finds one whole window, the last blocks, between any two of them |
| `chain_monitor` | 756 000 | four tips and a window of two, two subscribers, a lossy feed, shutdown at any time. A block is sent twice at the most while no thread has been held up for half a window, END is the last message, one message at most follows `terminate` (`SentInBounds`), no remembered tip is swallowed (`SeenIsNotified`) |
| `chain_monitor_live` | 137 000 | three tips, no shutdown, one outage, fairness: a lasting tip arrives, a blocking query is answered |
| `gatekeeper` | 2 660 000 | two users, one with two appointments of one or two slots, grace time of one block, cache of two, one crash: `SlotsConserved`, `GraceTime`, `OutdatedAreDeleted`, `DbMirrors`, `NobodyDies`, and that the cache of outdated users serves the housekeeping of the others |
| `responder` | 87 000 | two penalties, five blocks, evictions and rejections: `ResentInTime`, `UnconfirmedAreUnconfirmed`, `NeverDies`, `BuriedAreCompleted` |
| `responder_storm` | 231 000 | a shared penalty, outdated users, one reorg, one restart: `MapIsIndex` (over restarts or over the reorg), `DeletedAreDone` |
| `tower` | 493 000 | a chain of four blocks and one that a reorg drops while the tower is down, two starts, a crash anywhere. `NoBlockLost`, `WatcherLeads`, `ClosedIsQuiet`, and `Settles`: the bootstrap and the teardown end |
| `requests` | 212 000 | two appointments, one of them with the delay that the Inspector lets through and the next field does not hold, two requests at a time, expiry and deletion of the user, one lost answer or outage: one slot: `PaidAreTaken`, `FiledIsTrue`, `QueriesAreTrue`, and `Served`: the locks are given back, additions and queries that hold one are answered, and the Watcher comes to every block |
| `client` | 275 000 | two towers, two commitments, two retry threads of two tries, no restart; hooks wait for retries of the same tower. `RevokedAreKept`, `OneAtATime`, `MisbehavingIsAbandoned`, `PendingAreSettled` |
| `client_storm` | 746 000 | one tower, three commitments, two retry threads, one restart, all rare events; hooks, commands, odd answers and threads in any order: `MemoryIsDisk` and the refinement `OutboxSpec` |
| `chain_monitor_end` | | the disagreement of section 5 that is kept as a run |

### Bounds

Two users, two penalties or two appointments are the least with which entries of
an index are shared and not shared. A cache of 2 or 3 blocks on chains of up to
6 fills, slides and is rebuilt; the code's 6 differs in nothing but the number.
One crash or restart is enough for every pair of steps to be torn apart, and the
start after it runs with all other events. One reorg of depth one already makes
the code take its reorg path. `CONFIRMATIONS_BEFORE_RETRY` (6 in the code) and
`IRREVOCABLY_RESOLVED` (100) are 2 or 3, less than the chain's height, so that
both limits are passed. `MaxTip` exceeds the window of last tips, so the window slides and a block can
come a third time. Counters are capped in the
guards of the environment only (`MaxCrashes`, `MaxRestarts`, `MaxReorgs`,
`MaxOutages`, `MaxTip`, `MaxHeight`, `MaxRegistrations`, `MaxLag`, and
`Retriers`, the threads of the Retrier at one time; in `Tower` the chain and
`MaxStarts`; in `Requests` `MaxSlots`, `MaxLost` and `Ids`). `MaxTries` is the client's
MAX_RETRIES: with two, a pass is repeated once before the thread gives up. Two
towers meet each other in the hook's loop, in the queue and at the lock; that one
thread may not see what a hook adds for the same tower takes three commitments
(one is delivered, one backs off, a third comes meanwhile), and the storm has
these. Two starts of a tower are a bootstrap after any crash of a bootstrap, a
service or a teardown. In `Requests` a block comes only when both threads have
seen the last one (`lag` lifts that for a returning user), the other users'
appointments are a choice of how many slots are free, and queries come one at a
time, as they change nothing. `SlotsConserved` was also checked with all rare
events and one user, and holds. As only one appointment of `requests` can be charged
for, `MaxSlots` is 1 there; its invariants were also checked with delays that are both
good and two slots (9 million states), and hold. As chains are finite, behaviours end when they
are used up, so no run checks deadlock; threads that wait for each other are what
the liveness properties are for.

### Fairness

The tower's threads are operating system threads that do run: weak fairness of
their steps. A step that must take a lock which others take again and again has
strong fairness (`Enter`, `Examine`, `AddTracker`): the locks are handed on among
waiting threads. The ChainMonitor's lock needs none. In the ChainMonitor, `ComeBack` is fair because
an outage that never ends is no case for liveness; `Answer` and `Call` are
strongly fair since polling and queries are repeated for ever. Nothing is
assumed of users, of new blocks or of zmq. `Boot` is fair: a tower that crashed
is started again. In the client, the hook, `manage_retry` and each thread of
`do_retry` go on: requests have timeouts (`net/http.py:112`), and `backoff` wakes
up. Nothing is assumed of the user's commands. In `Tower`, the main thread, the
monitor, the threads of the components, the RPC process and a request that has
begun go on; nothing is assumed of new blocks, of new requests, of the stop
command or of a start. In `Requests`, handlers go on, and answers are read;
`Enter` and `WatchBlock` are strongly fair as `RWLockWrite` lets waiting writers in
before new readers. Nothing is assumed of the user's software: it may send again
what is pending or never do so. (After a subscription error the plugin does not;
that its own pending appointments are delivered, or the tower flagged, is
`PendingAreSettled` of `WTClient`.)

## 5. Disagreements

Kept as a run, with the quoted documentation in `PROJECT.json`:

* `chain_monitor_end`: when a block is in hand, or ahead of END in the internal
  queue, at `terminate`, END is not sent, and the teardown waits for threads
  that wait for END.

Met while modelling and not kept as runs. Each is seen by changing one
configuration as told; each is the reason of a guard named in section 3, and
the checked property holds without it.

| to see it | property that fails | what happens |
|---|---|---|
| `MCWatcher.cfg`, `Rare = {"live reorg"}` | `WatchedFromStartBlock` | breaches are looked up in the announced block only, not in the ones between it and the fork (`watcher.py:486`) |
| `MCWatcher.cfg`, `Rare = {"idle restart"}` | `WatchedFromStartBlock` | a tower with no appointments that comes back after some blocks gives out receipts with the old height as `start_block` and never looks at the blocks since (`teosd.py:190`), though that is "the block height at which the tower will start watching" (`receipts.py:49`) |
| `MCWatcher.cfg`, `Rare = {"early api"}` | `WatchedFromStartBlock` | a fresh start serves requests before the cache is filled (`watcher.py:471`) |
| `MCWatcherStorm.cfg`, `Rare = {"double custody"}` | `WatchedAreReadable` | after a crash between tracker and flag the tracker's end deletes the row of an appointment that is watched; its next breach kills the thread (`watcher.py:540`) |
| `MCWatcherStorm.cfg`, `Rare = {"early end"}` | `WatchedAreAccounted` | the Responder deletes a tracker, with its rows and slots, while the request that triggered it from the cache is between `handle_breach` and the store of the row (`responder.py:327`, `watcher.py:414`); after a crash before the flag the row is watched, and nobody has paid for it |
| `MCWatcher.cfg` with `CacheSize = 2`, `Rare = {"early end"}` | `PromisesSurvive`, checked alone | it deletes the tracker, its rows and its flags between `handle_breach` and the flag (`watcher.py:401`, `:415`, and `:517`, `:540`), which is written all the same and hides the next appointment with that uuid |
| `MCWatcher.cfg`, `Rare = {"early end"}` | `WatchedFromStartBlock` | in the same way, the row is loaded after the crash and watched for a dispute that lies behind |
| `MCWatcher.cfg` with `CacheSize = 2`, `Rare = {"torn deletion"}` | `PromisesSurvive`, checked alone | a flag without appointment hides the next appointment with that uuid (`cleaner.py:153`); the small tree of `MCWatcherStorm.cfg` does not reach it |
| `MCGatekeeper.cfg`, `Rare = {"missed"}` | `OutdatedAreDeleted` | users are found by equal heights (`gatekeeper.py:315`), and missed blocks are not fed to the Gatekeeper |
| `MCGatekeeper.cfg`, `Rare = {"duplicate"}` | `NobodyDies` | a height that comes twice pops users that are gone (`cleaner.py:197`) |
| `MCGatekeeper.cfg`, `Rare = {"overlap"}` | `NobodyDies`, `GraceTime` | the deleting thread takes no lock (`gatekeeper.py:149`, `cleaner.py:180`) |
| `MCResponder.cfg`, `Rare = {"outdated"}` | `NeverDies` | `delete_trackers` leaves the penalty in `unconfirmed_txs`, and `rebroadcast` comes to it (`responder.py:483`) |
| `MCResponder.cfg`, `Rare = {"outdated", "untriggered"}` | `NeverDies` | when a subscription ends with an appointment that is still with the Watcher, `get_outdated_trackers` raises a KeyError and the thread is gone (`responder.py:452`) |
| `MCResponder.cfg`, `MaxRestarts = 1` | `ResentInTime` | `unconfirmed_txs` is not rebuilt (`builder.py:65`) |
| `MCResponder.cfg`, `PenaltyOf <- OnePenalty` | `ResentInTime` without its allowance for a `Shared` penalty | a second breach sends the penalty in the block in which its turn to be sent again comes; the receipt of that is given again, and the count starts afresh (`carrier.py:75`, `responder.py:487`) |
| `MCResponderStorm.cfg`, both uuids outdated, at 2 and at 4 | `DeletedAreDone` | what the first deletion leaves in `unconfirmed_txs` makes a penalty that is mined since count as unconfirmed when the second runs out (`cleaner.py:142`, `responder.py:452`) |
| `MCResponder.cfg`, `Rare = {"late add"}` | `UnconfirmedAreUnconfirmed` first, `BuriedAreCompleted` when checked alone | a penalty enters `unconfirmed_txs` after its confirmation (`responder.py:228`) |
| `MCResponderStorm.cfg`, `Rare = {"again"}` | `MapIsIndex` | `add_tracker` appends the uuid to `tx_tracker_map` a second time (`responder.py:266`), after a crash between the tracker and the flag (`watcher.py:540`), or when an update was triggered from the cache (`:397`) and the watch thread then meets the breach (`:504`) |
| `MCResponder.cfg`, `Rare = {"again"}` | `ResentInTime` | the second time the penalty is sent in the block in which its turn to be sent again comes, and the count starts afresh on the receipt of that, as for a shared penalty below |
| `MCResponder.cfg`, `Rare = {"skip"}` | `NeverDies` first, `UnconfirmedAreUnconfirmed` when checked alone | only blocks that extend the last one are looked at for confirmations (`responder.py:335`) |
| `MCResponder.cfg`, `MaxReorgs = 1` | `NeverDies` | `handle_reorgs` reads a tracker that is not on disk yet (`responder.py:511`) |
| `MCTower.cfg`, `Rare = {"skip"}` | `NoBlockLost` | a tip that jumps over a block is stored as the last one, and the block between is never missed again (`watcher.py:552`, `chain_monitor.py:134`) |
| `MCTower.cfg`, `Rare = {"moving tip"}` | `WatcherLeads` | the two lists of missed blocks are looked up one after the other, and `update_states` goes on after the difference as if they ended in one block: "Once they are at the same height" (`builder.py:136`, `teosd.py:235`) |
| `MCTower.cfg`, `Rare = {"busy end"}` | `Settles`, checked alone | the END message is not sent (as above), and the teardown joins threads that wait for it (`teosd.py:344`) |
| `MCTower.cfg`, `Rare = {"slow request"}` | `ClosedIsQuiet` | the grace time of `stop` bounds the wait and ends no request, which then finds the database closed (`teosd.py:337`) |
| `MCTower.cfg`, `Rare = {"busy gatekeeper"}` | `ClosedIsQuiet` | the Gatekeeper's thread is not joined before `users_db` is closed (`teosd.py:344`, `:350`) |
| `MCChainMonitor.cfg`, `INVARIANTS NotifiedOnce` | `NotifiedOnce` | "Blocks are only notified once per queue" (`chain_monitor.py:21`): polling and zmq both find the block missing from `last_tips` before either has put it (`:104`) |
| `MCChainMonitor.cfg`, `INVARIANTS UpToTwice` | `UpToTwice` | the window of last tips slides past a block while a thread still has it in its hands (`chain_monitor.py:104`, `:115`), and it is sent a third time |
| `MCChainMonitor.cfg`, `INVARIANTS NoBlockAfterTerminate` | `NoBlockAfterTerminate` | "no receiving queue will be notified about new blocks (including any block that is currently in the internal queue)" (`chain_monitor.py:34`): the notifier sends the block it took before `terminate` (`:177`) |
| `MCRequests.cfg`, `Rare = {"lag"}` | `FiledIsTrue` | the Watcher asks who was outdated at a height when the user is back, and deletes the new appointments under the old uuids (`watcher.py:496`) |
| `MCRequests.cfg`, `Rare = {"unheard"}` | `FiledIsTrue` | the answer to an accepted appointment is lost, the tower triggers it, and the next try is refused as already triggered, which the plugin files as invalid (`net/http.py:43`) |
| `MCRequests.cfg`, `Rare = {"twice"}` | `FiledIsTrue` | a hook and a retry wait for two answers to one appointment (`watchtower.py:417`, `retrier.py:116`): one is a receipt, and the other, as it was triggered in between, a refusal |
| `MCWTClient.cfg`, `Rare = {"overlap"}` | each of its properties, checked alone | a pass does not see what a hook adds meanwhile, and ends with the tower `reachable`, something pending and nobody retrying (`retrier.py:113`), though "every pending appointment is sent through" (the plugin's README); a hook that finds the tower `reachable` between two passes puts it in the queue a second time, and of two threads that deliver the same appointment the second raises with the lock held (`watchtower.py:133`); a tower found misbehaving is called reachable by the other thread |
| `MCWTClient.cfg`, `Rare = {"retry again"}` | `OneAtATime` | the status that `retrytower` sets is in memory only, and a hook takes it back (`watchtower.py:376`, `:141`) |
| `MCWTClient.cfg`, `Rare = {"restart"}` | `PendingAreSettled` | the queue is not rebuilt from the towers that are `temporarily unreachable`, and `retrytower` refuses them (`watchtower.py:103`, `:365`) |
| `MCWTClient.cfg`, `Rare = {"register"}` | `RevokedAreKept` | registering again, as the plugin's README advises after a subscription error, starts the record afresh (`watchtower.py:240`) |
| `MCWTClient.cfg`, `Rare = {"unknown"}` | `OneAtATime` | the status of a tower that is not there is read under the lock (`watchtower.py:365`) |
| `MCWTClient.cfg`, `"unexpected"` among the `Answers` | `RevokedAreKept`, `PendingAreSettled` | `add_appointment` logs an unexpected error and returns None, which is unpacked (`net/http.py:54`) |

`SentInBounds` is what is left of the docstring that the three invariants of
`ChainMonitor` restate: a block twice, unless `heldUp`, and one message after
`terminate`.

Smaller ones: a blocking query may wait for ever once polling has stopped
(`chain_monitor.py:127`, hence the exception in `QueryAnswered`); `handle_reorgs` stores a reset tracker under its
locator (`responder.py:534`), where the index lists it twice if there is one already
(after a second reorg, after a restart that sees the reorg again, or for a second
user of the channel: the conditions in `MapIsIndex`), and lists a penalty again (`:525`); receipts are not
reset in blocks that find no trackers (`:346`); slots that come back may pass the
four bytes that a registration has filled (`cleaner.py:174`, `gatekeeper.py:179`).
A `to_self_delay` of 2^32 passes the Inspector (`inspector.py:117`) and does not
fit the `uint32` of the next request (`appointment.proto:15`), so that the answer
is a 500, which the plugin files nowhere (`net/http.py:54`). A user
who is deleted between charge and receipt gets a 503 while the appointment is
kept (`watcher.py:454`, `gatekeeper.py:250`), and `get_subscription_info` goes
through a dict that the Responder's thread may change, a 503 too
(`watcher.py:715`).

## 6. What is proved

`LocatorCacheProofs`, for every block tree that satisfies `PathAssumption` and
`TxsAssumption` and every `CacheSize` in `Nat \ {0}`:

* `CacheInvariance`: `CacheSpec => []CacheInv`, the inductive invariant, which
  contains the type invariant.
* `CacheServesHolds` from it (the window is exact between two blocks, and
  readers always find a whole one), `NeverKeyErrorHolds`, and `NoForgettingHolds`,
  an action property.

The invariants themselves are not inductive: `WindowExact` speaks of one program
location only. `CacheInv` says for each location which stretch of which chain
the keys of `blocks` spell out (the end of the chain of `last` before the block
is fixed, of `cur` after it, one block too many between update and trim), and
that `cache` is the union of its transactions. The argument that dropping the
oldest block takes nothing from the others is `TxsAssumption`: a chain never
holds a transaction twice. That a block which extends `last` keeps the stretch
in one piece is `ParentPath`, which is `PathAssumption`. The lemmas on windows
(`WindowProperties`, `AppendToWindow`, `TailOfWindow`, `DropOldest`,
`WiderWindow`) carry the sequence arithmetic once.

`WatcherProofs`, for the same trees, any set of appointments with any locators
and expiries, any number of crashes and any tips. The rare events of section 3
are included but for those that break a property, whose absence its theorem names
as a condition: `SingleCustody` (no `double custody` or `early end`) in every theorem,
`WholeDeletions` (no `torn deletion`) for what is promised, and `Steadfast` (no
`live reorg`, `idle restart` or `early api`) for the start_block.

* `WatcherInvariance`: `SingleCustody /\ Spec => []WatcherInv`.
* `TypeCorrect`, `WatchedAreReadableHolds`, `MapIsIndexHolds` and
  `WatchedAreAccountedHolds` from it.
* `ImplementsCache`: `SingleCustody /\ Spec => CacheSpec`, so that the theorems on
  the cache are theorems of the Watcher; `WatcherCacheServes` is one.
* `DurableInvariance` and, from it, `PromisesSurviveHolds`.
* `StartInvariance` and, from it, `WatchedFromStartBlockHolds`.

The argument. The watch thread can end in two ways, by a missing key in the
cache or by a breached appointment that is not on disk, so `NeverDies` needs
`CacheInv` and `WatchedAreStored` at once, and a step is a step of the cache only
where the second holds: they are one invariant. `WatchedAreStored` is disturbed
by whatever deletes rows. The watch thread deletes rows and memory together; the
Responder deletes rows of trackers, and `DeletionApart` says that those are not
watched, not in the hands of `add_appointment` and not promised, from the first
of its three batches to the last. `WatchedAreAccounted` needs that slots are
given back only for rows that are gone (`DroppedAreGone`, and again
`DeletionApart`), across the crash that may fall between: `StoredAreAccounted`
speaks of the two databases alone. `PromisedAreDurable` needs to know where a
flag may stand (`FlagsFollowTrackers`: on a tracker that is on disk, or on one
being deleted), as a flag hides a row from the next start, and that memory and
table of the Responder agree (`TrackersAreStored`), as the receipt is signed by
what is in memory. The invariants were checked by TLC on the instance of
`watcher_storm` before they were proved.

`WatchedFromStartBlock` speaks of the past: no block that was gone through, by
whichever code, held the dispute. `StartInv` follows the block that the thread is
at. `Line` says that the blocks in the queue are each the parent of the next, up to
bitcoind's tip, and that the block in hand comes after a block of the chain that is
done with; while the API is served it is the child of the last one, and only the
first block after a restart may leave a branch. So a block brings no dispute but its
own (`LateMore`), and its own are found, as `locator_uuid_map` is the index. `Looked`
carries that through the sections of the lock: after `Enter` what has its dispute in
the block is in `todo` or `dropped`, and when the lock is released it is a tracker or
gone. A request is the other way in. `Soon` bounds how far the thread can be past
the start_block that the request has read: one block, and the one in hand, which
waits for the lock. That is why the property begins `CacheSize - 2` blocks before
start_block, and `UnansweredIsClear` shows that it is enough in each state of the
cache. The third way in is a start: `LoadedAreWatched` says that what a start would
load was watched, or already with the Responder, when the tower went down, and
`Reached` that the last block on disk is one that was gone through. `StartInv` was
checked by TLC on the instance of `watcher`, and with `torn deletion` and a cache of
two blocks.

`WTClientProofs`, for any number of towers, appointments and retry threads, any
answers, any restarts and all rare events:

* `ClientInvariance`: `Spec => []ClientInv`.
* `MemoryIsDiskHolds`: what is pending in memory is what is pending on disk, and
  the two statuses differ only as `retrytower` makes them.
* `ImplementsOutbox`: `Spec => OutboxSpec`. Whatever threads do to each other's
  updates, no appointment is in two places or waits twice, and the pending ones
  leave in the order they came.

The argument. Two retries of one tower may hold old copies of the pending list,
and a hook or a new registration changes the list under both, so it is not clear
that a delivery removes the *first* of the pending ones. `InStep` says what is
left of the connection: wherever an item of the copy is still pending, it is no
further back in the list than in the copy, and all that is ahead of it is in the
copy too, in the same order. So the head of a copy, if it is pending at all, is
the head of the list (`InStepHead`), and a thread that would remove anything else
finds it gone. It is kept when the list loses its head (`InStepTail`), when copy
and list do (`InStepTails`), when a hook appends what is in no copy
(`InStepAppend`, for which `HookIsAhead` says that the hook deals with a
commitment once per tower, and `HeldAreHanded` that copies hold nothing else), and
in an empty list. `WaitOnce` makes a fresh copy in step with itself
(`InStepSelf`). `ClientInv` was checked by TLC on the instance of `client_storm`.

The same module, for the same client under `TakeTurns`, the absence of
`overlap`, `retry again`, `register` and `unknown` (restarts of any kind are
allowed), and in the last theorem `AnswersAreKnown`, the absence of `unexpected`:

* `TurnInvariance`: `TakeTurns /\ Spec => []TurnInv`, and from it
  `OneAtATimeHolds` and the action property `MisbehavingIsAbandonedHolds`.
* `RevokedAreKeptHolds`, with `KeptInv`.

The argument. No lock is held over a request, so nothing but the status keeps two
threads from one tower: a hook puts a tower in the queue when it has found it
`reachable`, and the invariant is that a tower in the queue never is
(`QueuedAreDown`), so that the hook has it for itself (`HookTurn`), and that a
thread leaves nothing of its tower in the queue (`ThreadAlone`). The list of a
pass is then all that is pending, so a delivery finds what it removes and the
lock is released. A proof of misbehaviour is overwritten by the next one
(`watchtower.py:138`), which loses nothing because no thread and no hook is ever at a
tower that has one.

`GatekeeperProofs`, for any users, appointments and sizes, any grace time and
cache, any number of crashes. `Orderly` is the absence of `duplicate` and
`overlap`; blocks may be missed.

* `GateInvariance`: `Orderly /\ Spec => []GateInv`, and from it `DbMirrorsHolds`,
  `NobodyDiesHolds` and the action property `GraceTimeHolds`.
* `CareInvariance`: `Rare = {} /\ Spec => []CareInv`, and from it
  `OutdatedAreDeletedHolds` and `DeletedAreServedHolds`.
* `LedgerInvariance`: `Spec => []LedgerInv`, and from it `SlotsConservedHolds`,
  which contains the types. They have no condition: blocks may be missed or come
  twice, and requests overlap with deletions.

The argument. Memory and disk are not equal in every state, so `DbMirrors` is
not inductive: `OnDisk` says who may differ, namely the user of the operation
under way and the one that the deleting thread has popped, and that they are not
the same user. `PickedAreDue` carries the check of the expiry from the height at
which it was made to the deletion, over other requests and a crash. That users
are found by *equal* heights is enough only if no height is left out, which is
`CareInv`: heights in the queue follow on each other, and whoever is overdue, in
memory or on disk, is among those being deleted (`OverdueAreDoomed`); the disk
counts because a crash brings it back. That the cache serves every height of its
window follows from its keys being the last consecutive heights (`Window`).
Slots are conserved because a charge and a release move them between what is left
and one appointment (`Moves`), a renewal adds one subscription, and what is on its
way to disk was balanced when it was copied, even if its user is gone by the time
it is stored; a restart then finds on disk a whole number of subscriptions. What is
used is a sum that the model takes with a fold. The lemmas from `UsedIs` to
`UsedIsNat` say what the proof needs of it: that there is such a sum over a finite
set, that any element may be taken out of it first, and that it depends on its
summands only. Their induction is over smallest counterexamples (`Smallest`,
`SubsetInduction`), with the family of sets a set and not an operator, so that no
induction theorem has to be instantiated. `Uuids` is assumed to be finite for
them: a uuid is a hash of 20 bytes.

`ChainMonitorProofs`, for any number of tips, outages and subscribers and any
window of last tips:

* `TipInvariance` and `SeenIsNotifiedHolds`. A feeder puts a tip in the queue
  and only then in `last_tips`, so what is remembered is in the queue, in the
  notifier's hand or sent; the invariant says so of a feeder between the two
  steps as well, and that nothing is in hand before `activate`.
* `NothingAfterEnd`. The subscribers are served in turn, so at every moment the
  first k have one message more than the others; END is in the queue or in hand
  only when the monitor is terminated, and what has been sent ends with it.
* `SentInBoundsHolds`: `Spec => []SentInBounds`, repetitions included (`TwiceAtMost`).
  `enqueue` reads `last_tips` without the lock, and what a full window pushes out is
  forgotten, so a thread that is held up between two of its lines while the window
  slides can put a block a third time, which TLC finds on the instance of
  `chain_monitor` (`UpToTwice`). The property says when: `heldUp` is set as soon as a
  thread has a tip in its hands that is half a window old (five tips, of the code's
  window of 10), and until then nobody is sent a block a third time. There is no
  condition on the number of tips.

The argument for the last. The ZMQ feed brings a tip once, in order (`InOrder`), so of
a block zmq has at most one put to come (`ToCome`). What is left is that polling puts
it once. `Total` counts what is sent, in hand and in the queue, which only a put
changes. While polling may still put `b`, the two together are at most 1; afterwards
they are at most 2, and polling has done with `b` (`Done`): it looks for later tips, or
`b` is in `last_tips` with more places ahead of it than tips that zmq could still
append (`Safe`). Each tip that zmq appends moves `b` one place on, and is one
fewer of those that could; that it was counted among them is where the threads must
be `Prompt`, which they are while `heldUp` is false (`StepPrompt`): `HalfIsEnough` says
that the tips less than half a window from `b` are fewer than the places of the window,
and `OnceHeldUp` that the history is never taken back.

`TowerProofs`, for any blocks and any number of starts, under `Timely`, the
absence of `slow request` and `busy gatekeeper`:

* `TeardownInvariance` and `ClosedIsQuietHolds`. Databases are closed when the
  threads have ended, threads end when they take END, and END is for whoever
  takes it: a second END, or one left from an earlier life, would let the
  teardown pass. `EndOnce` excludes both, and `Order` says of each step of the
  teardown what the earlier ones have waited for.

The same module, for any block tree that begins with one genesis block, any reorgs
while the tower is down and a crash anywhere, under `Steady`, the absence of
`skip`, `moving tip` and `busy end` (the first two break the theorems, section 5;
with the third, tips are noticed while the tower goes down, which they do not cover):

* `WayInvariance`, and from it `NoBlockLostHolds` and `WatcherLeadsHolds`.

The argument. What is on disk is one block, the last one of each component, and it
vouches for its whole chain. So it is not enough that no block is forgotten: they
must be taken in the order of the chain, or a crash after a later one leaves an
earlier one behind. `WayInv` says where each block of the current chain is (missed,
planned, noticed, in hand, in a queue, being processed, or taken), and
of each of these places that its blocks come in the order of their chain and build
on what is ahead (`InOrder`, whose lemmas say what a queue keeps when it loses its
head or gets a block more). The longest part is what the bootstrap makes: the
missed blocks of each component are those after a common ancestor with its own last
block (`Ancestor`, `MissedIs`), which the genesis block ends, and `update_states`
turns the two lists into batches that go on where each component is (`UpdatePlan`),
the Watcher's half of a block before the Responder's (`Follows`).

`RequestsProofs`, for any number of appointments, requests at a time, blocks and
lost answers, and all rare events:

* `RequestInvariance`, `PaidAreTakenHolds` and `QueriesAreTrueHolds`. One request
  writes, or several read (`WriterAlone`), but blocks come between any two steps.
  What has taken slots is filed as accepted, or is about to be kept, or carries a
  receipt that the user has not heard of; a retry of the last takes nothing. A
  query is true of *some* moment because what is in nobody's custody when it looks
  has been so since it looked, or it knows of its leaving (`RequestOK`).
* `FileInvariance` and, from it, `FiledIsTrueHolds`, under `Sincere`, the absence
  of `lag`, `unheard` and `twice` (each breaks it, section 5).

The argument for the last. An appointment leaves the tower unreleased only if the
Watcher takes it for outdated when it is not: `NotYet` says that at the heights the
Watcher has yet to come to nothing is outdated while the user is registered. What is
filed as invalid may be so because the tower answered `triggered`, and a request that
the user has given up on may run on and be accepted after that. `ReceiptOK` excludes
it: who is refused (`Refused`, in the files or in an answer on its way) has a tracker
as long as any request for it is in progress, and a request that is to be kept has
none; and a receipt for what has a tracker, which would be followed by `triggered`, is
still on its way, to the only request for it that is waited for (`OneHeard`). The answers of
the Inspector are apart, as they depend on the appointment alone. `FileInv` was
checked by TLC on the instance of `requests` and on a larger one.

`ResponderProofs`, for any appointments and penalties, any expiries, heights and
restarts, whatever bitcoind mines, evicts and rejects, on a chain that grows block
by block (`reorgs = 0` in the theorems, and `EveryBlock`, the absence of `skip`).
Conditions beyond that are named where a theorem needs them: `Subscribed` (no
`outdated`), `InTime` (no `late add`), `RunOutTogether` (subscriptions that end
within the run and share a penalty end at one height), and `EachOnce` (no `again`),
which all theorems but one have. Of a reorg's handling only
the index is proved about; the rest is left to TLC.

* `TrackersAreListedHolds`: `Spec => []TrackersAreListed`, with no condition at all:
  whatever is skipped, reset or handed over again, no tracker is missing from the index,
  so `delete_trackers` finds what it removes. An appointment that is handed over again
  is listed twice, not lost; what `again` breaks is the other half of `MapIsIndex`.
* `MapIsIndexHolds`, with all rare events but `skip` and `again`: over any number of restarts
  when there is no reorg, and over one reorg without a restart when no two users
  share a locator, which are the conditions `MapIsIndex` itself states.
* `UnconfirmedHolds`: `UnconfirmedAreUnconfirmed` under `InTime` and `Subscribed`.
* `DeletedAreDoneHolds`, an action property, under `InTime` and `RunOutTogether`.
* `NeverDiesHolds`, with the type invariant, under `Subscribed`.
* `ResentInTimeHolds`, while the tower runs (`restarts = 0`), under `Subscribed`.

The argument is in layers, each inductive with the help of those before it.
`OrderInv`: the queue holds the blocks of the chain after the last one taken, one
after the other; a restart finds the same ones missing (`MissedInOrder`).
`MemoryInv`: memory and disk differ at most in the tracker that is being stored,
which never is so while penalties are sent again, since both hold the lock; and the
index is exact, once each. `ReorgInv` is the same over one reorg, and independent of the
others: at most one block of the queue does not follow the one before it, and until
the thread has taken it nothing has been reset (`BreaksOnce`), so `handle_reorgs` runs
over uuids alone, and finds nothing under the locator, different for each, that it
resets a tracker to (`ResetOnDisk`). `ListInv`: what is unconfirmed has a tracker and is
in no examined block, unless a subscription has run out. `AliveInv`: a count that has reached
`CONFIRMATIONS_BEFORE_RETRY` belongs to a penalty on the list, so `rebroadcast`
finds it in the index and its trackers on disk. `WaitInv`, of penalties not mined:
with a tracker they are on the list, and the blocks since they were sent are no
more than the confirmations they have missed, one more if two appointments share
the penalty. That one is where receipts come in: a receipt in hand means that
the penalty was sent in this block, so its count is 0 or 1, and with
`CONFIRMATIONS_BEFORE_RETRY > 1` (6 in the code) its turn has not come.

The invariants of all these modules were checked by TLC on the runs' instances
before they were proved.

Only model-checked:

* The reorgs of `Responder` (`HandleReorg`), but for `MapIsIndex`.
* Liveness, which is out of the prover's reach: `PromiseKept`, `TipIsNotified`,
  `QueryAnswered`, `BuriedAreCompleted`, `Settles`, `Served` and `PendingAreSettled`.

## 7. What is not modelled

The command lines and the teos client are sequential and keep no state. The
operator's queries (`get_all_appointments`, `get_tower_info`, `get_users`,
`get_user`) change nothing. Of the Inspector only the bounds of `to_self_delay`
are modelled, as locators and blobs are refused before anything has happened; of
HTTP and gRPC, that a request is answered or not. Cryptography, serialisation and
LevelDB are trusted: a write is atomic, a batch too. Fees, logging and
configuration are left out. In `WTClient` towers are registered from the start,
the slots a tower says are left decide nothing and are left out, and the plugin's
queries change nothing. In `Tower` the Gatekeeper's blocks are left out but for
its END, and a block is a step of work and a step of storing, the work being the
subject of `Watcher` and `Responder`. Dispute transactions are modelled in the
Watcher only: in the Responder, whether the dispute is still known is a choice.
In `Responder` resetting a tracker (sending, memory and disk) is one step.
