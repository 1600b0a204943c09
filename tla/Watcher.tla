------------------------------- MODULE Watcher -------------------------------
(***************************************************************************)
(* The Watcher of src/teos/watcher.py with the appointments database it    *)
(* writes, the tower crashing and starting again around it.                *)
(*                                                                         *)
(* Three threads meet here: the watch thread (do_watch, one block after    *)
(* another), one API thread at a time (add_appointment runs whole under    *)
(* the Watcher's write lock) and the Responder's, of which only the        *)
(* deletion of a tracker matters to the Watcher.  A step ends at each      *)
(* write to a database and wherever another thread can look: a crash may   *)
(* come between any two.                                                   *)
(*                                                                         *)
(* An element of Appts is a uuid, that is a user and a locator.  Whether   *)
(* its blob decrypts to a transaction is chosen at each submission, and    *)
(* whether bitcoind takes the penalty at each attempt.                     *)
(***************************************************************************)
EXTENDS LocatorCache, FiniteSets

CONSTANTS
    Appts,           \* uuids
    LocatorOf,       \* the locator of each
    OutdatedAt,      \* height at which the subscription of its user is outdated
    ExpiryDelta,     \* Gatekeeper.expiry_delta
    MaxAppointments, \* Watcher.max_appointments
    None,
    MaxCrashes,      \* bound on the crashes of a behaviour
    Rare             \* the rare events a run includes

(* A row of the appointments database, as far as it matters: start_block,  *)
(* and whether the blob decrypts.                                          *)
Record == [start : Nat, ok : BOOLEAN]

ASSUME WatcherAssumption ==
    /\ None \notin Record
    /\ LocatorOf \in [Appts -> Txs]
    /\ OutdatedAt \in [Appts -> Nat]
    /\ ExpiryDelta \in Nat /\ MaxAppointments \in Nat /\ MaxCrashes \in Nat
    /\ Rare \subseteq {"live reorg",    \* the tip moves by several blocks while we run
                      "idle restart",  \* a tower with no data missed blocks
                      "torn deletion", \* a crash between the batches of delete_trackers
                      "early api",     \* a request before a fresh cache is filled
                      "double custody",\* the end of a tracker that is still watched for
                      "early end"}     \* the end of a tracker that is not flagged yet

VARIABLES
    tip,          \* bitcoind's best block
    queue,        \* Watcher.block_queue
    up,           \* "down", "boot" (catching up, API off) or "serving"
    appointments, \* Watcher.appointments
    lmap,         \* Watcher.locator_uuid_map
    sec,          \* the watch thread after the cache update
    todo,         \* breaches it has still to hand over
    triggered,    \* triggered_flags
    dropped,      \* appointments_to_delete
    api,          \* the add_appointment that holds the lock
    trackers,     \* Responder.trackers
    rdel,         \* the tracker deletion in progress
    dbw, flags, dbLast, dbr, \* AppointmentsDBM, by prefix
    gk,           \* appointments with slots in the Gatekeeper (users database)
    promised,     \* history: a receipt is out and the tower still owes the watch
    crashes

memVars  == <<appointments, lmap>>
secVars  == <<sec, todo, triggered, dropped>>
respVars == <<trackers, rdel>>
dbVars   == <<dbw, flags, dbLast, dbr>>
feedVars == <<tip, queue, up, crashes>>
vars == <<cacheVars, memVars, secVars, api, respVars, dbVars, feedVars, gk, promised>>

Idle == [step |-> "idle"]
NoDeletion == [step |-> "none"]

TypeOK ==
    /\ CacheTypeOK
    /\ tip \in Blocks /\ queue \in Seq(Blocks) /\ up \in {"down", "boot", "serving"}
    /\ appointments \subseteq Appts /\ lmap \in [Txs -> SUBSET Appts]
    /\ sec \in {"free", "breaches", "drop", "gatekeeper", "store", "finish"}
    /\ todo \subseteq Appts /\ triggered \subseteq Appts /\ dropped \subseteq Appts
    /\ api \in {Idle} \cup [step : {"lookup", "store", "flag", "sign"}, u : Appts, rec : Record]
    /\ trackers \subseteq Appts
    /\ rdel \in {NoDeletion} \cup [step : {"dbw", "flags", "gatekeeper"}, u : Appts]
    /\ dbw \in [Appts -> Record \cup {None}] /\ flags \subseteq Appts
    /\ dbLast \in Blocks /\ dbr \subseteq Appts
    /\ gk \subseteq Appts /\ promised \subseteq Appts /\ crashes \in 0..MaxCrashes

-----------------------------------------------------------------------------
(* Helpers.                                                                *)

Locked == sec \in {"breaches", "drop", "gatekeeper"}

IndexOf(S) == [l \in Txs |-> {u \in S : LocatorOf[u] = l}]

(* Fault: the index is left as it was.                                     *)
ForgetOnly(S) == appointments' = appointments \ S /\ UNCHANGED lmap

(* Cleaner.delete_appointment_from_memory for each of S.                   *)
Forget(S) ==
    /\ appointments' = appointments \ S
    /\ lmap' = [l \in Txs |-> lmap[l] \ S]

Deleted(S) == [u \in Appts |-> IF u \in S THEN None ELSE dbw[u]]

(* load_watcher_appointments leaves out what is flagged as triggered.      *)
Loaded == {u \in Appts : dbw[u] # None /\ u \notin flags}

NoData == Loaded = {} /\ dbr = {}

(* Cleaner.delete_appointments: outdated or useless, owed no more.         *)
delete_appointments(S) ==
    /\ Forget(S)
    /\ dbw' = Deleted(S)
    /\ promised' = promised \ S

(* check_breach: the blob decrypts to a transaction.                       *)
check_breach(u) == dbw[u].ok

get_breaches(S) == UNION {lmap[l] \cap S : l \in TxsIn[cur]}

-----------------------------------------------------------------------------
(* bitcoind, and the ChainMonitor that hands its tips to the queue.        *)

NewTip(b) ==
    /\ Height(b) > Height(tip)
    /\ up # "down" => IsParent(tip, b) \/ "live reorg" \in Rare
    /\ up = "down" => ~NoData \/ "idle restart" \in Rare
    /\ tip' = b
    /\ queue' = IF up = "down" THEN queue ELSE Append(queue, b)
    /\ UNCHANGED <<cacheVars, memVars, secVars, api, respVars, dbVars, up, crashes, gk, promised>>

-----------------------------------------------------------------------------
(* The watch thread.  The locator cache comes first, without the lock.     *)

Running == up # "down"

WatchCache ==
    /\ Running
    /\ InitBlock \/ InitDone \/ Fix \/ Update \/ Trim
    /\ UNCHANGED <<memVars, secVars, api, respVars, dbVars, feedVars, gk, promised>>

WatchGet ==
    /\ Running /\ queue # <<>>
    /\ Get(Head(queue))
    /\ queue' = Tail(queue)
    /\ UNCHANGED <<memVars, secVars, api, respVars, dbVars, tip, up, crashes, gk, promised>>

(* Take the lock, delete what is outdated from memory and disk, look up    *)
(* the breaches of the block and tell the valid from the invalid.  Reading *)
(* a breached appointment that is not in the database raises, and the      *)
(* thread ends.                                                            *)
Enter ==
    /\ Running /\ pc = "trimmed" /\ sec = "free" /\ api = Idle
    /\ IF appointments = {}
       THEN /\ sec' = "store"
            /\ UNCHANGED <<memVars, todo, dropped, dbw, promised, pc>>
       ELSE LET out == {u \in appointments : OutdatedAt[u] = Height(cur)}
                hit == get_breaches(appointments \ out)
            IN  /\ delete_appointments(out)
                /\ IF \E u \in hit : dbw[u] = None
                   THEN pc' = "dead" /\ UNCHANGED <<sec, todo, dropped>>
                   ELSE /\ sec' = "breaches"
                        /\ todo' = {u \in hit : check_breach(u)}
                        /\ dropped' = hit \ todo'
                        /\ UNCHANGED pc
    /\ UNCHANGED <<blocks, cache, last, cur, triggered, api, respVars,
                   flags, dbLast, dbr, feedVars, gk>>

(* Responder.handle_breach: the tracker is in memory and on disk when the  *)
(* receipt says delivered.  It needs the Responder's lock.                 *)
AddTracker(u) ==
    /\ rdel = NoDeletion
    /\ trackers' = trackers \cup {u}
    /\ dbr' = dbr \cup {u}

HandOver(u) ==
    /\ sec = "breaches" /\ u \in todo
    /\ todo' = todo \ {u}
    /\ \/ /\ AddTracker(u)
          /\ Forget({u})
          /\ triggered' = triggered \cup {u}
          /\ UNCHANGED dropped
       \/ /\ dropped' = dropped \cup {u}    \* bitcoind rejects the penalty
          /\ UNCHANGED <<memVars, trackers, dbr, triggered>>
    /\ UNCHANGED <<cacheVars, sec, api, rdel, dbw, flags, dbLast, feedVars, gk, promised>>

(* Fault: rejected penalties are flagged as well.                          *)
FlagAll ==
    /\ sec = "breaches" /\ todo = {}
    /\ flags' = flags \cup triggered \cup dropped
    /\ triggered' = {} /\ sec' = "drop"
    /\ UNCHANGED <<cacheVars, memVars, todo, dropped, api, respVars,
                   dbw, dbLast, dbr, feedVars, gk, promised>>

FlagTriggered ==
    /\ sec = "breaches" /\ todo = {}
    /\ flags' = flags \cup triggered
    /\ triggered' = {} /\ sec' = "drop"
    /\ UNCHANGED <<cacheVars, memVars, todo, dropped, api, respVars,
                   dbw, dbLast, dbr, feedVars, gk, promised>>

(* Fault: deleted from disk but not from memory.                           *)
DeleteDroppedFromDisk ==
    /\ sec = "drop"
    /\ dbw' = Deleted(dropped)
    /\ promised' = promised \ dropped
    /\ sec' = "gatekeeper"
    /\ UNCHANGED <<cacheVars, memVars, todo, triggered, dropped, api, respVars, flags, dbLast, dbr, feedVars, gk>>

DeleteDropped ==
    /\ sec = "drop"
    /\ delete_appointments(dropped)
    /\ sec' = "gatekeeper"
    /\ UNCHANGED <<cacheVars, todo, triggered, dropped, api, respVars, flags, dbLast, dbr, feedVars, gk>>

(* Gatekeeper.delete_appointments; then the lock is released.              *)
FreeSlots ==
    /\ sec = "gatekeeper"
    /\ gk' = gk \ dropped
    /\ dropped' = {} /\ sec' = "store"
    /\ UNCHANGED <<cacheVars, memVars, todo, triggered, api, respVars, dbVars, feedVars, promised>>

StoreLast ==
    /\ sec = "store"
    /\ dbLast' = cur
    /\ sec' = "finish"
    /\ UNCHANGED <<cacheVars, memVars, todo, triggered, dropped, api, respVars,
                   dbw, flags, dbr, feedVars, gk, promised>>

(* Fault: last_known_block is not moved on.                                *)
FinishBehind ==
    /\ sec = "finish" /\ pc = "trimmed"
    /\ sec' = "free" /\ pc' = "wait"
    /\ UNCHANGED <<blocks, cache, last, cur, memVars, todo, triggered, dropped, api,
                   respVars, dbVars, feedVars, gk, promised>>

Finish ==
    /\ sec = "finish"
    /\ Done
    /\ sec' = "free"
    /\ UNCHANGED <<memVars, todo, triggered, dropped, api, respVars, dbVars, feedVars, gk, promised>>

-----------------------------------------------------------------------------
(* add_appointment.                                                        *)

(* Fault: the slots are not taken.                                         *)
AcceptForFree(u, ok) ==
    /\ up = "serving" /\ ~Locked /\ api = Idle
    /\ pc # "init" \/ "early api" \in Rare
    /\ Cardinality(appointments) < MaxAppointments
    /\ Height(tip) + ExpiryDelta < OutdatedAt[u]
    /\ rdel = NoDeletion /\ u \notin trackers
    /\ api' = [step |-> "lookup", u |-> u, rec |-> [start |-> Height(last), ok |-> ok]]
    /\ UNCHANGED <<cacheVars, memVars, secVars, respVars, dbVars, feedVars, gk, promised>>

(* Take the lock, pass the checks (limit, subscription, no tracker) and    *)
(* take the slots.  The requests that are refused change nothing.          *)
Accept(u, ok) ==
    /\ up = "serving" /\ ~Locked /\ api = Idle
    /\ pc # "init" \/ "early api" \in Rare
    /\ Cardinality(appointments) < MaxAppointments
    /\ Height(tip) + ExpiryDelta < OutdatedAt[u]
    /\ rdel = NoDeletion /\ u \notin trackers
    /\ gk' = gk \cup {u}
    /\ api' = [step |-> "lookup", u |-> u, rec |-> [start |-> Height(last), ok |-> ok]]
    /\ UNCHANGED <<cacheVars, memVars, secVars, respVars, dbVars, feedVars, promised>>

(* Fault: the cache is not asked.                                          *)
WatchUnchecked ==
    /\ api.step = "lookup"
    /\ appointments' = appointments \cup {api.u}
    /\ lmap' = [lmap EXCEPT ![LocatorOf[api.u]] = @ \cup {api.u}]
    /\ dbw' = [dbw EXCEPT ![api.u] = api.rec]
    /\ api' = [api EXCEPT !.step = "sign"]
    /\ UNCHANGED <<cacheVars, secVars, respVars, flags, dbLast, dbr, feedVars, gk, promised>>

(* The locator is not in the cache: watch for it.                          *)
Watch ==
    /\ api.step = "lookup" /\ LocatorOf[api.u] \notin cache
    /\ appointments' = appointments \cup {api.u}
    /\ lmap' = [lmap EXCEPT ![LocatorOf[api.u]] = @ \cup {api.u}]
    /\ dbw' = [dbw EXCEPT ![api.u] = api.rec]
    /\ api' = [api EXCEPT !.step = "sign"]
    /\ UNCHANGED <<cacheVars, secVars, respVars, flags, dbLast, dbr, feedVars, gk, promised>>

(* It is: hand it to the Responder at once, or accept it and drop it when  *)
(* the blob is no good or bitcoind rejects the penalty.                    *)
Trigger ==
    /\ api.step = "lookup" /\ LocatorOf[api.u] \in cache
    /\ \/ api.rec.ok /\ AddTracker(api.u) /\ api' = [api EXCEPT !.step = "store"]
       \/ api' = [api EXCEPT !.step = "sign"] /\ UNCHANGED <<trackers, dbr>>
    /\ UNCHANGED <<cacheVars, memVars, secVars, rdel, dbw, flags, dbLast, feedVars, gk, promised>>

StoreTriggered ==
    /\ api.step = "store"
    /\ dbw' = [dbw EXCEPT ![api.u] = api.rec]
    /\ api' = [api EXCEPT !.step = "flag"]
    /\ UNCHANGED <<cacheVars, memVars, secVars, respVars, flags, dbLast, dbr, feedVars, gk, promised>>

FlagStored ==
    /\ api.step = "flag"
    /\ flags' = flags \cup {api.u}
    /\ api' = [api EXCEPT !.step = "sign"]
    /\ UNCHANGED <<cacheVars, memVars, secVars, respVars, dbw, dbLast, dbr, feedVars, gk, promised>>

Sign ==
    /\ api.step = "sign"
    /\ promised' = IF api.u \in appointments \cup trackers THEN promised \cup {api.u} ELSE promised
    /\ api' = Idle
    /\ UNCHANGED <<cacheVars, memVars, secVars, respVars, dbVars, feedVars, gk>>

-----------------------------------------------------------------------------
(* The Responder deletes a tracker that is completed or outdated           *)
(* (Cleaner.delete_trackers, then the Gatekeeper), all under its own lock. *)
(* As a rule the Watcher has been done with the breach for many blocks; a  *)
(* tracker that is outdated can end between handle_breach and the flag.    *)

DeleteTracker(u) ==
    /\ Running /\ rdel = NoDeletion
    /\ u \in trackers
    /\ (u \notin triggered /\ (api # Idle => api.u # u)) \/ "early end" \in Rare
    /\ u \notin appointments \/ "double custody" \in Rare
    /\ trackers' = trackers \ {u}
    /\ dbr' = dbr \ {u}
    /\ promised' = promised \ {u}
    /\ rdel' = [step |-> "dbw", u |-> u]
    /\ UNCHANGED <<cacheVars, memVars, secVars, api, dbw, flags, dbLast, feedVars, gk>>

DeleteTriggered ==
    /\ \/ /\ rdel.step = "dbw"
          /\ dbw' = Deleted({rdel.u})
          /\ rdel' = [rdel EXCEPT !.step = "flags"]
          /\ UNCHANGED <<flags, gk>>
       \/ /\ rdel.step = "flags"
          /\ flags' = flags \ {rdel.u}
          /\ rdel' = [rdel EXCEPT !.step = "gatekeeper"]
          /\ UNCHANGED <<dbw, gk>>
       \/ /\ rdel.step = "gatekeeper"
          /\ gk' = gk \ {rdel.u}
          /\ rdel' = NoDeletion
          /\ UNCHANGED <<dbw, flags>>
    /\ UNCHANGED <<cacheVars, memVars, secVars, api, trackers, dbLast, dbr, feedVars, promised>>

-----------------------------------------------------------------------------
(* Crash and bootstrap.                                                    *)

(* Memory is gone; the next Watcher is made with the last block on disk.   *)
Crash ==
    /\ Running /\ crashes < MaxCrashes
    /\ rdel = NoDeletion \/ "torn deletion" \in Rare
    /\ ~NoData \/ tip = dbLast \/ "idle restart" \in Rare
    /\ crashes' = crashes + 1 /\ up' = "down"
    /\ StartAt(dbLast)
    /\ queue' = <<>>
    /\ appointments' = {} /\ lmap' = IndexOf({})
    /\ sec' = "free" /\ todo' = {} /\ triggered' = {} /\ dropped' = {}
    /\ api' = Idle /\ trackers' = {} /\ rdel' = NoDeletion
    /\ UNCHANGED <<tip, dbVars, gk, promised>>

(* With data on disk the Watcher is fed the blocks it missed before the    *)
(* API starts; without it is a fresh bootstrap, and they are not.          *)
Boot ==
    /\ up = "down"
    /\ IF NoData
       THEN /\ up' = "serving"
            /\ UNCHANGED <<memVars, trackers, queue>>
       ELSE /\ up' = "boot"
            /\ appointments' = Loaded /\ lmap' = IndexOf(Loaded)
            /\ trackers' = dbr
            /\ queue' = get_missed_blocks(find_last_common_ancestor(dbLast, tip), tip)
    /\ UNCHANGED <<cacheVars, secVars, api, rdel, dbVars, tip, crashes, gk, promised>>

Serve ==
    /\ up = "boot" /\ queue = <<>> /\ pc = "wait"
    /\ up' = "serving"
    /\ UNCHANGED <<cacheVars, memVars, secVars, api, respVars, dbVars, tip, queue, crashes, gk, promised>>

-----------------------------------------------------------------------------
Init ==
    /\ CacheInit
    /\ tip = last /\ dbLast = last
    /\ queue = <<>> /\ up = "serving" /\ crashes = 0
    /\ appointments = {} /\ lmap = IndexOf({})
    /\ sec = "free" /\ todo = {} /\ triggered = {} /\ dropped = {}
    /\ api = Idle /\ trackers = {} /\ rdel = NoDeletion
    /\ dbw = [u \in Appts |-> None] /\ flags = {} /\ dbr = {}
    /\ gk = {} /\ promised = {}

WatchThread ==
    \/ WatchCache \/ WatchGet
    \/ \E u \in Appts : HandOver(u)
    \/ FlagTriggered \/ DeleteDropped \/ FreeSlots \/ StoreLast \/ Finish

ApiThread == Watch \/ Trigger \/ StoreTriggered \/ FlagStored \/ Sign

Next ==
    \/ \E b \in Blocks : NewTip(b)
    \/ WatchThread \/ Enter
    \/ \E u \in Appts, ok \in BOOLEAN : Accept(u, ok)
    \/ ApiThread
    \/ \E u \in Appts : DeleteTracker(u)
    \/ DeleteTriggered
    \/ Crash \/ Boot \/ Serve

Spec == Init /\ [][Next]_vars

(* Threads that can run do; a lock that is free again and again is taken.  *)
Fairness ==
    /\ WF_vars(WatchThread) /\ WF_vars(ApiThread) /\ WF_vars(DeleteTriggered)
    /\ SF_vars(Enter)
    /\ WF_vars(Boot) /\ WF_vars(Serve)

FairSpec == Spec /\ Fairness

-----------------------------------------------------------------------------
(* Is the dispute of u in a block of the chain of b, at height h or more?  *)
Disputed(u, b, h) ==
    \E i \in DOMAIN Path[b] : i - 1 >= h /\ LocatorOf[u] \in TxsIn[Path[b][i]]

(* Whatever the order in which appointments come, are updated, triggered,  *)
(* outdated and loaded, locator_uuid_map is the index of appointments.     *)
MapIsIndex == lmap = IndexOf(appointments)

(* What is watched in memory is on disk, so the watch thread never dies on *)
(* a breached appointment it cannot read.                                  *)
WatchedAreStored == \A u \in appointments : dbw[u] # None

NeverDies == pc # "dead"

WatchedAreReadable == WatchedAreStored /\ NeverDies

(* The receipt's start_block is kept: no appointment is still watched when *)
(* its dispute is in a processed block from CacheSize - 2 blocks before    *)
(* start_block on.  A breach may fall just before the request, between the *)
(* cache lookup and the block, or while the tower is down.  (The cache may *)
(* be two blocks past the start_block that the same request has read: the  *)
(* one being finished, and the next, which waits for the lock.)            *)
WatchedFromStartBlock ==
    \A u \in appointments \ trackers :
        ~Disputed(u, last, IF dbw[u].start + 3 > CacheSize
                           THEN dbw[u].start + 3 - CacheSize ELSE 0)

(* What was promised survives a crash at any point: it is on disk as an    *)
(* appointment the next start loads, or as a tracker.                      *)
PromisedAreDurable ==
    \A u \in promised : u \in Loaded \/ u \in dbr

(* A triggered flag stands only on what was triggered since it was last    *)
(* accepted: nothing that is being watched carries one, apart from an      *)
(* update that met its own breach in the cache.                            *)
FlaggedAreTriggered ==
    \A u \in flags \cap appointments : u \in trackers

(* A crash at any step leaves each receipt something to keep it by, and    *)
(* no flag that would hide an appointment from the next start, unless a    *)
(* crash tears the deletion of a tracker, or a tracker ends before its     *)
(* appointment is flagged ("torn deletion" and "early end" among Rare).    *)
PromisesSurvive == PromisedAreDurable /\ FlaggedAreTriggered

(* Nothing is watched for free: the slots of every watched appointment are *)
(* taken in the Gatekeeper, also after a crash between the two databases.  *)
WatchedAreAccounted == appointments \subseteq gk

(* The promise: a breach that the best chain shows after start_block is    *)
(* handed to the Responder, if the tower is started after each crash,      *)
(* unless the appointment is found invalid or outdated, or the breach is   *)
(* reorged out.                                                            *)
PromiseKept ==
    \A u \in Appts :
        (u \in promised /\ dbw[u] # None /\ Disputed(u, tip, dbw[u].start + 1))
            ~> (u \in dbr \/ u \notin promised \/ ~Disputed(u, tip, dbw[u].start + 1))
=============================================================================
