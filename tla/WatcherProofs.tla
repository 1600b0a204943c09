--------------------------- MODULE WatcherProofs ---------------------------
(***************************************************************************)
(* The Watcher keeps what it promises across every interleaving of its     *)
(* threads and every crash, for any number of appointments, any tree of    *)
(* blocks and any tip that bitcoind may move to.                           *)
(*                                                                         *)
(* Deviations that the model can be asked to include do break it (see the  *)
(* README), so each theorem names as a condition the absence of those that *)
(* break what it states.                                                   *)
(***************************************************************************)
EXTENDS Watcher, LocatorCacheProofs, WellFoundedInduction

(* No tracker ends while the Watcher has its appointment in hands: it is   *)
(* not watched any more, and what was handed over is flagged.              *)
SingleCustody == Rare \cap {"double custody", "early end"} = {}

(* No crash falls between the three batches that delete a tracker.         *)
WholeDeletions == "torn deletion" \notin Rare

-----------------------------------------------------------------------------
(* The inductive invariant.                                                *)

(* A process that is down has no threads.                                  *)
DownIsEmpty ==
    up = "down" => /\ rdel = NoDeletion /\ api = Idle /\ sec = "free"
                   /\ trackers = {} /\ triggered = {} /\ appointments = {}

(* The watch thread and add_appointment exclude each other.                *)
LockExcludes == Locked => api = Idle

(* What the Responder deletes is in nobody else's hands, and what it has   *)
(* deleted stays deleted until it is done.                                 *)
DeletionApart ==
    rdel # NoDeletion =>
        /\ rdel.u \notin appointments /\ rdel.u \notin promised
        /\ api # Idle => api.u # rdel.u
        /\ rdel.step # "dbw" => dbw[rdel.u] = None

(* Slots are freed only for what is off disk.                              *)
DroppedAreGone == sec = "gatekeeper" => \A u \in dropped : dbw[u] = None

(* Slots are taken before anything is stored.                              *)
StoredAreAccounted ==
    /\ \A u \in Appts : dbw[u] # None => u \in gk
    /\ api # Idle => api.u \in gk

WatcherInv ==
    /\ SingleCustody
    /\ TypeOK
    /\ CacheInv
    /\ MapIsIndex
    /\ WatchedAreStored
    /\ DownIsEmpty
    /\ LockExcludes
    /\ DeletionApart
    /\ DroppedAreGone
    /\ StoredAreAccounted

(* The Responder's memory is its table.                                    *)
TrackersAreStored == up # "down" => trackers = dbr

(* What is about to be flagged is a tracker on disk.                       *)
FlagsFollowTrackers ==
    /\ triggered \subseteq dbr
    /\ api.step \in {"store", "flag"} => api.u \in dbr
    /\ \A u \in flags :
          u \in dbr \/ (rdel.step \in {"dbw", "flags"} /\ rdel.u = u)

DurableInv ==
    /\ WholeDeletions
    /\ TrackersAreStored
    /\ FlagsFollowTrackers
    /\ PromisedAreDurable

-----------------------------------------------------------------------------
(* What is loaded, looked up or missed has its type.                       *)

LEMMA HeightIsNat ==
    ASSUME NEW b \in Blocks
    PROVE  Height(b) \in Nat
<1>1. Len(Path[b]) \in Nat /\ Len(Path[b]) > 0
  BY PathAssumption, LenProperties
<1> QED BY <1>1 DEF Height

LEMMA MissedAreBlocks ==
    ASSUME NEW a, NEW b \in Blocks
    PROVE  get_missed_blocks(a, b) \in Seq(Blocks)
<1>1. Path[b] \in Seq(Blocks) /\ Len(Path[b]) \in Nat
  BY PathAssumption, LenProperties
<1>2. CASE OnChain(a, b)
  <2>1. a \in Blocks
    BY <1>1, <1>2, ElementOfSeq DEF OnChain
  <2>2. Len(Path[a]) \in Nat
    BY <2>1, PathAssumption, LenProperties
  <2>3. \A i \in (Len(Path[a]) + 1)..Len(Path[b]) : Path[b][i] \in Blocks
    BY <1>1, <2>2, ElementOfSeq
  <2>4. SubSeq(Path[b], Len(Path[a]) + 1, Len(Path[b])) \in Seq(Blocks)
    BY <1>1, <2>2, <2>3, SubSeqProperties
  <2> QED BY <1>2, <2>4 DEF get_missed_blocks
<1>3. CASE ~OnChain(a, b)
  BY <1>1, <1>3 DEF get_missed_blocks
<1> QED BY <1>2, <1>3

LEMMA BreachesAreWatched ==
    ASSUME TypeOK, NEW S
    PROVE  get_breaches(S) \subseteq S
BY DEF get_breaches

(* Every step of the Watcher is a step of the locator cache or leaves the  *)
(* cache alone: the watch thread cannot die reading an appointment, as     *)
(* what is watched is stored.                                              *)
LEMMA CacheStep == WatcherInv /\ [Next]_vars => [CacheNext]_cacheVars
<1> SUFFICES ASSUME WatcherInv, [Next]_vars
             PROVE  [CacheNext]_cacheVars
  OBVIOUS
<1> USE DEF WatcherInv
<1>1. ASSUME NEW b \in Blocks, NewTip(b)
      PROVE  UNCHANGED cacheVars
  BY <1>1 DEF NewTip, cacheVars
<1>2. CASE WatchCache
  BY <1>2 DEF WatchCache, CacheNext
<1>3. CASE WatchGet
  <2>1. Head(queue) \in Blocks
    BY <1>3, HeadTailProperties DEF WatchGet, TypeOK
  <2> QED BY <1>3, <2>1 DEF WatchGet, CacheNext
<1>4. CASE Enter
  <2>1. ASSUME NEW S, S \subseteq appointments
        PROVE  \A u \in get_breaches(S) : dbw[u] # None
    BY <2>1, BreachesAreWatched DEF WatchedAreStored
  <2>2. UNCHANGED <<blocks, cache, last, cur>> /\ pc' = pc
    BY <1>4, <2>1 DEF Enter
  <2> QED BY <2>2 DEF cacheVars
<1>5. ASSUME NEW u \in Appts, HandOver(u) \/ DeleteTracker(u)
      PROVE  UNCHANGED cacheVars
  BY <1>5 DEF HandOver, DeleteTracker, cacheVars
<1>6. CASE FlagTriggered \/ DeleteDropped \/ FreeSlots \/ StoreLast
  BY <1>6 DEF FlagTriggered, DeleteDropped, FreeSlots, StoreLast, cacheVars
<1>7. CASE Finish
  BY <1>7 DEF Finish, CacheNext
<1>8. ASSUME NEW u \in Appts, NEW ok \in BOOLEAN, Accept(u, ok)
      PROVE  UNCHANGED cacheVars
  BY <1>8 DEF Accept, cacheVars
<1>9. CASE ApiThread
  BY <1>9 DEF ApiThread, Watch, Trigger, StoreTriggered, FlagStored, Sign, cacheVars
<1>10. CASE DeleteTriggered \/ Boot \/ Serve
  BY <1>10 DEF DeleteTriggered, Boot, Serve, cacheVars
<1>11. CASE Crash
  BY <1>11 DEF Crash, CacheNext, TypeOK
<1>12. CASE UNCHANGED vars
  BY <1>12 DEF vars, cacheVars
<1> QED BY <1>1, <1>2, <1>3, <1>4, <1>5, <1>6, <1>7, <1>8, <1>9, <1>10, <1>11, <1>12
        DEF Next, WatchThread

LEMMA CacheInvStep == WatcherInv /\ [Next]_vars => CacheInv'
BY CacheStep, CacheInvNext DEF WatcherInv

-----------------------------------------------------------------------------
(* One lemma for each part of the invariant.                               *)

LEMMA TypeStep == WatcherInv /\ [Next]_vars => TypeOK'
<1> SUFFICES ASSUME WatcherInv, [Next]_vars
             PROVE  TypeOK'
  OBVIOUS
<1> USE DEF memVars, secVars, respVars, dbVars, feedVars
<1>1. TypeOK /\ CacheTypeOK'
  BY CacheInvStep DEF WatcherInv, CacheInv
<1>2. ASSUME NEW b \in Blocks, NewTip(b)
      PROVE  TypeOK'
  <2>1. queue' \in Seq(Blocks)
    BY <1>1, <1>2, AppendProperties DEF NewTip, TypeOK
  <2> QED BY <1>1, <1>2, <2>1 DEF NewTip, TypeOK
<1>3. CASE WatchCache
  BY <1>1, <1>3 DEF WatchCache, TypeOK
<1>4. CASE WatchGet
  <2>1. queue' \in Seq(Blocks)
    BY <1>1, <1>4, HeadTailProperties DEF WatchGet, TypeOK
  <2> QED BY <1>1, <1>4, <2>1 DEF WatchGet, TypeOK
<1>5. CASE Enter
  <2>1. CASE appointments = {}
    BY <1>1, <1>5, <2>1 DEF Enter, TypeOK
  <2>2. CASE appointments # {}
    <3> DEFINE out == {u \in appointments : OutdatedAt[u] = Height(cur)}
               hit == get_breaches(appointments \ out)
    <3>1. hit \subseteq Appts
      BY <1>1, BreachesAreWatched DEF TypeOK
    <3>2. /\ sec' = sec /\ todo' = todo /\ dropped' = dropped
          \/ /\ sec' = "breaches" /\ todo' \subseteq hit /\ dropped' \subseteq hit
      BY <1>5, <2>2 DEF Enter
    <3>3. delete_appointments(out)
      BY <1>5, <2>2 DEF Enter
    <3>4. /\ appointments' \subseteq Appts /\ lmap' \in [Txs -> SUBSET Appts]
          /\ promised' \subseteq Appts
      BY <1>1, <3>3 DEF delete_appointments, Forget, TypeOK
    <3>5. dbw' \in [Appts -> Record \cup {None}]
      BY <1>1, <3>3 DEF delete_appointments, Deleted, TypeOK
    <3>6. UNCHANGED <<triggered, api, respVars, flags, dbLast, dbr, feedVars, gk>>
      BY <1>5 DEF Enter
    <3> QED BY <1>1, <3>1, <3>2, <3>4, <3>5, <3>6 DEF TypeOK
  <2> QED BY <2>1, <2>2
<1>6. ASSUME NEW u \in Appts, HandOver(u)
      PROVE  TypeOK'
  BY <1>1, <1>6 DEF HandOver, AddTracker, Forget, TypeOK
<1>7. CASE FlagTriggered \/ FreeSlots \/ StoreLast \/ Finish
  BY <1>1, <1>7 DEF FlagTriggered, FreeSlots, StoreLast, Finish, CacheTypeOK, TypeOK
<1>8. CASE DeleteDropped
  BY <1>1, <1>8 DEF DeleteDropped, delete_appointments, Forget, Deleted, TypeOK
<1>9. ASSUME NEW u \in Appts, NEW ok \in BOOLEAN, Accept(u, ok)
      PROVE  TypeOK'
  <2>1. Height(last) \in Nat
    BY <1>1, HeightIsNat DEF TypeOK, CacheTypeOK
  <2> QED BY <1>1, <1>9, <2>1 DEF Accept, Record, TypeOK
<1>10. CASE ApiThread
  <2>0. /\ api \in [step : {"lookup", "store", "flag", "sign"}, u : Appts, rec : Record]
        /\ api.u \in Appts /\ api.rec \in Record
    BY <1>1, <1>10 DEF ApiThread, Watch, Trigger, StoreTriggered, FlagStored, Sign, Idle, TypeOK
  <2>1. CASE Watch
    BY <1>1, <2>0, <2>1 DEF Watch, TypeOK
  <2>2. CASE Trigger
    BY <1>1, <2>0, <2>2 DEF Trigger, AddTracker, TypeOK
  <2>3. CASE StoreTriggered \/ FlagStored
    BY <1>1, <2>0, <2>3 DEF StoreTriggered, FlagStored, TypeOK
  <2>4. CASE Sign
    BY <1>1, <2>0, <2>4 DEF Sign, TypeOK
  <2> QED BY <1>10, <2>1, <2>2, <2>3, <2>4 DEF ApiThread
<1>11. ASSUME NEW u \in Appts, DeleteTracker(u)
       PROVE  TypeOK'
  BY <1>1, <1>11 DEF DeleteTracker, TypeOK
<1>12. CASE DeleteTriggered
  <2>1. rdel \in [step : {"dbw", "flags", "gatekeeper"}, u : Appts]
    BY <1>1, <1>12 DEF DeleteTriggered, NoDeletion, TypeOK
  <2> QED BY <1>1, <1>12, <2>1 DEF DeleteTriggered, Deleted, TypeOK
<1>13. CASE Crash
  <2>1. crashes' \in 0..MaxCrashes
    <3>1. crashes < MaxCrashes /\ crashes' = crashes + 1
      BY <1>13 DEF Crash
    <3>2. crashes \in 0..MaxCrashes /\ MaxCrashes \in Nat
      BY <1>1, WatcherAssumption DEF TypeOK
    <3> QED BY <3>1, <3>2
  <2>2. lmap' \in [Txs -> SUBSET Appts]
    BY <1>13 DEF Crash, IndexOf
  <2>3. queue' \in Seq(Blocks)
    <3>1. queue' = <<>>
      BY <1>13 DEF Crash
    <3> QED BY <3>1
  <2>4. /\ appointments' = {} /\ sec' = "free" /\ todo' = {} /\ triggered' = {}
        /\ dropped' = {} /\ trackers' = {} /\ up' = "down"
        /\ api' = Idle /\ rdel' = NoDeletion
        /\ UNCHANGED <<tip, dbVars, gk, promised>>
    BY <1>13 DEF Crash
  <2> QED BY <1>1, <2>1, <2>2, <2>3, <2>4 DEF TypeOK
<1>14. CASE Boot
  <2>1. queue' \in Seq(Blocks)
    BY <1>1, <1>14, MissedAreBlocks DEF Boot, TypeOK
  <2>2. Loaded \subseteq Appts
    BY DEF Loaded
  <2> QED BY <1>1, <1>14, <2>1, <2>2 DEF Boot, IndexOf, TypeOK
<1>15. CASE Serve
  BY <1>1, <1>15 DEF Serve, TypeOK
<1>16. CASE UNCHANGED vars
  BY <1>1, <1>16 DEF vars, TypeOK
<1> QED BY <1>2, <1>3, <1>4, <1>5, <1>6, <1>7, <1>8, <1>9, <1>10, <1>11, <1>12, <1>13, <1>14, <1>15, <1>16
        DEF Next, WatchThread

LEMMA Shapes ==
    ASSUME TypeOK
    PROVE  /\ api = Idle => api.step = "idle"
           /\ api # Idle => /\ api \in [step : {"lookup", "store", "flag", "sign"}, u : Appts, rec : Record]
                            /\ api.step \in {"lookup", "store", "flag", "sign"}
                            /\ api.u \in Appts /\ api.rec \in Record
           /\ rdel = NoDeletion => rdel.step = "none"
           /\ rdel # NoDeletion => /\ rdel \in [step : {"dbw", "flags", "gatekeeper"}, u : Appts]
                                   /\ rdel.step \in {"dbw", "flags", "gatekeeper"}
                                   /\ rdel.u \in Appts
BY DEF TypeOK, Idle, NoDeletion

(* Who may act when: a step of add_appointment leaves the user and the     *)
(* record of the request, a step of a deletion its user.                   *)
LEMMA ApiActs ==
    ASSUME TypeOK, ApiThread
    PROVE  /\ api # Idle /\ api.u \in Appts /\ api.rec \in Record
           /\ api' # Idle => /\ api'.u = api.u /\ api'.rec = api.rec
                             /\ api'.step \in {"store", "flag", "sign"}
<1>1. api # Idle
  BY Shapes DEF ApiThread, Watch, Trigger, StoreTriggered, FlagStored, Sign, Idle
<1>2. api \in [step : {"lookup", "store", "flag", "sign"}, u : Appts, rec : Record]
  BY <1>1, Shapes
<1>3. \/ api' = Idle
      \/ \E s \in {"store", "flag", "sign"} : api' = [api EXCEPT !.step = s]
  BY DEF ApiThread, Watch, Trigger, StoreTriggered, FlagStored, Sign
<1> QED BY <1>1, <1>2, <1>3

LEMMA DeletionActs ==
    ASSUME TypeOK, DeleteTriggered
    PROVE  /\ rdel # NoDeletion /\ rdel.u \in Appts
           /\ \/ rdel' = NoDeletion /\ rdel.step = "gatekeeper"
              \/ /\ rdel' # NoDeletion /\ rdel'.u = rdel.u
                 /\ \/ rdel.step = "dbw" /\ rdel'.step = "flags"
                    \/ rdel.step = "flags" /\ rdel'.step = "gatekeeper"
<1>1. rdel # NoDeletion
  BY DEF DeleteTriggered, NoDeletion
<1>2. rdel \in [step : {"dbw", "flags", "gatekeeper"}, u : Appts]
  BY <1>1, Shapes
<1> QED BY <1>1, <1>2 DEF DeleteTriggered, NoDeletion

(* locator_uuid_map and appointments change together.                      *)
LEMMA IndexAfterForget ==
    ASSUME MapIsIndex, NEW S, Forget(S)
    PROVE  MapIsIndex'
BY DEF MapIsIndex, IndexOf, Forget

LEMMA IndexStep == WatcherInv /\ [Next]_vars => MapIsIndex'
<1> SUFFICES ASSUME WatcherInv, [Next]_vars
             PROVE  MapIsIndex'
  OBVIOUS
<1> USE DEF memVars
<1>1. TypeOK /\ MapIsIndex
  BY DEF WatcherInv
<1>2. CASE UNCHANGED <<appointments, lmap>>
  BY <1>1, <1>2 DEF MapIsIndex, IndexOf
<1>3. CASE Enter
  <2>1. (UNCHANGED <<appointments, lmap>>) \/ \E S : Forget(S)
    BY <1>3 DEF Enter, delete_appointments
  <2> QED BY <1>1, <1>2, <2>1, IndexAfterForget
<1>4. ASSUME NEW u \in Appts, HandOver(u)
      PROVE  MapIsIndex'
  BY <1>1, <1>2, <1>4, IndexAfterForget DEF HandOver
<1>5. CASE DeleteDropped
  BY <1>1, <1>5, IndexAfterForget DEF DeleteDropped, delete_appointments
<1>6. CASE Watch
  <2> DEFINE l == LocatorOf[api.u]
  <2>1. api.u \in Appts /\ l \in Txs /\ lmap = IndexOf(appointments)
    BY <1>1, <1>6, ApiActs, WatcherAssumption DEF ApiThread, MapIsIndex
  <2>2. /\ appointments' = appointments \cup {api.u}
        /\ lmap' = [lmap EXCEPT ![l] = @ \cup {api.u}]
    BY <1>6 DEF Watch
  <2> QED BY <2>1, <2>2 DEF MapIsIndex, IndexOf
<1>7. CASE Crash
  BY <1>7 DEF Crash, MapIsIndex, IndexOf
<1>8. CASE Boot
  BY <1>2, <1>8 DEF Boot, MapIsIndex, IndexOf
<1>9. ASSUME NEW b \in Blocks, NewTip(b)
      PROVE  MapIsIndex'
  BY <1>2, <1>9 DEF NewTip
<1>10. CASE WatchCache \/ WatchGet \/ FlagTriggered \/ FreeSlots \/ StoreLast \/ Finish
  BY <1>2, <1>10 DEF WatchCache, WatchGet, FlagTriggered, FreeSlots, StoreLast, Finish
<1>11. ASSUME NEW u \in Appts, NEW ok \in BOOLEAN, Accept(u, ok)
       PROVE  MapIsIndex'
  BY <1>2, <1>11 DEF Accept
<1>12. CASE Trigger \/ StoreTriggered \/ FlagStored \/ Sign
  BY <1>2, <1>12 DEF Trigger, StoreTriggered, FlagStored, Sign
<1>13. ASSUME NEW u \in Appts, DeleteTracker(u)
       PROVE  MapIsIndex'
  BY <1>2, <1>13 DEF DeleteTracker
<1>14. CASE DeleteTriggered \/ Serve \/ UNCHANGED vars
  BY <1>2, <1>14 DEF DeleteTriggered, Serve, vars
<1> QED BY <1>3, <1>4, <1>5, <1>6, <1>7, <1>8, <1>9, <1>10, <1>11, <1>12, <1>13, <1>14
        DEF Next, WatchThread, ApiThread

LEMMA StoredStep == WatcherInv /\ [Next]_vars => WatchedAreStored'
<1> SUFFICES ASSUME WatcherInv, [Next]_vars
             PROVE  WatchedAreStored'
  OBVIOUS
<1> USE DEF memVars, dbVars
<1>1. TypeOK /\ WatchedAreStored
  BY DEF WatcherInv
<1>2. CASE appointments' \subseteq appointments /\ dbw' = dbw
  BY <1>1, <1>2 DEF WatchedAreStored
<1>3. ASSUME NEW S, delete_appointments(S)
      PROVE  WatchedAreStored'
  BY <1>1, <1>3 DEF delete_appointments, Forget, Deleted, WatchedAreStored, TypeOK
<1>4. CASE Enter
  <2>1. (UNCHANGED <<appointments, dbw>>) \/ \E S : delete_appointments(S)
    BY <1>4 DEF Enter
  <2> QED BY <1>2, <1>3, <2>1
<1>5. ASSUME NEW u \in Appts, HandOver(u)
      PROVE  WatchedAreStored'
  BY <1>2, <1>5 DEF HandOver, Forget
<1>6. CASE DeleteDropped
  BY <1>3, <1>6 DEF DeleteDropped
<1>7. CASE Watch \/ StoreTriggered
  <2>1. api.u \in Appts /\ api.rec \in Record /\ api.rec # None
    BY <1>1, <1>7, ApiActs, WatcherAssumption DEF ApiThread
  <2>2. /\ appointments' \subseteq appointments \cup {api.u}
        /\ dbw' = [dbw EXCEPT ![api.u] = api.rec]
    BY <1>7 DEF Watch, StoreTriggered
  <2> QED BY <1>1, <2>1, <2>2 DEF WatchedAreStored, TypeOK
<1>8. CASE DeleteTriggered
  <2>1. rdel.u \notin appointments
    BY <1>1, <1>8, DeletionActs DEF WatcherInv, DeletionApart
  <2>2. appointments' = appointments /\ (dbw' = dbw \/ dbw' = Deleted({rdel.u}))
    BY <1>8 DEF DeleteTriggered
  <2> QED BY <1>1, <2>1, <2>2 DEF Deleted, WatchedAreStored, TypeOK
<1>9. CASE Crash
  BY <1>9 DEF Crash, WatchedAreStored
<1>10. CASE Boot
  <2>1. dbw' = dbw /\ (appointments' = appointments \/ appointments' = Loaded)
    BY <1>10 DEF Boot
  <2> QED BY <1>1, <2>1 DEF Loaded, WatchedAreStored
<1>11. ASSUME NEW b \in Blocks, NewTip(b)
       PROVE  WatchedAreStored'
  BY <1>2, <1>11 DEF NewTip
<1>12. CASE WatchCache \/ WatchGet \/ FlagTriggered \/ FreeSlots \/ StoreLast \/ Finish
  BY <1>2, <1>12 DEF WatchCache, WatchGet, FlagTriggered, FreeSlots, StoreLast, Finish
<1>13. ASSUME NEW u \in Appts, NEW ok \in BOOLEAN, Accept(u, ok)
       PROVE  WatchedAreStored'
  BY <1>2, <1>13 DEF Accept
<1>14. CASE Trigger \/ FlagStored \/ Sign
  BY <1>2, <1>14 DEF Trigger, FlagStored, Sign
<1>15. ASSUME NEW u \in Appts, DeleteTracker(u)
       PROVE  WatchedAreStored'
  BY <1>2, <1>15 DEF DeleteTracker
<1>16. CASE Serve \/ UNCHANGED vars
  BY <1>2, <1>16 DEF Serve, vars
<1> QED BY <1>4, <1>5, <1>6, <1>7, <1>8, <1>9, <1>10, <1>11, <1>12, <1>13, <1>14, <1>15, <1>16
        DEF Next, WatchThread, ApiThread

(* Nothing but the bootstrap happens to a process that is down, and the    *)
(* lock is taken by one thread at a time.                                  *)
LEMMA ThreadsStep == WatcherInv /\ [Next]_vars => DownIsEmpty' /\ LockExcludes'
<1> SUFFICES ASSUME WatcherInv, [Next]_vars
             PROVE  DownIsEmpty' /\ LockExcludes'
  OBVIOUS
<1> USE DEF memVars, secVars, respVars, feedVars, DownIsEmpty, LockExcludes, Locked
<1>1. TypeOK /\ DownIsEmpty /\ LockExcludes
  BY DEF WatcherInv
<1>2. ASSUME NEW b \in Blocks, NewTip(b)
      PROVE  DownIsEmpty' /\ LockExcludes'
  BY <1>1, <1>2 DEF NewTip
<1>3. CASE WatchCache \/ WatchGet
  BY <1>1, <1>3 DEF WatchCache, WatchGet
<1>4. CASE Enter
  BY <1>1, <1>4 DEF Enter, Running
<1>5. ASSUME NEW u \in Appts, HandOver(u)
      PROVE  DownIsEmpty' /\ LockExcludes'
  BY <1>1, <1>5 DEF HandOver
<1>6. CASE FlagTriggered \/ DeleteDropped \/ FreeSlots \/ StoreLast \/ Finish
  BY <1>1, <1>6 DEF FlagTriggered, DeleteDropped, FreeSlots, StoreLast, Finish
<1>7. ASSUME NEW u \in Appts, NEW ok \in BOOLEAN, Accept(u, ok)
      PROVE  DownIsEmpty' /\ LockExcludes'
  BY <1>1, <1>7 DEF Accept
<1>8. CASE ApiThread
  <2>1. api # Idle /\ up' = up /\ sec' = sec
    BY <1>1, <1>8, ApiActs DEF ApiThread, Watch, Trigger, StoreTriggered, FlagStored, Sign
  <2> QED BY <1>1, <2>1
<1>9. ASSUME NEW u \in Appts, DeleteTracker(u)
      PROVE  DownIsEmpty' /\ LockExcludes'
  BY <1>1, <1>9 DEF DeleteTracker, Running
<1>10. CASE DeleteTriggered
  <2>1. rdel # NoDeletion /\ up' = up /\ sec' = sec /\ api' = api
    BY <1>1, <1>10, DeletionActs DEF DeleteTriggered
  <2> QED BY <1>1, <2>1
<1>11. CASE Crash \/ Boot \/ Serve
  BY <1>1, <1>11 DEF Crash, Boot, Serve
<1>12. CASE UNCHANGED vars
  BY <1>1, <1>12 DEF vars
<1> QED BY <1>2, <1>3, <1>4, <1>5, <1>6, <1>7, <1>8, <1>9, <1>10, <1>11, <1>12
        DEF Next, WatchThread

LEMMA ApartStep == WatcherInv /\ [Next]_vars => DeletionApart'
<1> SUFFICES ASSUME WatcherInv, [Next]_vars
             PROVE  DeletionApart'
  OBVIOUS
<1> USE DEF memVars, secVars, respVars, dbVars, feedVars
<1>1. TypeOK /\ DeletionApart
  BY DEF WatcherInv
<1>2. CASE /\ rdel' = rdel /\ dbw' = dbw /\ api' = api
           /\ appointments' \subseteq appointments /\ promised' \subseteq promised
  BY <1>1, <1>2 DEF DeletionApart
<1>3. ASSUME NEW S, delete_appointments(S), UNCHANGED <<api, rdel>>
      PROVE  DeletionApart'
  <2>1. /\ appointments' \subseteq appointments /\ promised' \subseteq promised
        /\ \A u \in Appts : dbw[u] = None => dbw'[u] = None
    BY <1>3 DEF delete_appointments, Forget, Deleted
  <2> QED BY <1>1, <1>3, <2>1, Shapes DEF DeletionApart
<1>4. CASE Enter
  <2>1. \/ UNCHANGED <<appointments, dbw, promised>>
        \/ \E S : delete_appointments(S)
    BY <1>4 DEF Enter
  <2>2. UNCHANGED <<api, rdel>>
    BY <1>4 DEF Enter
  <2> QED BY <1>2, <1>3, <2>1, <2>2
<1>5. ASSUME NEW u \in Appts, HandOver(u)
      PROVE  DeletionApart'
  BY <1>2, <1>5 DEF HandOver, Forget
<1>6. CASE DeleteDropped
  BY <1>3, <1>6 DEF DeleteDropped
<1>7. ASSUME NEW u \in Appts, NEW ok \in BOOLEAN, Accept(u, ok)
      PROVE  DeletionApart'
  BY <1>7 DEF Accept, DeletionApart
<1>8. CASE ApiThread
  <2>1. /\ api # Idle /\ api.u \in Appts /\ rdel' = rdel
        /\ api' # Idle => api'.u = api.u
    BY <1>1, <1>8, ApiActs DEF ApiThread, Watch, Trigger, AddTracker, StoreTriggered, FlagStored, Sign
  <2>2. /\ appointments' \subseteq appointments \cup {api.u}
        /\ promised' \subseteq promised \cup {api.u}
        /\ dbw' = dbw \/ dbw' = [dbw EXCEPT ![api.u] = api.rec]
    BY <1>8 DEF ApiThread, Watch, Trigger, StoreTriggered, FlagStored, Sign
  <2>3. \A u \in Appts : u # api.u => dbw'[u] = dbw[u]
    BY <1>1, <2>1, <2>2 DEF TypeOK
  <2> QED BY <1>1, <2>1, <2>2, <2>3, Shapes DEF DeletionApart
<1>9. ASSUME NEW u \in Appts, DeleteTracker(u)
      PROVE  DeletionApart'
  <2>1. /\ rdel' = [step |-> "dbw", u |-> u] /\ appointments' = appointments
        /\ promised' = promised \ {u} /\ api' = api
        /\ u \notin appointments /\ (api # Idle => api.u # u)
    BY <1>9 DEF DeleteTracker, WatcherInv, SingleCustody
  <2> QED BY <2>1 DEF DeletionApart
<1>10. CASE DeleteTriggered
  <2>1. /\ rdel.u \notin appointments /\ rdel.u \notin promised
        /\ api # Idle => api.u # rdel.u
        /\ rdel.step # "dbw" => dbw[rdel.u] = None
    BY <1>1, <1>10, DeletionActs DEF DeletionApart
  <2>2. UNCHANGED <<appointments, promised, api>>
    BY <1>10 DEF DeleteTriggered
  <2>3. rdel.step = "dbw" => dbw'[rdel.u] = None
    BY <1>1, <1>10, DeletionActs DEF DeleteTriggered, Deleted
  <2>4. rdel.step # "dbw" => dbw' = dbw
    BY <1>10 DEF DeleteTriggered
  <2> QED BY <1>1, <1>10, <2>1, <2>2, <2>3, <2>4, DeletionActs DEF DeletionApart
<1>11. CASE Crash
  BY <1>11 DEF Crash, DeletionApart
<1>12. CASE Boot
  BY <1>12 DEF Boot, WatcherInv, DownIsEmpty, DeletionApart
<1>13. ASSUME NEW b \in Blocks, NewTip(b)
       PROVE  DeletionApart'
  BY <1>2, <1>13 DEF NewTip
<1>14. CASE WatchCache \/ WatchGet \/ FlagTriggered \/ FreeSlots \/ StoreLast \/ Finish
  BY <1>2, <1>14 DEF WatchCache, WatchGet, FlagTriggered, FreeSlots, StoreLast, Finish
<1>15. CASE Serve \/ UNCHANGED vars
  BY <1>2, <1>15 DEF Serve, vars
<1> QED BY <1>4, <1>5, <1>6, <1>7, <1>8, <1>9, <1>10, <1>11, <1>12, <1>13, <1>14, <1>15
        DEF Next, WatchThread

LEMMA DroppedStep == WatcherInv /\ [Next]_vars => DroppedAreGone'
<1> SUFFICES ASSUME WatcherInv, [Next]_vars
             PROVE  DroppedAreGone'
  OBVIOUS
<1> USE DEF secVars, dbVars, feedVars, DroppedAreGone
<1>1. TypeOK /\ DroppedAreGone /\ LockExcludes
  BY DEF WatcherInv
<1>2. CASE UNCHANGED <<sec, dropped, dbw>>
  BY <1>1, <1>2
<1>3. CASE Enter \/ FlagTriggered \/ FreeSlots \/ StoreLast \/ Finish \/ Crash
  <2>1. sec' # "gatekeeper"
    BY <1>3 DEF Enter, FlagTriggered, FreeSlots, StoreLast, Finish, Crash
  <2> QED BY <2>1
<1>4. ASSUME NEW u \in Appts, HandOver(u)
      PROVE  DroppedAreGone'
  BY <1>4 DEF HandOver
<1>5. CASE DeleteDropped
  BY <1>1, <1>5 DEF DeleteDropped, delete_appointments, Deleted, TypeOK
<1>6. CASE ApiThread
  BY <1>1, <1>6, ApiActs DEF ApiThread, Watch, Trigger, StoreTriggered, FlagStored, Sign,
     LockExcludes, Locked
<1>7. CASE DeleteTriggered
  <2>1. UNCHANGED <<sec, dropped>> /\ (dbw' = dbw \/ dbw' = Deleted({rdel.u}))
    BY <1>7 DEF DeleteTriggered
  <2> QED BY <1>1, <2>1 DEF Deleted, TypeOK
<1>8. CASE WatchCache \/ WatchGet \/ Boot \/ Serve \/ UNCHANGED vars
  BY <1>2, <1>8 DEF WatchCache, WatchGet, Boot, Serve, vars
<1>9. ASSUME NEW u \in Appts, DeleteTracker(u) \/ (\E ok \in BOOLEAN : Accept(u, ok))
      PROVE  DroppedAreGone'
  BY <1>2, <1>9 DEF DeleteTracker, Accept
<1>10. ASSUME NEW b \in Blocks, NewTip(b)
       PROVE  DroppedAreGone'
  BY <1>2, <1>10 DEF NewTip
<1> QED BY <1>3, <1>4, <1>5, <1>6, <1>7, <1>8, <1>9, <1>10 DEF Next, WatchThread

LEMMA AccountedStep == WatcherInv /\ [Next]_vars => StoredAreAccounted'
<1> SUFFICES ASSUME WatcherInv, [Next]_vars
             PROVE  StoredAreAccounted'
  OBVIOUS
<1> USE DEF dbVars, StoredAreAccounted
<1>1. TypeOK /\ StoredAreAccounted
  BY DEF WatcherInv
<1>2. CASE UNCHANGED <<dbw, gk, api>>
  BY <1>1, <1>2
<1>3. ASSUME NEW S, delete_appointments(S), UNCHANGED <<gk, api>>
      PROVE  StoredAreAccounted'
  BY <1>1, <1>3 DEF delete_appointments, Deleted, TypeOK
<1>4. CASE Enter
  <2>1. dbw' = dbw \/ \E S : delete_appointments(S)
    BY <1>4 DEF Enter
  <2>2. UNCHANGED <<gk, api>>
    BY <1>4 DEF Enter
  <2> QED BY <1>2, <1>3, <2>1, <2>2
<1>5. CASE DeleteDropped
  BY <1>3, <1>5 DEF DeleteDropped
<1>6. CASE FreeSlots
  <2>1. api = Idle /\ \A u \in dropped : dbw[u] = None
    BY <1>6 DEF FreeSlots, WatcherInv, LockExcludes, Locked, DroppedAreGone
  <2>2. gk' = gk \ dropped /\ dbw' = dbw /\ api' = api
    BY <1>6 DEF FreeSlots
  <2> QED BY <1>1, <2>1, <2>2
<1>7. ASSUME NEW u \in Appts, NEW ok \in BOOLEAN, Accept(u, ok)
      PROVE  StoredAreAccounted'
  <2>1. gk' = gk \cup {u} /\ dbw' = dbw /\ api'.u = u
    BY <1>7 DEF Accept
  <2> QED BY <1>1, <2>1
<1>8. CASE ApiThread
  <2>1. api.u \in gk /\ api.u \in Appts /\ (api' # Idle => api'.u = api.u)
    BY <1>1, <1>8, ApiActs
  <2>2. gk' = gk /\ (dbw' = dbw \/ dbw' = [dbw EXCEPT ![api.u] = api.rec])
    BY <1>8 DEF ApiThread, Watch, Trigger, StoreTriggered, FlagStored, Sign
  <2> QED BY <1>1, <2>1, <2>2 DEF TypeOK
<1>9. CASE DeleteTriggered
  <2>1. /\ api # Idle => api.u # rdel.u
        /\ rdel.step # "dbw" => dbw[rdel.u] = None
    BY <1>1, <1>9, DeletionActs DEF WatcherInv, DeletionApart
  <2>2. api' = api /\ \/ gk' = gk /\ (dbw' = dbw \/ dbw' = Deleted({rdel.u}))
                      \/ gk' = gk \ {rdel.u} /\ dbw' = dbw /\ rdel.step = "gatekeeper"
    BY <1>9 DEF DeleteTriggered
  <2> QED BY <1>1, <2>1, <2>2 DEF Deleted, TypeOK
<1>10. CASE Crash
  BY <1>1, <1>10 DEF Crash
<1>11. CASE WatchCache \/ WatchGet \/ FlagTriggered \/ StoreLast \/ Finish
  BY <1>2, <1>11 DEF WatchCache, WatchGet, FlagTriggered, StoreLast, Finish
<1>12. ASSUME NEW u \in Appts, HandOver(u) \/ DeleteTracker(u)
       PROVE  StoredAreAccounted'
  BY <1>2, <1>12 DEF HandOver, DeleteTracker
<1>13. ASSUME NEW b \in Blocks, NewTip(b)
       PROVE  StoredAreAccounted'
  BY <1>2, <1>13 DEF NewTip
<1>14. CASE Boot \/ Serve \/ UNCHANGED vars
  BY <1>2, <1>14 DEF Boot, Serve, vars
<1> QED BY <1>4, <1>5, <1>6, <1>7, <1>8, <1>9, <1>10, <1>11, <1>12, <1>13, <1>14
        DEF Next, WatchThread

-----------------------------------------------------------------------------
(* The invariant holds initially.                                          *)

LEMMA WatcherInvInit == SingleCustody /\ Init => WatcherInv
<1> SUFFICES ASSUME SingleCustody, Init
             PROVE  WatcherInv
  OBVIOUS
<1>1. CacheInv /\ CacheTypeOK
  BY CacheInvInit DEF Init, CacheInv
<1>2. TypeOK
  <2>1. tip \in Blocks /\ dbLast \in Blocks /\ queue \in Seq(Blocks)
    <3>1. tip = last /\ dbLast = last /\ queue = <<>> /\ last \in Blocks
      BY <1>1 DEF Init, CacheTypeOK
    <3> QED BY <3>1
  <2>2. lmap \in [Txs -> SUBSET Appts] /\ dbw \in [Appts -> Record \cup {None}]
    BY DEF Init, IndexOf
  <2>3. crashes \in 0..MaxCrashes
    <3>1. crashes = 0 /\ MaxCrashes \in Nat
      BY WatcherAssumption DEF Init
    <3> QED BY <3>1
  <2> QED BY <1>1, <2>1, <2>2, <2>3 DEF Init, TypeOK
<1>3. MapIsIndex /\ WatchedAreStored /\ DownIsEmpty /\ LockExcludes
      /\ DeletionApart /\ DroppedAreGone
  BY DEF Init, MapIsIndex, WatchedAreStored, DownIsEmpty, LockExcludes, Locked,
         DeletionApart, DroppedAreGone
<1>4. StoredAreAccounted
  BY DEF Init, StoredAreAccounted
<1> QED BY <1>1, <1>2, <1>3, <1>4 DEF WatcherInv

LEMMA WatcherInvNext == WatcherInv /\ [Next]_vars => WatcherInv'
<1> SUFFICES ASSUME WatcherInv, [Next]_vars
             PROVE  WatcherInv'
  OBVIOUS
<1>1. SingleCustody'
  BY DEF WatcherInv, SingleCustody
<1>2. TypeOK' /\ CacheInv' /\ MapIsIndex' /\ WatchedAreStored'
  BY TypeStep, CacheInvStep, IndexStep, StoredStep
<1>3. DownIsEmpty' /\ LockExcludes' /\ DeletionApart' /\ DroppedAreGone' /\ StoredAreAccounted'
  BY ThreadsStep, ApartStep, DroppedStep, AccountedStep
<1> QED BY <1>1, <1>2, <1>3 DEF WatcherInv

THEOREM WatcherInvariance == SingleCustody /\ Spec => []WatcherInv
BY WatcherInvInit, WatcherInvNext, PTL DEF Spec

(***************************************************************************)
(* What follows from it.                                                   *)
(***************************************************************************)

(* Every variable keeps its type.                                          *)
THEOREM TypeCorrect == SingleCustody /\ Spec => []TypeOK
<1>1. WatcherInv => TypeOK
  BY DEF WatcherInv
<1> QED BY WatcherInvariance, <1>1, PTL

(* The Watcher drives the locator cache as LocatorCache says, also across  *)
(* crashes and with the queue its bootstrap fills.                         *)
THEOREM ImplementsCache == SingleCustody /\ Spec => CacheSpec
<1>1. Init => CacheInit
  BY DEF Init
<1> QED BY WatcherInvariance, CacheStep, <1>1, PTL DEF Spec, CacheSpec

(* So the cache of the running Watcher is exact between two blocks.        *)
THEOREM WatcherWindowExact == SingleCustody /\ Spec => []WindowExact
BY ImplementsCache, WindowExactHolds, PTL

(* The watch thread never dies, neither of a missing locator nor of an     *)
(* appointment that it watches and cannot read.                            *)
THEOREM NeverDiesHolds == SingleCustody /\ Spec => []NeverDies
<1>1. WatcherInv => NeverDies
  BY DEF WatcherInv, CacheInv, NeverKeyError, NeverDies
<1> QED BY WatcherInvariance, <1>1, PTL

(* locator_uuid_map is the index of appointments in every state.           *)
THEOREM MapIsIndexHolds == SingleCustody /\ Spec => []MapIsIndex
<1>1. WatcherInv => MapIsIndex
  BY DEF WatcherInv
<1> QED BY WatcherInvariance, <1>1, PTL

(* What is watched in memory is on disk.                                   *)
THEOREM WatchedAreStoredHolds == SingleCustody /\ Spec => []WatchedAreStored
<1>1. WatcherInv => WatchedAreStored
  BY DEF WatcherInv
<1> QED BY WatcherInvariance, <1>1, PTL

(* The watch thread can read what it watches for, and survives.            *)
THEOREM WatchedAreReadableHolds == SingleCustody /\ Spec => []WatchedAreReadable
BY WatchedAreStoredHolds, NeverDiesHolds, PTL DEF WatchedAreReadable

(* Nothing is watched for free, also after a crash between the write to    *)
(* one database and the write to the other.                                *)
THEOREM WatchedAreAccountedHolds == SingleCustody /\ Spec => []WatchedAreAccounted
<1>1. WatcherInv => WatchedAreAccounted
  BY DEF WatcherInv, TypeOK, WatchedAreStored, StoredAreAccounted, WatchedAreAccounted
<1> QED BY WatcherInvariance, <1>1, PTL

-----------------------------------------------------------------------------
(* What is promised is durable.                                            *)

LEMMA TrackersStep == WatcherInv /\ TrackersAreStored /\ [Next]_vars => TrackersAreStored'
<1> SUFFICES ASSUME WatcherInv, TrackersAreStored, [Next]_vars
             PROVE  TrackersAreStored'
  OBVIOUS
<1> USE DEF respVars, dbVars, feedVars, TrackersAreStored
<1>1. TypeOK /\ TrackersAreStored /\ DownIsEmpty
  BY DEF WatcherInv
<1>2. CASE UNCHANGED <<trackers, dbr, up>>
  BY <1>1, <1>2
<1>3. ASSUME NEW u, AddTracker(u), up' = up
      PROVE  TrackersAreStored'
  BY <1>1, <1>3 DEF AddTracker
<1>4. ASSUME NEW u \in Appts, HandOver(u)
      PROVE  TrackersAreStored'
  BY <1>2, <1>3, <1>4 DEF HandOver
<1>5. CASE Trigger
  BY <1>2, <1>3, <1>5 DEF Trigger
<1>6. ASSUME NEW u \in Appts, DeleteTracker(u)
      PROVE  TrackersAreStored'
  BY <1>1, <1>6 DEF DeleteTracker
<1>7. CASE Crash
  BY <1>7 DEF Crash
<1>8. CASE Boot
  <2>1. trackers = {} /\ dbr' = dbr
    BY <1>1, <1>8 DEF Boot, DownIsEmpty
  <2>2. CASE NoData
    BY <1>8, <2>1, <2>2 DEF Boot, NoData
  <2>3. CASE ~NoData
    BY <1>8, <2>1, <2>3 DEF Boot
  <2> QED BY <2>2, <2>3
<1>9. CASE Serve
  BY <1>1, <1>9 DEF Serve
<1>10. CASE \/ WatchCache \/ WatchGet \/ Enter \/ FlagTriggered \/ DeleteDropped
            \/ FreeSlots \/ StoreLast \/ Finish
  BY <1>2, <1>10 DEF WatchCache, WatchGet, Enter, FlagTriggered, DeleteDropped, FreeSlots,
     StoreLast, Finish
<1>11. CASE Watch \/ StoreTriggered \/ FlagStored \/ Sign
  BY <1>2, <1>11 DEF Watch, StoreTriggered, FlagStored, Sign
<1>12. ASSUME NEW u \in Appts, NEW ok \in BOOLEAN, Accept(u, ok)
       PROVE  TrackersAreStored'
  BY <1>2, <1>12 DEF Accept
<1>13. ASSUME NEW b \in Blocks, NewTip(b)
       PROVE  TrackersAreStored'
  BY <1>2, <1>13 DEF NewTip
<1>14. CASE DeleteTriggered \/ UNCHANGED vars
  BY <1>2, <1>14 DEF DeleteTriggered, vars
<1> QED BY <1>4, <1>5, <1>6, <1>7, <1>8, <1>9, <1>10, <1>11, <1>12, <1>13, <1>14
        DEF Next, WatchThread, ApiThread

LEMMA FlagsStep == WatcherInv /\ DurableInv /\ [Next]_vars => FlagsFollowTrackers'
<1> SUFFICES ASSUME WatcherInv, DurableInv, [Next]_vars
             PROVE  FlagsFollowTrackers'
  OBVIOUS
<1> USE DEF secVars, respVars, dbVars, feedVars
<1>1. TypeOK /\ FlagsFollowTrackers
  BY DEF WatcherInv, DurableInv
<1>2. CASE UNCHANGED <<triggered, api, flags, rdel>> /\ dbr \subseteq dbr'
  BY <1>1, <1>2 DEF FlagsFollowTrackers
<1>3. ASSUME NEW u \in Appts, HandOver(u)
      PROVE  FlagsFollowTrackers'
  <2>1. UNCHANGED <<api, flags, rdel>>
    BY <1>3 DEF HandOver
  <2>2. \/ dbr' = dbr \cup {u} /\ triggered' = triggered \cup {u}
        \/ dbr' = dbr /\ triggered' = triggered
    BY <1>3 DEF HandOver, AddTracker
  <2> QED BY <1>1, <2>1, <2>2 DEF FlagsFollowTrackers
<1>4. CASE FlagTriggered
  <2>1. flags' = flags \cup triggered /\ triggered' = {} /\ UNCHANGED <<api, rdel, dbr>>
    BY <1>4 DEF FlagTriggered
  <2> QED BY <1>1, <2>1 DEF FlagsFollowTrackers
<1>5. ASSUME NEW u \in Appts, NEW ok \in BOOLEAN, Accept(u, ok)
      PROVE  FlagsFollowTrackers'
  <2>1. api'.step = "lookup" /\ UNCHANGED <<triggered, flags, rdel, dbr>>
    BY <1>5 DEF Accept
  <2> QED BY <1>1, <2>1 DEF FlagsFollowTrackers
<1>6. CASE Watch \/ Sign
  <2>1. api'.step \notin {"store", "flag"}
    BY <1>1, <1>6, Shapes DEF Watch, Sign, Idle
  <2>2. UNCHANGED <<triggered, flags, rdel, dbr>>
    BY <1>6 DEF Watch, Sign
  <2> QED BY <1>1, <2>1, <2>2 DEF FlagsFollowTrackers
<1>7. CASE Trigger
  <2>1. api'.u = api.u
    <3>1. api' # Idle
      BY <1>1, <1>7, Shapes DEF Trigger, Idle
    <3> QED BY <1>1, <1>7, <3>1, ApiActs DEF ApiThread
  <2>2. \/ api'.step = "store" /\ dbr' = dbr \cup {api.u}
        \/ api'.step = "sign" /\ dbr' = dbr
    BY <1>1, <1>7, Shapes DEF Trigger, AddTracker
  <2>3. UNCHANGED <<triggered, flags, rdel>>
    BY <1>7 DEF Trigger
  <2> QED BY <1>1, <2>1, <2>2, <2>3 DEF FlagsFollowTrackers
<1>8. CASE StoreTriggered
  <2>1. api.u \in dbr /\ api'.u = api.u
    <3>1. api' # Idle
      BY <1>1, <1>8, Shapes DEF StoreTriggered, Idle
    <3> QED BY <1>1, <1>8, <3>1, ApiActs DEF ApiThread, StoreTriggered, FlagsFollowTrackers
  <2>2. UNCHANGED <<triggered, flags, rdel, dbr>>
    BY <1>8 DEF StoreTriggered
  <2> QED BY <1>1, <2>1, <2>2 DEF FlagsFollowTrackers
<1>9. CASE FlagStored
  <2>1. api.u \in dbr /\ flags' = flags \cup {api.u} /\ UNCHANGED <<triggered, rdel, dbr>>
    BY <1>1, <1>9 DEF FlagStored, FlagsFollowTrackers
  <2>2. api'.step = "sign"
    BY <1>1, <1>9, Shapes DEF FlagStored
  <2> QED BY <1>1, <2>1, <2>2 DEF FlagsFollowTrackers
<1>10. ASSUME NEW u \in Appts, DeleteTracker(u)
       PROVE  FlagsFollowTrackers'
  <2>1. /\ u \notin triggered /\ (api # Idle => api.u # u)
        /\ rdel = NoDeletion /\ rdel' = [step |-> "dbw", u |-> u]
        /\ dbr' = dbr \ {u} /\ UNCHANGED <<triggered, api, flags>>
    BY <1>10 DEF DeleteTracker, WatcherInv, SingleCustody
  <2>2. api.step \in {"store", "flag"} => api # Idle
    BY <1>1, Shapes
  <2>3. \A v \in flags : v \in dbr
    BY <1>1, <2>1, Shapes DEF FlagsFollowTrackers
  <2> QED BY <1>1, <2>1, <2>2, <2>3 DEF FlagsFollowTrackers
<1>11. CASE DeleteTriggered
  <2>1. UNCHANGED <<triggered, api, dbr>>
    BY <1>11 DEF DeleteTriggered
  <2>2. CASE rdel.step = "dbw"
    BY <1>1, <1>11, <2>1, <2>2, DeletionActs DEF DeleteTriggered, FlagsFollowTrackers
  <2>3. CASE rdel.step = "flags"
    <3>1. flags' = flags \ {rdel.u}
      BY <1>11, <2>3 DEF DeleteTriggered
    <3> QED BY <1>1, <2>1, <3>1 DEF FlagsFollowTrackers
  <2>4. CASE rdel.step = "gatekeeper"
    <3>1. flags' = flags
      BY <1>11, <2>4 DEF DeleteTriggered
    <3> QED BY <1>1, <2>1, <2>4, <3>1 DEF FlagsFollowTrackers
  <2> QED BY <1>1, <1>11, <2>2, <2>3, <2>4, DeletionActs, Shapes
<1>12. CASE Crash
  <2>1. /\ rdel = NoDeletion /\ api' = Idle /\ triggered' = {} /\ UNCHANGED <<flags, dbr>>
    BY <1>12 DEF Crash, DurableInv, WholeDeletions
  <2>2. \A v \in flags : v \in dbr
    BY <1>1, <2>1, Shapes DEF FlagsFollowTrackers
  <2> QED BY <2>1, <2>2 DEF Idle, FlagsFollowTrackers
<1>13. CASE Enter \/ DeleteDropped \/ FreeSlots \/ StoreLast \/ Finish
  BY <1>2, <1>13 DEF Enter, DeleteDropped, FreeSlots, StoreLast, Finish
<1>14. CASE WatchCache \/ WatchGet \/ Boot \/ Serve \/ UNCHANGED vars
  BY <1>2, <1>14 DEF WatchCache, WatchGet, Boot, Serve, vars
<1>15. ASSUME NEW b \in Blocks, NewTip(b)
       PROVE  FlagsFollowTrackers'
  BY <1>2, <1>15 DEF NewTip
<1> QED BY <1>3, <1>4, <1>5, <1>6, <1>7, <1>8, <1>9, <1>10, <1>11, <1>12, <1>13, <1>14, <1>15
        DEF Next, WatchThread, ApiThread

LEMMA DurableStep == WatcherInv /\ DurableInv /\ [Next]_vars => PromisedAreDurable'
<1> SUFFICES ASSUME WatcherInv, DurableInv, [Next]_vars
             PROVE  PromisedAreDurable'
  OBVIOUS
<1> USE DEF respVars, dbVars, feedVars
<1>1. TypeOK /\ PromisedAreDurable /\ FlagsFollowTrackers
  BY DEF WatcherInv, DurableInv
<1>2. CASE UNCHANGED <<dbw, flags>> /\ promised' \subseteq promised /\ dbr \subseteq dbr'
  BY <1>1, <1>2 DEF PromisedAreDurable, Loaded
<1>3. ASSUME NEW S, delete_appointments(S), UNCHANGED <<flags, dbr>>
      PROVE  PromisedAreDurable'
  BY <1>1, <1>3 DEF delete_appointments, Deleted, PromisedAreDurable, Loaded, TypeOK
<1>4. CASE Enter
  <2>1. \/ UNCHANGED <<dbw, promised>>
        \/ \E S : delete_appointments(S)
    BY <1>4 DEF Enter
  <2>2. UNCHANGED <<flags, dbr>>
    BY <1>4 DEF Enter
  <2> QED BY <1>2, <1>3, <2>1, <2>2
<1>5. CASE DeleteDropped
  BY <1>3, <1>5 DEF DeleteDropped
<1>6. ASSUME NEW u \in Appts, HandOver(u)
      PROVE  PromisedAreDurable'
  BY <1>2, <1>6 DEF HandOver, AddTracker
<1>7. CASE FlagTriggered
  <2>1. flags' = flags \cup triggered /\ UNCHANGED <<dbw, dbr, promised>> /\ triggered \subseteq dbr
    BY <1>1, <1>7 DEF FlagTriggered, FlagsFollowTrackers
  <2> QED BY <1>1, <2>1 DEF PromisedAreDurable, Loaded
<1>8. CASE Watch \/ StoreTriggered
  <2>1. api.u \in Appts /\ api.rec \in Record /\ api.rec # None
    BY <1>1, <1>8, ApiActs, WatcherAssumption DEF ApiThread
  <2>2. dbw' = [dbw EXCEPT ![api.u] = api.rec] /\ UNCHANGED <<flags, dbr, promised>>
    BY <1>8 DEF Watch, StoreTriggered
  <2> QED BY <1>1, <2>1, <2>2 DEF PromisedAreDurable, Loaded, TypeOK
<1>9. CASE FlagStored
  <2>1. /\ api.u \in dbr /\ flags' = flags \cup {api.u}
        /\ UNCHANGED <<dbw, dbr, promised>>
    BY <1>1, <1>9 DEF FlagStored, FlagsFollowTrackers
  <2> QED BY <1>1, <2>1 DEF PromisedAreDurable, Loaded
<1>10. CASE Sign
  <2>1. UNCHANGED <<dbw, flags, dbr>>
    BY <1>10 DEF Sign
  <2>2. CASE api.u \in appointments \cup trackers
    <3>1. trackers = dbr /\ api.u \in Appts /\ api # Idle
      BY <1>1, <1>10, ApiActs DEF ApiThread, WatcherInv, DownIsEmpty, DurableInv, TrackersAreStored
    <3>2. CASE api.u \in appointments
      <4>1. dbw[api.u] # None
        BY <3>2 DEF WatcherInv, WatchedAreStored
      <4>2. api.u \in flags => api.u \in dbr
        BY <1>1, <3>2, Shapes DEF WatcherInv, DeletionApart, FlagsFollowTrackers
      <4>3. api.u \in Loaded \/ api.u \in dbr
        BY <3>1, <4>1, <4>2 DEF Loaded
      <4> QED BY <1>1, <1>10, <2>1, <2>2, <4>3 DEF Sign, PromisedAreDurable, Loaded
    <3>3. CASE api.u \in trackers
      BY <1>1, <1>10, <2>1, <2>2, <3>1, <3>3 DEF Sign, PromisedAreDurable, Loaded
    <3> QED BY <2>2, <3>2, <3>3
  <2>3. CASE api.u \notin appointments \cup trackers
    BY <1>2, <1>10, <2>1, <2>3 DEF Sign
  <2> QED BY <2>2, <2>3
<1>11. ASSUME NEW u \in Appts, DeleteTracker(u)
       PROVE  PromisedAreDurable'
  BY <1>1, <1>11 DEF DeleteTracker, PromisedAreDurable, Loaded
<1>12. CASE DeleteTriggered
  <2>1. rdel.u \notin promised /\ rdel.u \in Appts
    BY <1>1, <1>12, DeletionActs DEF WatcherInv, DeletionApart
  <2>2. /\ UNCHANGED <<dbr, promised>>
        /\ dbw' = dbw \/ dbw' = Deleted({rdel.u})
        /\ flags' \subseteq flags
    BY <1>12 DEF DeleteTriggered
  <2> QED BY <1>1, <2>1, <2>2 DEF Deleted, PromisedAreDurable, Loaded, TypeOK
<1>13. CASE Trigger
  BY <1>2, <1>13 DEF Trigger, AddTracker
<1>14. CASE \/ WatchCache \/ WatchGet \/ FreeSlots \/ StoreLast \/ Finish
            \/ Crash \/ Boot \/ Serve \/ UNCHANGED vars
  BY <1>2, <1>14 DEF WatchCache, WatchGet, FreeSlots, StoreLast, Finish, Crash, Boot, Serve, vars
<1>15. ASSUME NEW u \in Appts, NEW ok \in BOOLEAN, Accept(u, ok)
       PROVE  PromisedAreDurable'
  BY <1>2, <1>15 DEF Accept
<1>16. ASSUME NEW b \in Blocks, NewTip(b)
       PROVE  PromisedAreDurable'
  BY <1>2, <1>16 DEF NewTip
<1> QED BY <1>4, <1>5, <1>6, <1>7, <1>8, <1>9, <1>10, <1>11, <1>12, <1>13, <1>14, <1>15, <1>16
        DEF Next, WatchThread, ApiThread

THEOREM DurableInvariance ==
    SingleCustody /\ WholeDeletions /\ Spec => []DurableInv
<1>1. WholeDeletions /\ Init => DurableInv
  <2> SUFFICES ASSUME WholeDeletions, Init
               PROVE  DurableInv
    OBVIOUS
  <2>1. TrackersAreStored /\ PromisedAreDurable
    BY DEF Init, TrackersAreStored, PromisedAreDurable
  <2>2. FlagsFollowTrackers
    BY DEF Init, Idle, FlagsFollowTrackers
  <2> QED BY <2>1, <2>2 DEF DurableInv
<1>2. WatcherInv /\ DurableInv /\ [Next]_vars => DurableInv'
  BY TrackersStep, FlagsStep, DurableStep DEF DurableInv, WholeDeletions
<1> QED BY WatcherInvariance, <1>1, <1>2, PTL DEF Spec

(* A crash at any point loses nothing that a receipt is out for: the next  *)
(* start finds it as an appointment or as a tracker.                       *)
THEOREM PromisedAreDurableHolds ==
    SingleCustody /\ WholeDeletions /\ Spec => []PromisedAreDurable
<1>1. DurableInv => PromisedAreDurable
  BY DEF DurableInv
<1> QED BY DurableInvariance, <1>1, PTL

(* Nothing that is being watched carries a triggered flag, which would     *)
(* hide it from the next start, unless its tracker exists.                 *)
THEOREM FlaggedAreTriggeredHolds ==
    SingleCustody /\ WholeDeletions /\ Spec => []FlaggedAreTriggered
<1>1. WatcherInv /\ DurableInv => FlaggedAreTriggered
  <2> SUFFICES ASSUME WatcherInv, DurableInv, NEW u \in flags \cap appointments
               PROVE  u \in trackers
    BY DEF FlaggedAreTriggered
  <2>1. rdel.step \in {"dbw", "flags"} => rdel.u # u
    BY Shapes DEF WatcherInv, DeletionApart
  <2>2. trackers = dbr
    BY DEF WatcherInv, DownIsEmpty, DurableInv, TrackersAreStored
  <2> QED BY <2>1, <2>2 DEF DurableInv, FlagsFollowTrackers
<1> QED BY WatcherInvariance, DurableInvariance, <1>1, PTL

(* A crash at any step but inside the deletion of a tracker leaves each    *)
(* receipt an appointment or a tracker, and no flag that hides one, as     *)
(* long as trackers end only after the Watcher has flagged them.           *)
THEOREM PromisesSurviveHolds ==
    SingleCustody /\ WholeDeletions /\ Spec => []PromisesSurvive
BY PromisedAreDurableHolds, FlaggedAreTriggeredHolds, PTL DEF PromisesSurvive

(* add_appointment is answered by the window, whatever the Watcher and the *)
(* crashes around it do.                                                   *)
THEOREM WatcherCacheServes == SingleCustody /\ Spec => []CacheServes
BY ImplementsCache, CacheServesHolds, PTL

-----------------------------------------------------------------------------
(* What is watched is watched from its start_block on.                     *)

(* The chain is never left while the tower runs, is not left out by a      *)
(* tower that starts afresh, and requests wait for a cache.                *)
Steadfast == Rare \cap {"live reorg", "idle restart", "early api"} = {}

(* The dispute of u is in the chain of b, no earlier than a cache may have *)
(* forgotten by the time that it is asked for a request of height s.       *)
Late(u, b, s) ==
    \E i \in 1..Len(Path[b]) : i + CacheSize >= s + 4 /\ LocatorOf[u] \in TxsIn[Path[b][i]]

Clear(u, b) == ~Late(u, b, dbw[u].start)

(* The block that the watch thread is at.                                  *)
Now == IF pc \in {"init", "wait"} THEN last ELSE cur

(* c comes after a block of the chain of b.                                *)
Follows(b, c) == Len(Path[c]) > 1 /\ OnChain(Path[c][Len(Path[c]) - 1], b)

Onward(b, c) == Follows(b, c) /\ (up = "serving" => IsParent(b, c))

(* The blocks in the queue follow on each other and on the one that the    *)
(* thread is at, up to the tip.  A reorg shows only in the first block     *)
(* after a restart.                                                        *)
Line ==
    /\ up = "down" => queue = <<>> /\ pc = "init" /\ (NoData => tip = dbLast)
    /\ up # "down" =>
          /\ queue = <<>> => Now = tip
          /\ queue # <<>> => queue[Len(queue)] = tip /\ Onward(Now, queue[1])
          /\ \A i \in 1..(Len(queue) - 1) : IsParent(queue[i], queue[i + 1])
          /\ pc \in {"got", "fixed", "added", "trimmed"} => Onward(last, cur)
    /\ Height(last) <= Height(tip) /\ Height(cur) <= Height(tip)
    /\ \A i \in 1..Len(queue) : Height(queue[i]) <= Height(tip)

(* The last block on disk is the one that the Watcher has come to.         *)
Reached ==
    /\ dbLast = IF sec = "finish" THEN cur ELSE last
    /\ sec # "free" => pc = "trimmed"

(* What is on its way to be flagged has its tracker.                       *)
HeldAreTrackers ==
    /\ triggered \subseteq dbr
    /\ api.step \in {"store", "flag"} => api.u \in dbr

(* What a start would load, and the Responder does not have, is watched.   *)
LoadedAreWatched ==
    up # "down" => \A u \in Loaded : \/ u \in appointments \cup triggered
                                     \/ api.step \in {"store", "flag"} /\ api.u = u

(* A request is looked up one block after that it was accepted at, at the  *)
(* most.                                                                   *)
Soon ==
    api # Idle => /\ up = "serving" /\ pc # "init"
                  /\ Height(last) <= api.rec.start + (IF sec = "free" THEN 1 ELSE 0)

(* The blocks up to the one that is done with have been looked through.    *)
Looked ==
    /\ up = "down" => \A u \in Loaded \ dbr : Clear(u, last)
    /\ \A u \in appointments \ trackers :
          /\ Clear(u, last)
          /\ sec = "breaches" => Clear(u, cur) \/ u \in todo \cup dropped
          /\ sec = "drop" => Clear(u, cur) \/ u \in dropped
          /\ sec \in {"gatekeeper", "store", "finish"} => Clear(u, cur)

StartInv ==
    /\ Steadfast
    /\ Line
    /\ Reached
    /\ TrackersAreStored
    /\ HeldAreTrackers
    /\ LoadedAreWatched
    /\ Soon
    /\ Looked

-----------------------------------------------------------------------------
(* Numbers.                                                                *)

LEMMA Least ==
    ASSUME NEW T \in SUBSET Nat, T # {}
    PROVE  \E m \in T : \A n \in T : m <= n
<1> DEFINE R == OpToRel(<, Nat)
<1>1. IsWellFoundedOn(R, Nat)
  BY NatLessThanWellFounded, Zenon
<1>2. \A x, y \in Nat : x < y => <<x, y>> \in R
  BY DEF OpToRel
<1> HIDE DEF R
<1>3. PICK m \in T : \A n \in T : ~(<<n, m>> \in R)
  BY <1>1, WFMin
<1>4. \A n \in T : n \in Nat /\ m \in Nat /\ ~(n < m)
  BY <1>2, <1>3
<1>5. \A n \in T : m <= n
  BY <1>4
<1> QED BY <1>5

LEMMA Greatest ==
    ASSUME NEW T \in SUBSET Nat, T # {}, NEW b \in Nat, \A n \in T : n <= b
    PROVE  \E m \in T : \A n \in T : n <= m
<1> DEFINE U == {b - n : n \in T}
<1>1. \A n \in T : n \in Nat /\ n <= b /\ b - n \in Nat /\ b - n \in U
  OBVIOUS
<1>2. PICK u \in U : \A v \in U : u <= v
  BY <1>1, Least
<1>3. PICK m \in T : u = b - m
  BY <1>2
<1>4. \A n \in T : b - m <= b - n
  BY <1>1, <1>2, <1>3
<1>5. \A n \in T : n <= m
  BY <1>1, <1>4
<1> QED BY <1>5

-----------------------------------------------------------------------------
(* Chains.                                                                 *)

LEMMA PathIs ==
    ASSUME NEW b \in Blocks
    PROVE  /\ Path[b] \in Seq(Blocks) /\ Len(Path[b]) \in Nat /\ Len(Path[b]) > 0
           /\ DOMAIN Path[b] = 1..Len(Path[b]) /\ Path[b][Len(Path[b])] = b
           /\ \A i \in 1..Len(Path[b]) : Path[b][i] \in Blocks
           /\ OnChain(b, b)
<1>1. Path[b] \in Seq(Blocks) /\ Len(Path[b]) > 0 /\ Path[b][Len(Path[b])] = b
  BY PathAssumption
<1>2. Len(Path[b]) \in Nat /\ DOMAIN Path[b] = 1..Len(Path[b]) /\ \A i \in 1..Len(Path[b]) : Path[b][i] \in Blocks
  BY <1>1, LenProperties, ElementOfSeq
<1> QED BY <1>1, <1>2 DEF OnChain

(* The path to a block of the path is the part up to it.                   *)
LEMMA PathOn ==
    ASSUME NEW t \in Blocks, NEW i \in 1..Len(Path[t])
    PROVE  /\ Path[t][i] \in Blocks /\ OnChain(Path[t][i], t)
           /\ Len(Path[Path[t][i]]) = i
           /\ \A j \in 1..i : Path[Path[t][i]][j] = Path[t][j]
<1>1. /\ Path[t] \in Seq(Blocks) /\ Len(Path[t]) \in Nat /\ i \in DOMAIN Path[t]
      /\ \A j \in 1..Len(Path[t]) : Path[t][j] \in Blocks
  BY PathIs
<1>2. Path[Path[t][i]] = SubSeq(Path[t], 1, i)
  BY PathAssumption
<1>3. i \in Nat /\ i > 0 /\ \A j \in 1..i : Path[t][j] \in Blocks
  BY <1>1
<1>4. /\ Len(SubSeq(Path[t], 1, i)) = IF 1 <= i THEN i - 1 + 1 ELSE 0
      /\ \A j \in 1..(i - 1 + 1) : SubSeq(Path[t], 1, i)[j] = Path[t][1 + j - 1]
  BY <1>1, <1>3, SubSeqProperties
<1>5. ASSUME NEW j \in 1..i PROVE SubSeq(Path[t], 1, i)[j] = Path[t][j]
  <2>1. j \in 1..(i - 1 + 1) /\ 1 + j - 1 = j
    BY <1>3
  <2> QED BY <1>4, <2>1
<1> QED BY <1>1, <1>2, <1>3, <1>4, <1>5 DEF OnChain

LEMMA OnChainIs ==
    ASSUME NEW a, NEW t \in Blocks, OnChain(a, t)
    PROVE  /\ a \in Blocks /\ Len(Path[a]) \in 1..Len(Path[t]) /\ Path[t][Len(Path[a])] = a
           /\ \A j \in 1..Len(Path[a]) : Path[a][j] = Path[t][j]
<1>1. PICK i \in 1..Len(Path[t]) : Path[t][i] = a
  BY PathIs DEF OnChain
<1> QED BY <1>1, PathOn

(* Each block of a chain is the parent of the next.                        *)
LEMMA Neighbours ==
    ASSUME NEW t \in Blocks, NEW i \in 1..Len(Path[t]), i + 1 \in 1..Len(Path[t])
    PROVE  IsParent(Path[t][i], Path[t][i + 1])
<1>1. PICK k \in 1..Len(Path[t]) : k = i + 1
  OBVIOUS
<1>2. Len(Path[Path[t][k]]) = k /\ \A j \in 1..k : Path[Path[t][k]][j] = Path[t][j]
  BY PathOn
<1>3. k - 1 = i /\ i \in 1..k /\ k > 1
  BY <1>1
<1> QED BY <1>1, <1>2, <1>3 DEF IsParent

LEMMA FollowsIs ==
    ASSUME NEW b \in Blocks, NEW c \in Blocks, Follows(b, c)
    PROVE  /\ Len(Path[c]) - 1 \in 1..Len(Path[b])
           /\ \A j \in 1..(Len(Path[c]) - 1) : Path[c][j] = Path[b][j]
           /\ Height(c) <= Height(b) + 1
<1>0. Len(Path[c]) \in Nat /\ Len(Path[c]) > 1 /\ Len(Path[b]) \in Nat
  BY PathIs DEF Follows
<1>0a. Len(Path[c]) - 1 \in 1..Len(Path[c])
  BY <1>0
<1>1. PICK n \in 1..Len(Path[c]) : n = Len(Path[c]) - 1
  BY <1>0a
<1>2. OnChain(Path[c][n], b)
  BY <1>1 DEF Follows
<1>3. Len(Path[Path[c][n]]) = n /\ \A j \in 1..n : Path[Path[c][n]][j] = Path[c][j]
  BY PathOn
<1>4. n \in 1..Len(Path[b]) /\ \A j \in 1..n : Path[Path[c][n]][j] = Path[b][j]
  BY <1>2, <1>3, OnChainIs
<1>5. \A j \in 1..(Len(Path[c]) - 1) : Path[c][j] = Path[b][j]
  BY <1>1, <1>3, <1>4
<1>6. Len(Path[c]) - 1 <= Len(Path[b]) - 1 + 1
  <2>1. n \in Nat /\ n <= Len(Path[b])
    BY <1>0, <1>4
  <2> QED BY <1>0, <1>1, <2>1
<1> QED BY <1>1, <1>4, <1>5, <1>6 DEF Height

LEMMA ParentFollows ==
    ASSUME NEW b \in Blocks, NEW c \in Blocks, IsParent(b, c)
    PROVE  Follows(b, c) /\ Onward(b, c) /\ Height(c) = Height(b) + 1
<1>1. Len(Path[b]) = Len(Path[c]) - 1 /\ Len(Path[c]) \in Nat
  BY ParentPath, PathIs
<1>2. OnChain(b, b)
  BY PathIs
<1> QED BY <1>1, <1>2 DEF IsParent, Follows, Onward, Height

LEMMA Ancestor ==
    ASSUME NEW b \in Blocks, NEW t \in Blocks
    PROVE  LET a == find_last_common_ancestor(b, t)
           IN  a \in Blocks /\ OnChain(a, b) /\ OnChain(a, t)
<1> DEFINE C == {a \in Blocks : OnChain(a, b) /\ OnChain(a, t)}
           H == {Height(a) : a \in C}
           Is(a) == /\ OnChain(a, b) /\ OnChain(a, t)
                    /\ \A c \in Blocks : OnChain(c, b) /\ OnChain(c, t) => Height(c) <= Height(a)
<1>1. Path[b][1] \in C
  <2>1. 1 \in DOMAIN Path[b] /\ 1 \in DOMAIN Path[t] /\ Path[b][1] \in Blocks /\ Path[b][1] = Path[t][1]
    BY PathIs, GenesisAssumption
  <2> QED BY <2>1 DEF OnChain
<1>2. Len(Path[b]) \in Nat /\ \A a \in C : Height(a) \in Nat /\ Height(a) <= Len(Path[b])
  <2>1. Len(Path[b]) \in Nat
    BY PathIs
  <2>2. \A a \in C : Len(Path[a]) \in 1..Len(Path[b])
    BY OnChainIs
  <2> QED BY <2>1, <2>2 DEF Height
<1>3. H \in SUBSET Nat /\ H # {} /\ \A n \in H : n <= Len(Path[b])
  BY <1>1, <1>2
<1>4. PICK m \in H : \A n \in H : n <= m
  BY <1>2, <1>3, Greatest
<1>5. PICK a \in C : m = Height(a)
  BY <1>4
<1>6. a \in Blocks /\ Is(a)
  BY <1>4, <1>5
<1>7. \E x \in Blocks : Is(x)
  BY <1>6
<1>8. find_last_common_ancestor(b, t) = CHOOSE x \in Blocks : Is(x)
  BY DEF find_last_common_ancestor
<1> HIDE DEF Is
<1>9. (CHOOSE x \in Blocks : Is(x)) \in Blocks /\ Is(CHOOSE x \in Blocks : Is(x))
  BY <1>7
<1> QED BY <1>8, <1>9 DEF Is

(* The blocks missed since b: the chain from its last block on the best    *)
(* one to the tip.                                                         *)
LEMMA Missed ==
    ASSUME NEW b \in Blocks, NEW t \in Blocks, Height(b) <= Height(t)
    PROVE  LET q == get_missed_blocks(find_last_common_ancestor(b, t), t)
           IN  /\ q \in Seq(Blocks)
               /\ q = <<>> => b = t
               /\ q # <<>> => q[Len(q)] = t /\ Follows(b, q[1])
               /\ \A i \in 1..(Len(q) - 1) : IsParent(q[i], q[i + 1])
               /\ \A i \in 1..Len(q) : Height(q[i]) <= Height(t)
<1>1. PICK a \in Blocks : a = find_last_common_ancestor(b, t) /\ OnChain(a, b) /\ OnChain(a, t)
  BY Ancestor
<1>2. PICK n \in 1..Len(Path[t]) : n = Len(Path[a]) /\ Path[t][n] = a /\ n \in 1..Len(Path[b]) /\ Path[b][n] = a
  BY <1>1, OnChainIs
<1>3. PICK m \in Nat : m = Len(Path[t]) /\ Path[t][m] = t
  BY PathIs
<1>4. PICK q : q = get_missed_blocks(a, t)
  OBVIOUS
<1>5. q = SubSeq(Path[t], n + 1, m)
  BY <1>1, <1>2, <1>3, <1>4 DEF get_missed_blocks
<1>6. q \in Seq(Blocks)
  BY <1>4, MissedAreBlocks
<1>7. Len(q) = m - n /\ \A i \in 1..Len(q) : q[i] = Path[t][n + i]
  <2>1. n \in 1..m /\ Path[t] \in Seq(Blocks) /\ \A i \in 1..m : Path[t][i] \in Blocks
    BY <1>2, <1>3, PathIs
  <2>2. \A i \in (n + 1)..m : Path[t][i] \in Blocks
    BY <2>1
  <2>3. /\ Len(SubSeq(Path[t], n + 1, m)) = IF n + 1 <= m THEN m - (n + 1) + 1 ELSE 0
        /\ \A i \in 1..(m - (n + 1) + 1) : SubSeq(Path[t], n + 1, m)[i] = Path[t][n + 1 + i - 1]
    BY <2>1, <2>2, SubSeqProperties
  <2>4. n + 1 <= m \/ n = m
    BY <2>1
  <2>5. Len(q) = m - n
    BY <1>5, <2>1, <2>3, <2>4
  <2>6. ASSUME NEW i \in 1..Len(q) PROVE q[i] = Path[t][n + i]
    <3>1. i \in 1..(m - (n + 1) + 1) /\ n + 1 + i - 1 = n + i
      BY <2>1, <2>5
    <3> QED BY <1>5, <2>3, <3>1
  <2> QED BY <2>5, <2>6
<1>8. n \in Nat /\ n <= m /\ Len(q) = m - n /\ Len(q) \in Nat
  BY <1>2, <1>3, <1>7
<1>0a. \A i \in 1..Len(q) : n + i \in 1..m
  BY <1>3, <1>8
<1>9. \A i \in 1..(Len(q) - 1) : IsParent(q[i], q[i + 1])
  <2> TAKE i \in 1..(Len(q) - 1)
  <2>1. i \in 1..Len(q) /\ i + 1 \in 1..Len(q) /\ n + (i + 1) = (n + i) + 1
    BY <1>8
  <2>2. PICK k \in 1..m : k = n + i
    BY <1>0a, <2>1
  <2>3. q[i] = Path[t][k] /\ q[i + 1] = Path[t][k + 1] /\ k + 1 \in 1..m
    BY <1>7, <1>0a, <2>1, <2>2
  <2> QED BY <1>3, <2>2, <2>3, Neighbours
<1>10. \A i \in 1..Len(q) : Height(q[i]) <= Height(t)
  <2> TAKE i \in 1..Len(q)
  <2>1. PICK k \in 1..m : k = n + i
    BY <1>0a
  <2>2. q[i] = Path[t][k]
    BY <1>7, <2>1
  <2>3. Len(Path[q[i]]) = k
    BY <1>3, <2>2, PathOn
  <2> QED BY <1>3, <2>3 DEF Height
<1>11. ASSUME q = <<>> PROVE b = t
  <2>1. n = m
    BY <1>2, <1>3, <1>7, <1>11
  <2>2. a = t
    BY <1>2, <1>3, <2>1
  <2>3. Len(Path[b]) = n
    <3>1. Len(Path[b]) \in Nat /\ Len(Path[b]) - 1 <= m - 1 /\ n <= Len(Path[b])
      BY <1>2, <1>3, PathIs DEF Height
    <3> QED BY <1>2, <2>1, <3>1
  <2> QED BY <1>2, <2>2, <2>3, PathIs
<1>12. ASSUME q # <<>> PROVE q[Len(q)] = t /\ Follows(b, q[1])
  <2>1. Len(q) \in Nat /\ Len(q) > 0
    BY <1>6, <1>12, LenProperties, EmptySeq
  <2>2. 1 \in 1..Len(q) /\ Len(q) \in 1..Len(q) /\ n + Len(q) = m
    BY <1>3, <1>8, <2>1
  <2>3. q[Len(q)] = t
    BY <1>3, <1>7, <2>2
  <2>4. PICK k \in 1..m : k = n + 1
    BY <1>0a, <2>2
  <2>5. q[1] = Path[t][k]
    BY <1>7, <2>2, <2>4
  <2>6. Len(Path[q[1]]) = k /\ \A j \in 1..k : Path[q[1]][j] = Path[t][j]
    BY <1>3, <2>5, PathOn
  <2>7. k > 1 /\ k - 1 = n /\ n \in 1..k
    BY <1>2, <2>4
  <2>8. Path[q[1]][Len(Path[q[1]]) - 1] = a
    BY <1>2, <2>6, <2>7
  <2> QED BY <1>1, <2>3, <2>6, <2>7, <2>8 DEF Follows
<1> QED BY <1>1, <1>4, <1>6, <1>9, <1>10, <1>11, <1>12

-----------------------------------------------------------------------------
(* One lemma for each part.                                                *)

LEMMA LineStep == WatcherInv /\ StartInv /\ [Next]_vars => Line'
<1> SUFFICES ASSUME WatcherInv, StartInv, [Next]_vars
             PROVE  Line'
  OBVIOUS
<1>0. TypeOK /\ DownIsEmpty /\ Line /\ Reached /\ TypeOK'
  BY TypeStep DEF WatcherInv, StartInv
<1>1. /\ tip \in Blocks /\ last \in Blocks /\ cur \in Blocks /\ dbLast \in Blocks
      /\ pc # "dead" /\ Rare \cap {"live reorg", "idle restart", "early api"} = {}
  BY <1>0 DEF TypeOK, CacheTypeOK, WatcherInv, CacheInv, NeverKeyError, StartInv, Steadfast
<1>1q. /\ queue \in Seq(Blocks) /\ Len(queue) \in Nat /\ (queue # <<>> => Len(queue) > 0)
       /\ \A i \in 1..Len(queue) : queue[i] \in Blocks
  <2>1. queue \in Seq(Blocks)
    BY <1>0 DEF TypeOK
  <2> QED BY <2>1, LenProperties, EmptySeq, ElementOfSeq
<1>2. ASSUME UNCHANGED <<tip, queue, up, last, cur>>, Now' = Now,
             up = "down" => pc' = pc /\ dbLast' = dbLast /\ (NoData' => NoData),
             pc' \in {"got", "fixed", "added", "trimmed"} => pc \in {"got", "fixed", "added", "trimmed"}
      PROVE  Line'
  <2> DEFINE Last(q) == q[Len(q)]
  <2>1. queue' = queue /\ tip' = tip /\ up' = up /\ last' = last /\ cur' = cur /\ Now' = Now
    BY <1>2
  <2>2. \A b, c : Onward(b, c)' <=> Onward(b, c)
    BY <2>1 DEF Onward, Follows
  <2> QED BY <1>0, <1>2, <2>1, <2>2 DEF Line, Onward, Follows
<1>3. ASSUME UNCHANGED <<tip, queue, up, last, cur, pc>>, up # "down"
      PROVE  Line'
  BY <1>2, <1>3 DEF Now
<1>4. ASSUME NEW b \in Blocks, NewTip(b)
      PROVE  Line'
  <2>1. Height(b) > Height(tip) /\ tip' = b /\ UNCHANGED <<last, cur, pc, up, dbLast, dbw, flags, dbr>>
    BY <1>4 DEF NewTip, cacheVars, dbVars
  <2>2. Now' = Now /\ Now \in Blocks
    BY <1>1, <2>1 DEF Now
  <2>3. \A x, c : Onward(x, c)' <=> Onward(x, c)
    BY <2>1 DEF Onward, Follows
  <2>4. /\ Height(last) <= Height(b) /\ Height(cur) <= Height(b)
        /\ \A i \in 1..Len(queue) : Height(queue[i]) <= Height(b)
    <3>1. Height(tip) \in Nat /\ Height(b) \in Nat
      BY <1>1, HeightIsNat
    <3>2. ASSUME NEW x \in Blocks, Height(x) <= Height(tip) PROVE Height(x) <= Height(b)
      <4>1. Height(x) \in Nat
        BY HeightIsNat
      <4> QED BY <2>1, <3>1, <3>2, <4>1
    <3> QED BY <1>0, <1>1, <1>1q, <3>2 DEF Line
  <2>5. CASE up = "down"
    <3>1. ~NoData /\ queue' = queue /\ (NoData' <=> NoData)
      BY <1>1, <1>4, <2>1, <2>5 DEF NewTip, NoData, Loaded
    <3> QED BY <1>0, <2>1, <2>4, <2>5, <3>1 DEF Line
  <2>6. CASE up # "down"
    <3>1. IsParent(tip, b) /\ queue' = Append(queue, b)
      BY <1>1, <1>4, <2>6 DEF NewTip
    <3>2. PICK n \in Nat : n = Len(queue)
      BY <1>1q
    <3>3. PICK q \in Seq(Blocks) : q = queue'
      BY <1>0 DEF TypeOK
    <3>4. /\ Len(q) = n + 1 /\ q[n + 1] = b /\ \A i \in 1..n : q[i] = queue[i]
          /\ q # <<>>
      <4>1. \A s \in Seq(Blocks) : /\ Len(Append(s, b)) = Len(s) + 1 /\ Append(s, b)[Len(s) + 1] = b
                                   /\ \A i \in 1..Len(s) : Append(s, b)[i] = s[i]
                                   /\ Append(s, b) # <<>>
        BY AppendProperties
      <4> QED BY <1>1q, <3>1, <3>2, <3>3, <4>1
    <3>5. Onward(tip, b)
      BY <1>1, <3>1, ParentFollows
    <3>6. Onward(Now, q[1])
      <4>1. CASE queue = <<>>
        <5>1. n = 0 /\ Now = tip
          BY <1>0, <2>6, <3>2, <4>1 DEF Line
        <5> QED BY <3>4, <3>5, <5>1
      <4>2. CASE queue # <<>>
        <5>1. n > 0
          BY <1>1q, <3>2, <4>2
        <5>2. 1 \in 1..n
          BY <5>1
        <5> QED BY <1>0, <2>6, <3>4, <4>2, <5>2 DEF Line
      <4> QED BY <4>1, <4>2
    <3>7. ASSUME NEW i \in 1..(Len(q) - 1)
          PROVE  IsParent(q[i], q[i + 1])
      <4>1. CASE i = n
        <5>1. n > 0 /\ i \in 1..n
          BY <3>4, <4>1
        <5>2. queue # <<>>
          BY <1>1q, <3>2, <5>1, EmptySeq
        <5>3. queue[n] = tip
          BY <1>0, <2>6, <3>2, <5>2 DEF Line
        <5> QED BY <3>1, <3>4, <4>1, <5>1, <5>3
      <4>2. CASE i # n
        <5>1. i \in 1..n /\ i + 1 \in 1..n /\ i \in 1..(n - 1)
          BY <3>4, <4>2
        <5>2. IsParent(queue[i], queue[i + 1])
          BY <1>0, <2>6, <3>2, <5>1 DEF Line
        <5> QED BY <3>4, <5>1, <5>2
      <4> QED BY <4>1, <4>2
    <3>8. \A i \in 1..Len(q) : Height(q[i]) <= Height(b)
      <4> TAKE i \in 1..Len(q)
      <4>1. i = n + 1 \/ i \in 1..n
        BY <3>4
      <4>2. Height(b) <= Height(b)
        BY HeightIsNat
      <4> QED BY <2>4, <3>2, <3>4, <4>1, <4>2
    <3>9. q[Len(q)] = b
      BY <3>4
    <3> HIDE DEF Onward
    <3> QED BY <1>0, <2>1, <2>2, <2>3, <2>4, <2>6, <3>3, <3>4, <3>6, <3>7, <3>8, <3>9 DEF Line
  <2> QED BY <2>5, <2>6
<1>5. CASE WatchCache
  <2>1. up # "down" /\ UNCHANGED <<tip, queue, up, last, cur>>
    BY <1>5 DEF WatchCache, Running, feedVars, InitBlock, InitDone, Fix, Update, Trim
  <2>2. \/ pc' = pc
        \/ pc = "init" /\ pc' = "wait"
        \/ pc \in {"got", "fixed", "added"} /\ pc' \in {"fixed", "added", "trimmed", "dead"}
    BY <1>5 DEF WatchCache, InitBlock, InitDone, Fix, Update, Trim
  <2> QED BY <1>2, <2>1, <2>2 DEF Now
<1>6. CASE WatchGet
  <2>1. /\ up # "down" /\ queue # <<>> /\ pc = "wait" /\ pc' = "got"
        /\ cur' = Head(queue) /\ queue' = Tail(queue) /\ UNCHANGED <<tip, up, last>>
    BY <1>6 DEF WatchGet, Running, Get
  <2>2. PICK n \in Nat : n = Len(queue) /\ n > 0
    BY <1>1q, <2>1
  <2>3. PICK q \in Seq(Blocks) : q = queue'
    BY <1>0 DEF TypeOK
  <2>4. PICK c \in Blocks : c = queue[1] /\ cur' = c
    BY <1>1q, <2>1, <2>2
  <2>5. Len(q) = n - 1 /\ \A i \in 1..Len(q) : q[i] = queue[i + 1]
    <3>1. \A s \in Seq(Blocks) : s # <<>> => /\ Len(Tail(s)) = Len(s) - 1
                                           /\ \A i \in 1..Len(Tail(s)) : Tail(s)[i] = s[i + 1]
      BY HeadTailProperties
    <3> QED BY <1>1q, <2>1, <2>2, <2>3, <3>1
  <2>6. Now = last /\ Now' = c
    BY <2>1, <2>4 DEF Now
  <2>7. \A x, y : Onward(x, y)' <=> Onward(x, y)
    BY <2>1 DEF Onward, Follows
  <2>8. Onward(last, c)
    BY <1>0, <2>1, <2>4, <2>6 DEF Line
  <2>9. \A i \in 1..(n - 1) : IsParent(queue[i], queue[i + 1])
    BY <1>0, <2>1, <2>2 DEF Line
  <2>10. \A i \in 1..n : Height(queue[i]) <= Height(tip)
    BY <1>0, <2>2 DEF Line
  <2>11. ASSUME q = <<>> PROVE c = tip
    <3>1. n = 1
      <4>1. Len(q) = 0
        BY <2>11, EmptySeq
      <4>2. n - 1 = 0
        BY <2>5, <4>1
      <4> QED BY <4>2
    <3> QED BY <1>0, <2>1, <2>2, <2>4, <3>1 DEF Line
  <2>12. ASSUME q # <<>> PROVE q[Len(q)] = tip /\ Onward(c, q[1])
    <3>1. Len(q) > 0 /\ Len(q) + 1 = n
      <4>1. Len(q) \in Nat \ {0}
        BY <2>3, <2>12, EmptySeq
      <4> QED BY <2>2, <2>5, <4>1
    <3>2. 1 \in 1..Len(q) /\ Len(q) \in 1..Len(q) /\ 1 \in 1..(n - 1) /\ 2 \in 1..n
      BY <2>2, <3>1
    <3>3. q[Len(q)] = queue[n] /\ q[1] = queue[2]
      BY <2>5, <3>1, <3>2
    <3>4. queue[n] = tip
      BY <1>0, <2>1, <2>2 DEF Line
    <3>5. IsParent(c, q[1]) /\ q[1] \in Blocks
      <4>1. IsParent(queue[1], queue[1 + 1])
        BY <2>9, <3>2
      <4>2. 1 + 1 = 2
        OBVIOUS
      <4> QED BY <1>1q, <2>2, <2>4, <3>2, <3>3, <4>1, <4>2
    <3> QED BY <3>3, <3>4, <3>5, ParentFollows
  <2>13. \A i \in 1..(Len(q) - 1) : IsParent(q[i], q[i + 1])
    <3> TAKE i \in 1..(Len(q) - 1)
    <3>1. PICK k \in 1..(n - 1) : k = i + 1 /\ i \in 1..Len(q) /\ k \in 1..Len(q)
      BY <2>2, <2>5
    <3> QED BY <2>5, <2>9, <3>1
  <2>14. \A i \in 1..Len(q) : Height(q[i]) <= Height(tip)
    <3> TAKE i \in 1..Len(q)
    <3>1. PICK k \in 1..n : k = i + 1
      BY <2>2, <2>5
    <3> QED BY <2>5, <2>10, <3>1
  <2>15. Height(c) <= Height(tip) /\ Height(last) <= Height(tip)
    BY <1>0, <2>2, <2>4, <2>10 DEF Line
  <2> HIDE DEF Onward
  <2> QED BY <2>1, <2>3, <2>4, <2>6, <2>7, <2>8, <2>11, <2>12, <2>13, <2>14, <2>15 DEF Line
<1>7. CASE Enter
  <2>1. UNCHANGED <<cacheVars, tip, queue, up>> /\ up # "down"
    <3>1. ASSUME NEW S, S \subseteq appointments
          PROVE  \A u \in get_breaches(S) : dbw[u] # None
      BY <1>0, <3>1, BreachesAreWatched DEF WatcherInv, WatchedAreStored
    <3> QED BY <1>7, <3>1 DEF Enter, Running, feedVars, cacheVars
  <2> QED BY <1>3, <2>1 DEF cacheVars
<1>8. ASSUME NEW u \in Appts, HandOver(u)
      PROVE  Line'
  <2>1. up # "down"
    BY <1>0, <1>8 DEF HandOver, DownIsEmpty
  <2> QED BY <1>3, <1>8, <2>1 DEF HandOver, cacheVars, feedVars
<1>9. CASE FlagTriggered \/ DeleteDropped \/ FreeSlots \/ StoreLast
  <2>1. up # "down"
    BY <1>0, <1>9 DEF FlagTriggered, DeleteDropped, FreeSlots, StoreLast, DownIsEmpty
  <2> QED BY <1>3, <1>9, <2>1 DEF FlagTriggered, DeleteDropped, FreeSlots, StoreLast, cacheVars, feedVars
<1>10. CASE Finish
  <2>1. /\ up # "down" /\ pc = "trimmed" /\ pc' = "wait" /\ last' = cur
        /\ UNCHANGED <<tip, queue, up, cur>>
    BY <1>0, <1>10 DEF Finish, DownIsEmpty, Done, feedVars
  <2>2. Now' = Now
    BY <2>1 DEF Now
  <2>3. \A x, c : Onward(x, c)' <=> Onward(x, c)
    BY <2>1 DEF Onward, Follows
  <2> HIDE DEF Onward
  <2> QED BY <1>0, <2>1, <2>2, <2>3 DEF Line
<1>11. ASSUME NEW u \in Appts, NEW ok \in BOOLEAN, Accept(u, ok)
       PROVE  Line'
  BY <1>3, <1>11 DEF Accept, cacheVars, feedVars
<1>12. CASE ApiThread
  <2>1. up # "down"
    BY <1>0, <1>12, ApiActs DEF DownIsEmpty
  <2> QED BY <1>3, <1>12, <2>1 DEF ApiThread, Watch, Trigger, StoreTriggered, FlagStored, Sign, cacheVars, feedVars
<1>13. ASSUME NEW u \in Appts, DeleteTracker(u)
       PROVE  Line'
  BY <1>3, <1>13 DEF DeleteTracker, Running, cacheVars, feedVars
<1>14. CASE DeleteTriggered
  <2>1. up # "down"
    BY <1>0, <1>14, DeletionActs DEF DownIsEmpty
  <2> QED BY <1>3, <1>14, <2>1 DEF DeleteTriggered, cacheVars, feedVars
<1>15. CASE Crash
  <2>1. /\ up' = "down" /\ queue' = <<>> /\ pc' = "init" /\ last' = dbLast /\ cur' = dbLast
        /\ UNCHANGED <<tip, dbLast, dbw, flags, dbr>>
        /\ NoData => tip = dbLast
    BY <1>1, <1>15 DEF Crash, StartAt, dbVars
  <2>2. NoData' <=> NoData
    BY <2>1 DEF NoData, Loaded
  <2>3. Height(dbLast) <= Height(tip)
    BY <1>0 DEF Reached, Line
  <2>4. Len(queue') = 0
    BY <2>1
  <2>5. \A i \in 1..Len(queue') : FALSE
    BY <2>4
  <2> QED BY <2>1, <2>2, <2>3, <2>5 DEF Line
<1>16. CASE Boot
  <2>1. /\ up = "down" /\ queue = <<>> /\ pc = "init" /\ dbLast = last /\ Now = last
        /\ UNCHANGED <<tip, last, cur, pc>>
    BY <1>0, <1>16 DEF Boot, cacheVars, Line, Reached, DownIsEmpty, Now
  <2>2. Now' = last
    BY <2>1 DEF Now
  <2>3. Height(last) <= Height(tip) /\ Height(cur) <= Height(tip)
    BY <1>0 DEF Line
  <2>4. CASE NoData
    <3>1. queue' = <<>> /\ up' # "down" /\ last = tip
      BY <1>0, <1>16, <2>1, <2>4 DEF Boot, Line
    <3>2. Len(queue') = 0
      BY <3>1
    <3>3. \A i \in 1..Len(queue') : FALSE
      BY <3>2
    <3>4. \A i \in 1..(Len(queue') - 1) : FALSE
      BY <3>2
    <3> QED BY <2>1, <2>2, <2>3, <3>1, <3>3, <3>4 DEF Line
  <2>5. CASE ~NoData
    <3>1. up' = "boot" /\ queue' = get_missed_blocks(find_last_common_ancestor(last, tip), tip)
      BY <1>16, <2>1, <2>5 DEF Boot
    <3>2. PICK q \in Seq(Blocks) : q = queue'
      BY <1>0 DEF TypeOK
    <3>3. /\ q = <<>> => last = tip
          /\ q # <<>> => q[Len(q)] = tip /\ Follows(last, q[1])
          /\ \A i \in 1..(Len(q) - 1) : IsParent(q[i], q[i + 1])
          /\ \A i \in 1..Len(q) : Height(q[i]) <= Height(tip)
      BY <1>1, <2>3, <3>1, <3>2, Missed
    <3>4. q # <<>> => Onward(last, q[1])'
      BY <2>1, <3>1, <3>3 DEF Onward, Follows
    <3> HIDE DEF Onward
    <3> QED BY <2>1, <2>2, <2>3, <3>1, <3>2, <3>3, <3>4 DEF Line
  <2> QED BY <2>4, <2>5
<1>17. CASE Serve
  <2>1. /\ up = "boot" /\ queue = <<>> /\ pc = "wait" /\ up' = "serving"
        /\ UNCHANGED <<tip, queue, last, cur, pc>>
    BY <1>17 DEF Serve, cacheVars
  <2>2. Now' = Now
    BY <2>1 DEF Now
  <2> QED BY <1>0, <2>1, <2>2 DEF Line
<1>18. CASE UNCHANGED vars
  BY <1>2, <1>18 DEF vars, feedVars, cacheVars, dbVars, Now, NoData, Loaded
<1> QED BY <1>4, <1>5, <1>6, <1>7, <1>8, <1>9, <1>10, <1>11, <1>12, <1>13, <1>14, <1>15, <1>16, <1>17, <1>18
        DEF Next, WatchThread

LEMMA ReachedStep == WatcherInv /\ StartInv /\ [Next]_vars => Reached'
<1> SUFFICES ASSUME WatcherInv, StartInv, [Next]_vars
             PROVE  Reached'
  OBVIOUS
<1>0. TypeOK /\ DownIsEmpty /\ Reached
  BY DEF WatcherInv, StartInv
<1>1. ASSUME UNCHANGED <<last, cur, pc, sec, dbLast>>
      PROVE  Reached'
  BY <1>0, <1>1 DEF Reached
<1>2. ASSUME NEW b \in Blocks, NewTip(b)
      PROVE  Reached'
  BY <1>1, <1>2 DEF NewTip, cacheVars, secVars, dbVars
<1>3. CASE WatchCache
  <2>1. pc # "trimmed" /\ UNCHANGED <<last, cur, sec, dbLast>>
    BY <1>3 DEF WatchCache, InitBlock, InitDone, Fix, Update, Trim, secVars, dbVars
  <2> QED BY <1>0, <2>1 DEF Reached
<1>4. CASE WatchGet
  <2>1. pc = "wait" /\ UNCHANGED <<last, sec, dbLast>>
    BY <1>4 DEF WatchGet, Get, secVars, dbVars
  <2> QED BY <1>0, <2>1 DEF Reached
<1>5. CASE Enter
  <2>0. ASSUME NEW S, S \subseteq appointments
        PROVE  \A u \in get_breaches(S) : dbw[u] # None
    BY <1>0, <2>0, BreachesAreWatched DEF WatcherInv, WatchedAreStored
  <2>1. /\ pc = "trimmed" /\ sec = "free" /\ sec' \in {"store", "breaches"}
        /\ UNCHANGED <<last, cur, pc, dbLast>>
    BY <1>5, <2>0 DEF Enter
  <2> QED BY <1>0, <2>1 DEF Reached
<1>6. ASSUME NEW u \in Appts, HandOver(u) \/ DeleteTracker(u)
      PROVE  Reached'
  BY <1>1, <1>6 DEF HandOver, DeleteTracker, cacheVars, secVars
<1>7. CASE FlagTriggered \/ DeleteDropped \/ FreeSlots
  <2>1. /\ sec \notin {"free", "finish"} /\ sec' \notin {"free", "finish"}
        /\ UNCHANGED <<last, cur, pc, dbLast>>
    BY <1>7 DEF FlagTriggered, DeleteDropped, FreeSlots, cacheVars, dbVars
  <2> QED BY <1>0, <2>1 DEF Reached
<1>8. CASE StoreLast
  BY <1>0, <1>8 DEF StoreLast, cacheVars, Reached
<1>9. CASE Finish
  BY <1>0, <1>9 DEF Finish, Done, dbVars, Reached
<1>10. ASSUME NEW u \in Appts, NEW ok \in BOOLEAN, Accept(u, ok)
       PROVE  Reached'
  BY <1>1, <1>10 DEF Accept, cacheVars, secVars, dbVars
<1>11. CASE ApiThread
  BY <1>1, <1>11 DEF ApiThread, Watch, Trigger, StoreTriggered, FlagStored, Sign, cacheVars, secVars, dbVars
<1>12. CASE DeleteTriggered \/ Boot \/ Serve
  BY <1>1, <1>12 DEF DeleteTriggered, Boot, Serve, cacheVars, secVars, dbVars
<1>13. CASE Crash
  BY <1>13 DEF Crash, StartAt, dbVars, Reached
<1>14. CASE UNCHANGED vars
  BY <1>1, <1>14 DEF vars, cacheVars, secVars, dbVars
<1> QED BY <1>2, <1>3, <1>4, <1>5, <1>6, <1>7, <1>8, <1>9, <1>10, <1>11, <1>12, <1>13, <1>14
        DEF Next, WatchThread

LEMMA HeldStep == WatcherInv /\ StartInv /\ [Next]_vars => HeldAreTrackers'
<1> SUFFICES ASSUME WatcherInv, StartInv, [Next]_vars
             PROVE  HeldAreTrackers'
  OBVIOUS
<1> USE DEF secVars, respVars, dbVars, feedVars
<1>1. TypeOK /\ HeldAreTrackers
  BY DEF WatcherInv, StartInv
<1>2. CASE UNCHANGED <<triggered, api>> /\ dbr \subseteq dbr'
  BY <1>1, <1>2 DEF HeldAreTrackers
<1>3. ASSUME NEW u \in Appts, HandOver(u)
      PROVE  HeldAreTrackers'
  <2>1. api' = api
    BY <1>3 DEF HandOver
  <2>2. \/ dbr' = dbr \cup {u} /\ triggered' = triggered \cup {u}
        \/ dbr' = dbr /\ triggered' = triggered
    BY <1>3 DEF HandOver, AddTracker
  <2> QED BY <1>1, <2>1, <2>2 DEF HeldAreTrackers
<1>4. CASE FlagTriggered
  BY <1>1, <1>4 DEF FlagTriggered, HeldAreTrackers
<1>5. ASSUME NEW u \in Appts, NEW ok \in BOOLEAN, Accept(u, ok)
      PROVE  HeldAreTrackers'
  BY <1>1, <1>5 DEF Accept, HeldAreTrackers
<1>6. CASE Watch \/ FlagStored \/ Sign
  <2>1. api'.step \notin {"store", "flag"}
    BY <1>1, <1>6, Shapes DEF Watch, FlagStored, Sign, Idle
  <2>2. UNCHANGED <<triggered, dbr>>
    BY <1>6 DEF Watch, FlagStored, Sign
  <2> QED BY <1>1, <2>1, <2>2 DEF HeldAreTrackers
<1>7. CASE Trigger
  <2>1. api'.u = api.u
    <3>1. api' # Idle
      BY <1>1, <1>7, Shapes DEF Trigger, Idle
    <3> QED BY <1>1, <1>7, <3>1, ApiActs DEF ApiThread
  <2>2. \/ api'.step = "store" /\ dbr' = dbr \cup {api.u}
        \/ api'.step = "sign" /\ dbr' = dbr
    BY <1>1, <1>7, Shapes DEF Trigger, AddTracker
  <2>3. triggered' = triggered
    BY <1>7 DEF Trigger
  <2> QED BY <1>1, <2>1, <2>2, <2>3 DEF HeldAreTrackers
<1>8. CASE StoreTriggered
  <2>1. api.u \in dbr /\ api'.u = api.u
    <3>1. api' # Idle
      BY <1>1, <1>8, Shapes DEF StoreTriggered, Idle
    <3> QED BY <1>1, <1>8, <3>1, ApiActs DEF ApiThread, StoreTriggered, HeldAreTrackers
  <2>2. UNCHANGED <<triggered, dbr>>
    BY <1>8 DEF StoreTriggered
  <2> QED BY <1>1, <2>1, <2>2 DEF HeldAreTrackers
<1>9. ASSUME NEW u \in Appts, DeleteTracker(u)
      PROVE  HeldAreTrackers'
  <2>1. /\ u \notin triggered /\ (api # Idle => api.u # u)
        /\ dbr' = dbr \ {u} /\ UNCHANGED <<triggered, api>>
    BY <1>9 DEF DeleteTracker, WatcherInv, SingleCustody
  <2>2. api.step \in {"store", "flag"} => api # Idle
    BY <1>1, Shapes
  <2> QED BY <1>1, <2>1, <2>2 DEF HeldAreTrackers
<1>10. CASE Crash
  BY <1>10 DEF Crash, Idle, HeldAreTrackers
<1>11. CASE Enter \/ DeleteDropped \/ FreeSlots \/ StoreLast \/ Finish \/ DeleteTriggered
  BY <1>2, <1>11 DEF Enter, DeleteDropped, FreeSlots, StoreLast, Finish, DeleteTriggered
<1>12. CASE WatchCache \/ WatchGet \/ Boot \/ Serve \/ UNCHANGED vars
  BY <1>2, <1>12 DEF WatchCache, WatchGet, Boot, Serve, vars
<1>13. ASSUME NEW b \in Blocks, NewTip(b)
       PROVE  HeldAreTrackers'
  BY <1>2, <1>13 DEF NewTip
<1> QED BY <1>3, <1>4, <1>5, <1>6, <1>7, <1>8, <1>9, <1>10, <1>11, <1>12, <1>13
        DEF Next, WatchThread, ApiThread

LEMMA LoadedStep == WatcherInv /\ StartInv /\ [Next]_vars => LoadedAreWatched'
<1> SUFFICES ASSUME WatcherInv, StartInv, [Next]_vars
             PROVE  LoadedAreWatched'
  OBVIOUS
<1> USE DEF memVars, secVars, respVars, dbVars, feedVars
<1>1. TypeOK /\ DownIsEmpty /\ LoadedAreWatched
  BY DEF WatcherInv, StartInv
<1>2. ASSUME UNCHANGED <<appointments, triggered, api>>, Loaded' \subseteq Loaded, up' # "down" => up # "down"
      PROVE  LoadedAreWatched'
  BY <1>1, <1>2 DEF LoadedAreWatched
<1>3. ASSUME UNCHANGED <<appointments, triggered, api, dbw, flags, up>>
      PROVE  LoadedAreWatched'
  BY <1>2, <1>3 DEF Loaded
<1>4. ASSUME NEW S, delete_appointments(S), UNCHANGED <<triggered, api, flags, up>>
      PROVE  LoadedAreWatched'
  <2>1. /\ appointments' = appointments \ S
        /\ Loaded' \subseteq Loaded \ S
    BY <1>1, <1>4 DEF delete_appointments, Forget, Deleted, Loaded, TypeOK
  <2> QED BY <1>1, <1>4, <2>1 DEF LoadedAreWatched
<1>5. CASE Enter
  <2>1. UNCHANGED <<triggered, api, flags, up>>
    BY <1>5 DEF Enter
  <2>2. UNCHANGED <<appointments, dbw>> \/ \E S : delete_appointments(S)
    BY <1>5 DEF Enter
  <2> QED BY <1>3, <1>4, <2>1, <2>2
<1>6. CASE DeleteDropped
  BY <1>4, <1>6 DEF DeleteDropped
<1>7. ASSUME NEW u \in Appts, HandOver(u)
      PROVE  LoadedAreWatched'
  <2>1. UNCHANGED <<api, dbw, flags, up>>
    BY <1>7 DEF HandOver
  <2>2. appointments \cup triggered \subseteq appointments' \cup triggered'
    BY <1>7 DEF HandOver, Forget
  <2>3. Loaded' = Loaded
    BY <2>1 DEF Loaded
  <2> QED BY <1>1, <2>1, <2>2, <2>3 DEF LoadedAreWatched
<1>8. CASE FlagTriggered
  <2>1. flags' = flags \cup triggered /\ triggered' = {} /\ UNCHANGED <<appointments, api, dbw, up>>
    BY <1>8 DEF FlagTriggered
  <2>2. Loaded' = Loaded \ triggered
    BY <2>1 DEF Loaded
  <2> QED BY <1>1, <2>1, <2>2 DEF LoadedAreWatched
<1>9. CASE Watch
  <2>1. api.u \in Appts /\ api.step = "lookup"
    BY <1>1, <1>9, ApiActs DEF ApiThread, Watch
  <2>2. /\ appointments' = appointments \cup {api.u} /\ dbw' = [dbw EXCEPT ![api.u] = api.rec]
        /\ UNCHANGED <<triggered, flags, up>>
    BY <1>9 DEF Watch
  <2>3. Loaded' \subseteq Loaded \cup {api.u}
    BY <1>1, <2>1, <2>2 DEF Loaded, TypeOK
  <2> QED BY <1>1, <2>1, <2>2, <2>3 DEF LoadedAreWatched
<1>10. CASE Trigger
  <2>1. api.step = "lookup" /\ UNCHANGED <<appointments, triggered, dbw, flags, up>>
    BY <1>10 DEF Trigger
  <2>2. Loaded' = Loaded
    BY <2>1 DEF Loaded
  <2> QED BY <1>1, <2>1, <2>2 DEF LoadedAreWatched
<1>11. CASE StoreTriggered
  <2>1. api' # Idle /\ api'.step = "flag" /\ api.u \in Appts
    BY <1>1, <1>11, Shapes DEF StoreTriggered, Idle
  <2>2. api'.u = api.u
    BY <1>1, <1>11, <2>1, ApiActs DEF ApiThread
  <2>3. dbw' = [dbw EXCEPT ![api.u] = api.rec] /\ UNCHANGED <<appointments, triggered, flags, up>> /\ api.step = "store"
    BY <1>11 DEF StoreTriggered
  <2>4. Loaded' \subseteq Loaded \cup {api.u}
    BY <1>1, <2>1, <2>3 DEF Loaded, TypeOK
  <2> QED BY <1>1, <2>1, <2>2, <2>3, <2>4 DEF LoadedAreWatched
<1>12. CASE FlagStored
  <2>1. flags' = flags \cup {api.u} /\ UNCHANGED <<appointments, triggered, dbw, up>>
    BY <1>12 DEF FlagStored
  <2>2. Loaded' = Loaded \ {api.u}
    BY <2>1 DEF Loaded
  <2> QED BY <1>1, <2>1, <2>2 DEF LoadedAreWatched
<1>13. CASE Sign
  <2>1. api.step = "sign" /\ UNCHANGED <<appointments, triggered, dbw, flags, up>>
    BY <1>13 DEF Sign
  <2>2. Loaded' = Loaded
    BY <2>1 DEF Loaded
  <2> QED BY <1>1, <2>1, <2>2 DEF LoadedAreWatched
<1>14. ASSUME NEW u \in Appts, NEW ok \in BOOLEAN, Accept(u, ok)
       PROVE  LoadedAreWatched'
  <2>1. api = Idle /\ UNCHANGED <<appointments, triggered, dbw, flags, up>>
    BY <1>14 DEF Accept
  <2>2. Loaded' = Loaded /\ api.step = "idle"
    BY <2>1 DEF Loaded, Idle
  <2> QED BY <1>1, <2>1, <2>2 DEF LoadedAreWatched
<1>15. CASE DeleteTriggered
  <2>1. UNCHANGED <<appointments, triggered, api, up>>
    BY <1>15 DEF DeleteTriggered
  <2>2. CASE rdel.step = "dbw"
    <3>1. dbw' = Deleted({rdel.u}) /\ flags' = flags
      BY <1>15, <2>2 DEF DeleteTriggered
    <3>2. Loaded' \subseteq Loaded
      BY <1>1, <3>1 DEF Deleted, Loaded, TypeOK
    <3> QED BY <1>2, <2>1, <3>2
  <2>3. CASE rdel.step = "flags"
    <3>1. flags' = flags \ {rdel.u} /\ dbw' = dbw
      BY <1>15, <2>3 DEF DeleteTriggered
    <3>2. dbw[rdel.u] = None
      BY <1>1, <1>15, <2>3, DeletionActs DEF WatcherInv, DeletionApart
    <3>3. Loaded' \subseteq Loaded
      BY <3>1, <3>2 DEF Loaded
    <3> QED BY <1>2, <2>1, <3>3
  <2>4. CASE rdel.step = "gatekeeper"
    <3>1. flags' = flags /\ dbw' = dbw
      BY <1>15, <2>4 DEF DeleteTriggered
    <3> QED BY <1>3, <2>1, <3>1
  <2> QED BY <1>1, <1>15, <2>2, <2>3, <2>4, DeletionActs, Shapes
<1>16. CASE Crash
  BY <1>16 DEF Crash, LoadedAreWatched
<1>17. CASE Boot
  <2>1. UNCHANGED <<dbw, flags>>
    BY <1>17 DEF Boot
  <2>2. Loaded' = Loaded
    BY <2>1 DEF Loaded
  <2>3. Loaded \subseteq appointments'
    BY <1>17 DEF Boot, NoData
  <2> QED BY <2>2, <2>3 DEF LoadedAreWatched
<1>18. CASE Serve
  <2>1. up # "down" /\ UNCHANGED <<appointments, triggered, api, dbw, flags>>
    BY <1>18 DEF Serve
  <2> QED BY <1>2, <2>1 DEF Loaded
<1>19. CASE WatchCache \/ WatchGet \/ FreeSlots \/ StoreLast \/ Finish \/ UNCHANGED vars
  BY <1>3, <1>19 DEF WatchCache, WatchGet, FreeSlots, StoreLast, Finish, vars
<1>20. ASSUME NEW b \in Blocks, NewTip(b)
       PROVE  LoadedAreWatched'
  BY <1>3, <1>20 DEF NewTip
<1>21. ASSUME NEW u \in Appts, DeleteTracker(u)
       PROVE  LoadedAreWatched'
  BY <1>3, <1>21 DEF DeleteTracker
<1> QED BY <1>5, <1>6, <1>7, <1>8, <1>9, <1>10, <1>11, <1>12, <1>13, <1>14, <1>15, <1>16, <1>17, <1>18, <1>19, <1>20, <1>21
        DEF Next, WatchThread, ApiThread

LEMMA SoonStep == WatcherInv /\ StartInv /\ [Next]_vars => Soon'
<1> SUFFICES ASSUME WatcherInv, StartInv, [Next]_vars
             PROVE  Soon'
  OBVIOUS
<1> USE DEF memVars, secVars, respVars, dbVars, feedVars
<1>1. /\ TypeOK /\ DownIsEmpty /\ LockExcludes /\ Line /\ Reached /\ Soon
      /\ "early api" \notin Rare /\ last \in Blocks /\ cur \in Blocks
  BY DEF WatcherInv, StartInv, Steadfast, TypeOK, CacheTypeOK
<1>2. Height(last) \in Nat /\ Height(cur) \in Nat
  BY <1>1, HeightIsNat
<1>3. api # Idle => api.rec.start \in Nat
  BY <1>1, Shapes DEF Record
<1>4. ASSUME UNCHANGED <<api, up, last>>, pc' = "init" => pc = "init", sec' = sec
      PROVE  Soon'
  BY <1>1, <1>4 DEF Soon, Height
<1>5. ASSUME UNCHANGED <<up, last, pc, sec>>, api # Idle, api' # Idle => api'.rec = api.rec
      PROVE  Soon'
  BY <1>1, <1>5 DEF Soon, Height
<1>6. ASSUME NEW b \in Blocks, NewTip(b)
      PROVE  Soon'
  BY <1>4, <1>6 DEF NewTip, cacheVars
<1>7. CASE WatchCache \/ WatchGet
  BY <1>4, <1>7 DEF WatchCache, InitBlock, InitDone, Fix, Update, Trim, WatchGet, Get
<1>8. CASE Enter
  BY <1>8 DEF Enter, Soon
<1>9. ASSUME NEW u \in Appts, HandOver(u) \/ DeleteTracker(u)
      PROVE  Soon'
  BY <1>4, <1>9 DEF HandOver, DeleteTracker, cacheVars
<1>10. CASE FlagTriggered \/ DeleteDropped \/ FreeSlots
  <2>1. api = Idle /\ api' = api
    BY <1>1, <1>10 DEF FlagTriggered, DeleteDropped, FreeSlots, LockExcludes, Locked
  <2> QED BY <2>1 DEF Soon
<1>11. CASE StoreLast
  BY <1>1, <1>11 DEF StoreLast, cacheVars, Soon, Height
<1>12. CASE Finish
  <2>1. /\ sec = "finish" /\ sec' = "free" /\ pc = "trimmed" /\ pc' = "wait"
        /\ last' = cur /\ UNCHANGED <<api, up>>
    BY <1>12 DEF Finish, Done
  <2>2. CASE api = Idle
    BY <2>1, <2>2 DEF Soon
  <2>3. CASE api # Idle
    <3>1. up = "serving" /\ Height(last) <= api.rec.start + 0
      BY <1>1, <2>1, <2>3 DEF Soon
    <3>2. IsParent(last, cur)
      BY <1>1, <2>1, <3>1 DEF Line, Onward
    <3>3. Height(cur) <= api.rec.start + 1
      <4>1. Height(cur) = Height(last) + 1
        BY <1>1, <3>2, ParentFollows
      <4> QED BY <1>2, <1>3, <2>3, <3>1, <4>1
    <3>4. Height(last)' = Height(cur)
      BY <2>1 DEF Height
    <3> QED BY <2>1, <3>1, <3>3, <3>4 DEF Soon
  <2> QED BY <2>2, <2>3
<1>13. ASSUME NEW u \in Appts, NEW ok \in BOOLEAN, Accept(u, ok)
       PROVE  Soon'
  <2>1. /\ up' = "serving" /\ pc' # "init" /\ UNCHANGED <<last, sec>>
        /\ api'.rec.start = Height(last)
    BY <1>1, <1>13 DEF Accept, cacheVars
  <2>2. Height(last)' = Height(last)
    BY <2>1 DEF Height
  <2>3. Height(last) <= Height(last) + 1 /\ Height(last) <= Height(last) + 0
    BY <1>2
  <2> QED BY <2>1, <2>2, <2>3 DEF Soon
<1>14. CASE ApiThread
  <2>1. api # Idle /\ (api' # Idle => api'.rec = api.rec)
    BY <1>1, <1>14, ApiActs
  <2>2. UNCHANGED <<up, last, pc, sec>>
    BY <1>14 DEF ApiThread, Watch, Trigger, StoreTriggered, FlagStored, Sign, cacheVars
  <2> QED BY <1>5, <2>1, <2>2
<1>15. CASE DeleteTriggered
  BY <1>4, <1>15 DEF DeleteTriggered, cacheVars
<1>16. CASE Crash
  BY <1>16 DEF Crash, Soon
<1>17. CASE Boot \/ Serve
  <2>1. up \in {"down", "boot"} /\ api' = api
    BY <1>17 DEF Boot, Serve
  <2> QED BY <1>1, <2>1 DEF Soon
<1>18. CASE UNCHANGED vars
  BY <1>4, <1>18 DEF vars, cacheVars
<1> QED BY <1>6, <1>7, <1>8, <1>9, <1>10, <1>11, <1>12, <1>13, <1>14, <1>15, <1>16, <1>17, <1>18
        DEF Next, WatchThread

-----------------------------------------------------------------------------
(* What has been looked through.                                           *)

(* A chain that holds the dispute late enough holds it also further on.    *)
LEMMA LateOn ==
    ASSUME NEW u, NEW a, NEW b \in Blocks, NEW s, OnChain(a, b), Late(u, a, s)
    PROVE  Late(u, b, s)
<1>1. /\ Len(Path[a]) \in 1..Len(Path[b])
      /\ \A j \in 1..Len(Path[a]) : Path[a][j] = Path[b][j]
  BY OnChainIs
<1>2. Len(Path[b]) \in Nat
  BY PathIs
<1>3. PICK i \in 1..Len(Path[a]) : i + CacheSize >= s + 4 /\ LocatorOf[u] \in TxsIn[Path[a][i]]
  BY DEF Late
<1>4. i \in 1..Len(Path[b])
  BY <1>1, <1>2
<1> QED BY <1>1, <1>3, <1>4 DEF Late

(* The next block brings no more than its own transactions.                *)
LEMMA LateMore ==
    ASSUME NEW u, NEW b \in Blocks, NEW c \in Blocks, NEW s, Follows(b, c), Late(u, c, s), ~Late(u, b, s)
    PROVE  LocatorOf[u] \in TxsIn[c]
<1>1. PICK i \in 1..Len(Path[c]) : i + CacheSize >= s + 4 /\ LocatorOf[u] \in TxsIn[Path[c][i]]
  BY DEF Late
<1>2. Len(Path[c]) \in Nat /\ Path[c][Len(Path[c])] = c /\ Len(Path[b]) \in Nat
  BY PathIs
<1>3. CASE i = Len(Path[c])
  BY <1>1, <1>2, <1>3
<1>4. CASE i # Len(Path[c])
  <2>1. i \in 1..(Len(Path[c]) - 1)
    BY <1>2, <1>4
  <2>2. i \in 1..Len(Path[b]) /\ Path[c][i] = Path[b][i]
    BY <1>2, <2>1, FollowsIs
  <2> QED BY <1>1, <2>2 DEF Late
<1> QED BY <1>3, <1>4

(* What is not in the window of a block is not late, if the request was    *)
(* made at most two blocks below it.                                       *)
LEMMA LateWindow ==
    ASSUME NEW u, NEW b \in Blocks, NEW s \in Nat, Height(b) <= s + 2, LocatorOf[u] \notin Window(b)
    PROVE  ~Late(u, b, s)
<1> SUFFICES ASSUME NEW i \in 1..Len(Path[b]), i + CacheSize >= s + 4, LocatorOf[u] \in TxsIn[Path[b][i]]
             PROVE  FALSE
  BY DEF Late
<1>1. Len(Path[b]) \in Nat /\ CacheSize \in Nat \ {0} /\ Len(Path[b]) - 1 <= s + 2
  BY PathIs, CacheSizeAssumption DEF Height
<1>2. PICK w : w = LastBlocks(b, CacheSize)
  OBVIOUS
<1>3. PICK k \in 1..Len(Path[b]) : k = Low(b, CacheSize)
  BY <1>1, WindowProperties
<1>4. /\ Len(w) = Len(Path[b]) - k + 1 /\ DOMAIN w = 1..Len(w)
      /\ \A j \in 1..Len(w) : w[j] = Path[b][k + j - 1]
  BY <1>1, <1>2, <1>3, WindowProperties
<1>5. k <= i
  <2>1. Len(Path[b]) > CacheSize => k = Len(Path[b]) - CacheSize + 1
    BY <1>3 DEF Low
  <2>2. ~(Len(Path[b]) > CacheSize) => k = 1
    BY <1>3 DEF Low
  <2> QED BY <1>1, <2>1, <2>2
<1>6. PICK j \in 1..(Len(Path[b]) - k + 1) : j = i - k + 1 /\ k + j - 1 = i
  <2>1. i - k + 1 \in 1..(Len(Path[b]) - k + 1) /\ k + (i - k + 1) - 1 = i
    BY <1>1, <1>5
  <2> QED BY <2>1
<1>7. j \in DOMAIN w /\ w[j] = Path[b][i]
  BY <1>4, <1>6
<1>8. LocatorOf[u] \in TxsOf(w)
  BY <1>7, InTxsOf
<1> QED BY <1>2, <1>8 DEF Window

(* The cache covers the block that the thread is done with, and from fix   *)
(* or update on the one that it is at.                                     *)
LEMMA Covered ==
    ASSUME CacheInv
    PROVE  /\ pc \in {"wait", "got"} => Window(last) \subseteq cache
           /\ pc \in {"fixed", "added", "trimmed"} => Window(cur) \subseteq cache
<1>1. cur \in Blocks /\ last \in Blocks /\ cache = TxsOf(blocks)
  BY DEF CacheInv, CacheTypeOK
<1>2. pc \in {"wait", "got"} => Window(last) \subseteq cache
  BY <1>1 DEF CacheInv, LoopWindow, Window
<1>3. pc \in {"fixed", "trimmed"} => Window(cur) \subseteq cache
  BY <1>1 DEF CacheInv, LoopWindow, Window
<1>4. ASSUME pc = "added" PROVE Window(cur) \subseteq cache
  <2>1. CASE blocks = LastBlocks(cur, CacheSize)
    BY <1>1, <2>1 DEF Window
  <2>2. CASE blocks = LastBlocks(cur, CacheSize + 1)
    BY <1>1, <2>2, WiderWindow, CacheSizeAssumption DEF Window
  <2> QED BY <1>4, <2>1, <2>2 DEF CacheInv, LoopWindow
<1> QED BY <1>2, <1>3, <1>4

(* A request that the cache does not answer has no dispute behind it.      *)
LEMMA UnansweredIsClear ==
    ASSUME WatcherInv, StartInv, api # Idle, LocatorOf[api.u] \notin cache
    PROVE  /\ ~Late(api.u, last, api.rec.start)
           /\ sec # "free" => ~Late(api.u, cur, api.rec.start)
<1>1. /\ TypeOK /\ CacheInv /\ Line /\ Reached /\ Soon
      /\ last \in Blocks /\ cur \in Blocks /\ pc \in {"wait", "got", "fixed", "added", "trimmed"}
      /\ up = "serving" /\ Height(last) <= api.rec.start + (IF sec = "free" THEN 1 ELSE 0)
  BY DEF WatcherInv, StartInv, TypeOK, CacheInv, CacheTypeOK, NeverKeyError, Soon
<1>2. PICK s \in Nat : s = api.rec.start
  BY <1>1, Shapes DEF Record
<1>3. Height(last) \in Nat /\ Height(last) <= s + 1
  BY <1>1, <1>2, HeightIsNat
<1>4. CASE pc \in {"wait", "got"}
  <2>1. sec = "free"
    BY <1>1, <1>4 DEF Reached
  <2>2. LocatorOf[api.u] \notin Window(last)
    BY <1>1, <1>4, Covered
  <2>3. Height(last) <= s + 2
    BY <1>3
  <2> QED BY <1>1, <1>2, <2>1, <2>2, <2>3, LateWindow
<1>5. CASE pc \in {"fixed", "added", "trimmed"}
  <2>1. IsParent(last, cur)
    BY <1>1, <1>5 DEF Line, Onward
  <2>2. Height(cur) = Height(last) + 1 /\ OnChain(last, cur)
    <3>1. Height(cur) = Height(last) + 1
      BY <1>1, <2>1, ParentFollows
    <3>2. OnChain(last, cur)
      <4>1. Len(Path[cur]) \in Nat /\ DOMAIN Path[cur] = 1..Len(Path[cur])
        BY <1>1, PathIs
      <4>2. Len(Path[cur]) > 1 /\ Path[cur][Len(Path[cur]) - 1] = last
        BY <2>1 DEF IsParent
      <4>3. Len(Path[cur]) - 1 \in DOMAIN Path[cur]
        BY <4>1, <4>2
      <4> QED BY <4>2, <4>3 DEF OnChain
    <3> QED BY <3>1, <3>2
  <2>3. LocatorOf[api.u] \notin Window(cur) /\ Height(cur) <= s + 2
    BY <1>1, <1>3, <1>5, <2>2, Covered
  <2>4. ~Late(api.u, cur, s)
    BY <1>1, <2>3, LateWindow
  <2> QED BY <1>1, <1>2, <2>2, <2>4, LateOn
<1> QED BY <1>1, <1>4, <1>5

LEMMA LookedStep == WatcherInv /\ StartInv /\ [Next]_vars => Looked'
<1> SUFFICES ASSUME WatcherInv, StartInv, [Next]_vars
             PROVE  Looked'
  OBVIOUS
<1> USE DEF memVars, secVars, respVars, dbVars, feedVars
<1>1. /\ TypeOK /\ MapIsIndex /\ DownIsEmpty /\ LockExcludes /\ Line /\ Reached
      /\ TrackersAreStored /\ HeldAreTrackers /\ LoadedAreWatched /\ Looked
      /\ last \in Blocks /\ cur \in Blocks
  BY DEF WatcherInv, StartInv, TypeOK, CacheTypeOK
<1>2. ASSUME appointments' \ trackers' \subseteq appointments \ trackers, UNCHANGED <<last, up, sec, todo, dropped>>,
             \A u \in appointments \ trackers : dbw'[u] = dbw[u],
             sec # "free" => cur' = cur,
             up = "down" => UNCHANGED <<dbw, flags, dbr>>
      PROVE  Looked'
  <2>1. ASSUME NEW u \in appointments' \ trackers'
        PROVE  /\ u \in appointments \ trackers
               /\ Clear(u, last)' <=> Clear(u, last)
               /\ sec # "free" => (Clear(u, cur)' <=> Clear(u, cur))
    BY <1>2, <2>1 DEF Clear, Late
  <2>2. up = "down" => Loaded' \ dbr' = Loaded \ dbr /\ \A u : Clear(u, last)' <=> Clear(u, last)
    BY <1>2 DEF Loaded, Clear, Late
  <2> HIDE DEF Clear
  <2> QED BY <1>1, <1>2, <2>1, <2>2 DEF Looked
<1>3. ASSUME UNCHANGED <<appointments, last, cur, up, sec, todo, dropped, dbw, flags>>,
             trackers \subseteq trackers', up = "down" => dbr' = dbr
      PROVE  Looked'
  <2>1. appointments' \ trackers' \subseteq appointments \ trackers
    BY <1>3
  <2> QED BY <1>2, <1>3, <2>1
<1>4. ASSUME NEW b \in Blocks, NewTip(b)
      PROVE  Looked'
  BY <1>3, <1>4 DEF NewTip, cacheVars
<1>5. CASE WatchCache
  BY <1>3, <1>5 DEF WatchCache, InitBlock, InitDone, Fix, Update, Trim
<1>6. CASE WatchGet
  <2>1. sec = "free" /\ UNCHANGED <<appointments, trackers, last, up, sec, todo, dropped, dbw, flags, dbr>>
    BY <1>1, <1>6 DEF WatchGet, Get, Reached
  <2> QED BY <1>2, <2>1
<1>7. CASE Enter
  <2>1. CASE appointments = {}
    <3>1. appointments' = {} /\ up' = up /\ up # "down"
      BY <1>7, <2>1 DEF Enter, Running
    <3> QED BY <3>1 DEF Looked
  <2>2. CASE appointments # {}
    <3> DEFINE out == {u \in appointments : OutdatedAt[u] = Height(cur)}
               hit == get_breaches(appointments \ out)
    <3>1. \A u \in hit : dbw[u] # None
      BY <1>1, BreachesAreWatched DEF WatcherInv, WatchedAreStored
    <3>2. /\ delete_appointments(out)
          /\ sec' = "breaches" /\ todo' \cup dropped' = hit
          /\ UNCHANGED <<last, cur, up, trackers>> /\ up # "down" /\ pc = "trimmed"
      BY <1>7, <2>2, <3>1 DEF Enter, Running
    <3> HIDE DEF hit
    <3>3. appointments' = appointments \ out /\ \A u \in appointments \ out : u \in Appts /\ dbw'[u] = dbw[u]
      BY <1>1, <3>2 DEF delete_appointments, Forget, Deleted, TypeOK
    <3>4. Follows(last, cur)
      BY <1>1, <3>2 DEF Line, Onward
    <3>5. ASSUME NEW u \in appointments' \ trackers'
          PROVE  Clear(u, last)' /\ (Clear(u, cur)' \/ u \in hit)
      <4>1. u \in appointments \ trackers /\ u \in appointments \ out /\ dbw'[u] = dbw[u] /\ u \in Appts
        BY <3>2, <3>3, <3>5
      <4>2. Clear(u, last)
        BY <1>1, <4>1 DEF Looked
      <4>3. (Clear(u, last)' <=> Clear(u, last)) /\ (Clear(u, cur)' <=> Clear(u, cur))
        BY <3>2, <4>1 DEF Clear, Late
      <4>4. ASSUME ~Clear(u, cur) PROVE u \in hit
        <5>1. LocatorOf[u] \in TxsIn[cur]
          BY <1>1, <3>4, <4>2, <4>4, LateMore DEF Clear
        <5>2. LocatorOf[u] \in Txs
          BY <4>1, WatcherAssumption
        <5>3. u \in lmap[LocatorOf[u]]
          BY <1>1, <4>1, <5>2 DEF MapIsIndex, IndexOf
        <5> QED BY <4>1, <5>1, <5>3 DEF hit, get_breaches
      <4> QED BY <4>2, <4>3, <4>4
    <3> HIDE DEF Clear
    <3> QED BY <3>2, <3>5 DEF Looked
  <2> QED BY <2>1, <2>2
<1>8. ASSUME NEW v \in Appts, HandOver(v)
      PROVE  Looked'
  <2>1. /\ sec = "breaches" /\ UNCHANGED <<last, cur, up, sec, dbw>> /\ up # "down"
        /\ \A u : Clear(u, last)' <=> Clear(u, last)
        /\ \A u : Clear(u, cur)' <=> Clear(u, cur)
    BY <1>1, <1>8 DEF HandOver, DownIsEmpty, cacheVars, Clear, Late
  <2>2. /\ appointments' \ trackers' \subseteq appointments \ trackers
        /\ \A u \in appointments' : u \in todo \cup dropped => u \in todo' \cup dropped'
    BY <1>8 DEF HandOver, AddTracker, Forget
  <2> HIDE DEF Clear
  <2> QED BY <1>1, <2>1, <2>2 DEF Looked
<1>9. CASE FlagTriggered
  <2>1. /\ sec = "breaches" /\ sec' = "drop" /\ todo = {} /\ up # "down"
        /\ UNCHANGED <<last, cur, up, dbw, dropped, appointments, trackers>>
        /\ \A u : Clear(u, last)' <=> Clear(u, last)
        /\ \A u : Clear(u, cur)' <=> Clear(u, cur)
    BY <1>1, <1>9 DEF FlagTriggered, DownIsEmpty, cacheVars, Clear, Late
  <2> HIDE DEF Clear
  <2> QED BY <1>1, <2>1 DEF Looked
<1>10. CASE DeleteDropped
  <2>1. /\ sec = "drop" /\ sec' = "gatekeeper" /\ up # "down" /\ delete_appointments(dropped)
        /\ UNCHANGED <<last, cur, up, trackers>>
    BY <1>1, <1>10 DEF DeleteDropped, DownIsEmpty, cacheVars
  <2>2. appointments' = appointments \ dropped /\ \A u \in appointments \ dropped : dbw'[u] = dbw[u]
    BY <1>1, <2>1 DEF delete_appointments, Forget, Deleted, TypeOK
  <2>3. ASSUME NEW u \in appointments' \ trackers' PROVE Clear(u, last)' /\ Clear(u, cur)'
    <3>1. u \in appointments \ trackers /\ u \notin dropped /\ dbw'[u] = dbw[u]
      BY <2>1, <2>2, <2>3
    <3>2. Clear(u, last) /\ Clear(u, cur)
      BY <1>1, <2>1, <3>1 DEF Looked
    <3> QED BY <2>1, <3>1, <3>2 DEF Clear, Late
  <2> HIDE DEF Clear
  <2> QED BY <2>1, <2>3 DEF Looked
<1>11. CASE FreeSlots \/ StoreLast
  <2>1. /\ sec \in {"gatekeeper", "store"} /\ sec' \in {"store", "finish"} /\ up # "down"
        /\ UNCHANGED <<last, cur, up, dbw, appointments, trackers>>
        /\ \A u : Clear(u, last)' <=> Clear(u, last)
        /\ \A u : Clear(u, cur)' <=> Clear(u, cur)
    BY <1>1, <1>11 DEF FreeSlots, StoreLast, DownIsEmpty, cacheVars, Clear, Late
  <2> HIDE DEF Clear
  <2> QED BY <1>1, <2>1 DEF Looked
<1>12. CASE Finish
  <2>1. /\ sec = "finish" /\ sec' = "free" /\ up # "down" /\ last' = cur
        /\ UNCHANGED <<up, dbw, appointments, trackers>>
        /\ \A u : Clear(u, last)' <=> Clear(u, cur)
    BY <1>1, <1>12 DEF Finish, Done, DownIsEmpty, Clear, Late
  <2> HIDE DEF Clear
  <2> QED BY <1>1, <2>1 DEF Looked
<1>13. ASSUME NEW u \in Appts, NEW ok \in BOOLEAN, Accept(u, ok)
       PROVE  Looked'
  BY <1>3, <1>13 DEF Accept, cacheVars
<1>14. CASE Watch
  <2>1. /\ api # Idle /\ api.u \in Appts /\ LocatorOf[api.u] \notin cache
        /\ appointments' = appointments \cup {api.u}
        /\ dbw' = [dbw EXCEPT ![api.u] = api.rec]
        /\ UNCHANGED <<last, cur, up, sec, todo, dropped, trackers>>
    BY <1>1, <1>14, ApiActs DEF ApiThread, Watch, cacheVars
  <2>2. up # "down" /\ sec \notin {"breaches", "drop", "gatekeeper"}
    BY <1>1, <2>1 DEF DownIsEmpty, LockExcludes, Locked
  <2>3. dbw'[api.u] = api.rec /\ \A u \in Appts \ {api.u} : dbw'[u] = dbw[u]
    BY <1>1, <2>1 DEF TypeOK
  <2>4. ASSUME NEW u \in appointments' \ trackers'
        PROVE  Clear(u, last)' /\ (sec \in {"store", "finish"} => Clear(u, cur)')
    <3>1. CASE u = api.u
      <4>1. ~Late(u, last, api.rec.start) /\ (sec # "free" => ~Late(u, cur, api.rec.start))
        BY <2>1, <3>1, UnansweredIsClear
      <4>2. /\ Clear(u, last)' <=> ~Late(u, last, api.rec.start)
            /\ Clear(u, cur)' <=> ~Late(u, cur, api.rec.start)
        BY <2>1, <2>3, <3>1 DEF Clear, Late
      <4> QED BY <4>1, <4>2
    <3>2. CASE u # api.u
      <4>1. u \in appointments \ trackers /\ u \in Appts
        BY <1>1, <2>1, <2>4, <3>2 DEF TypeOK
      <4>2. Clear(u, last) /\ (sec \in {"store", "finish"} => Clear(u, cur))
        BY <1>1, <4>1 DEF Looked
      <4> QED BY <2>1, <2>3, <3>2, <4>1, <4>2 DEF Clear, Late
    <3> QED BY <3>1, <3>2
  <2> HIDE DEF Clear
  <2> QED BY <2>1, <2>2, <2>4 DEF Looked
<1>15. CASE Trigger
  BY <1>1, <1>3, <1>15, ApiActs DEF ApiThread, Trigger, AddTracker, cacheVars, DownIsEmpty
<1>16. CASE StoreTriggered
  <2>1. /\ api # Idle /\ api.u \in Appts /\ api.u \in dbr
        /\ dbw' = [dbw EXCEPT ![api.u] = api.rec]
        /\ UNCHANGED <<appointments, last, cur, up, sec, todo, dropped, trackers>>
    BY <1>1, <1>16, ApiActs DEF ApiThread, StoreTriggered, HeldAreTrackers, cacheVars
  <2>2. up # "down" /\ trackers = dbr
    BY <1>1, <2>1 DEF DownIsEmpty, TrackersAreStored
  <2>3. \A u \in appointments \ trackers : dbw'[u] = dbw[u]
    BY <1>1, <2>1, <2>2 DEF TypeOK
  <2> QED BY <1>2, <2>1, <2>2, <2>3
<1>17. CASE FlagStored
  <2>1. up # "down"
    BY <1>1, <1>17, ApiActs DEF ApiThread, DownIsEmpty
  <2> QED BY <1>2, <1>17, <2>1 DEF FlagStored, cacheVars
<1>18. CASE Sign
  BY <1>3, <1>18 DEF Sign, cacheVars
<1>19. ASSUME NEW u \in Appts, DeleteTracker(u)
       PROVE  Looked'
  <2>1. u \notin appointments
    BY <1>19 DEF DeleteTracker, WatcherInv, SingleCustody
  <2>2. appointments' \ trackers' \subseteq appointments \ trackers /\ up # "down"
    BY <1>19, <2>1 DEF DeleteTracker, Running
  <2> QED BY <1>2, <1>19, <2>2 DEF DeleteTracker, cacheVars
<1>20. CASE DeleteTriggered
  <2>1. up # "down" /\ rdel.u \notin appointments
    BY <1>1, <1>20, DeletionActs DEF DownIsEmpty, WatcherInv, DeletionApart
  <2>2. /\ dbw' = dbw \/ dbw' = Deleted({rdel.u})
        /\ UNCHANGED <<appointments, trackers, last, cur, up, sec, todo, dropped>>
    BY <1>20 DEF DeleteTriggered, cacheVars
  <2>3. \A u \in appointments : dbw'[u] = dbw[u]
    BY <1>1, <2>1, <2>2 DEF Deleted, TypeOK
  <2> QED BY <1>2, <2>1, <2>2, <2>3
<1>21. CASE Crash
  <2>1. /\ up # "down" /\ up' = "down" /\ appointments' = {} /\ last' = dbLast
        /\ UNCHANGED <<dbw, flags, dbr>>
    BY <1>21 DEF Crash, Running, StartAt
  <2>2. Loaded' = Loaded
    BY <2>1 DEF Loaded
  <2>3. ASSUME NEW u \in Loaded \ dbr PROVE Clear(u, last)'
    <3>1. u \in appointments \ trackers
      BY <1>1, <2>1, <2>3 DEF LoadedAreWatched, HeldAreTrackers, TrackersAreStored
    <3>2. Clear(u, dbLast)
      BY <1>1, <3>1 DEF Looked, Reached
    <3> QED BY <2>1, <3>2 DEF Clear, Late
  <2> HIDE DEF Clear
  <2> QED BY <2>1, <2>2, <2>3 DEF Looked
<1>22. CASE Boot
  <2>1. up = "down" /\ up' # "down" /\ UNCHANGED <<last, dbw, flags, dbr, sec>> /\ sec = "free"
    BY <1>1, <1>22 DEF Boot, cacheVars, DownIsEmpty
  <2>2. \/ appointments' = {}
        \/ appointments' = Loaded /\ trackers' = dbr
    BY <1>1, <1>22 DEF Boot, DownIsEmpty
  <2>3. \A u \in Loaded \ dbr : Clear(u, last)'
    BY <1>1, <2>1 DEF Looked, Clear, Late
  <2> HIDE DEF Clear
  <2> QED BY <2>1, <2>2, <2>3 DEF Looked
<1>23. CASE Serve
  <2>1. /\ up = "boot" /\ up' = "serving"
        /\ UNCHANGED <<appointments, trackers, last, cur, sec, todo, dropped, dbw>>
        /\ \A u : Clear(u, last)' <=> Clear(u, last)
        /\ \A u : Clear(u, cur)' <=> Clear(u, cur)
    BY <1>23 DEF Serve, cacheVars, Clear, Late
  <2> HIDE DEF Clear
  <2> QED BY <1>1, <2>1 DEF Looked
<1>24. CASE UNCHANGED vars
  BY <1>3, <1>24 DEF vars, cacheVars
<1> QED BY <1>4, <1>5, <1>6, <1>7, <1>8, <1>9, <1>10, <1>11, <1>12, <1>13, <1>14, <1>15, <1>16, <1>17, <1>18,
           <1>19, <1>20, <1>21, <1>22, <1>23, <1>24
        DEF Next, WatchThread, ApiThread

THEOREM StartInvariance == SingleCustody /\ Steadfast /\ Spec => []StartInv
<1>1. Steadfast /\ Init => StartInv
  <2> SUFFICES ASSUME Steadfast, Init PROVE StartInv
    OBVIOUS
  <2>1. last \in Blocks /\ Height(last) \in Nat
    BY HeightIsNat DEF Init, CacheInit
  <2>2. Height(last) <= Height(last)
    BY <2>1
  <2>3. Len(queue) = 0
    BY DEF Init
  <2>4. (\A i \in 1..Len(queue) : FALSE) /\ (\A i \in 1..(Len(queue) - 1) : FALSE)
    BY <2>3
  <2>5. Line
    BY <2>2, <2>4 DEF Init, CacheInit, Line, Now
  <2>6. Reached /\ TrackersAreStored /\ LoadedAreWatched /\ Soon /\ Looked
    BY DEF Init, CacheInit, Reached, TrackersAreStored, LoadedAreWatched, Loaded, Soon, Looked
  <2>7. HeldAreTrackers
    BY DEF Init, Idle, HeldAreTrackers
  <2> QED BY <2>5, <2>6, <2>7 DEF StartInv
<1>2. WatcherInv /\ StartInv /\ [Next]_vars => StartInv'
  <2> SUFFICES ASSUME WatcherInv, StartInv, [Next]_vars PROVE StartInv'
    OBVIOUS
  <2>1. Steadfast' /\ TrackersAreStored'
    BY TrackersStep DEF StartInv, Steadfast
  <2> QED BY <2>1, LineStep, ReachedStep, HeldStep, LoadedStep, SoonStep, LookedStep DEF StartInv
<1> QED BY WatcherInvariance, <1>1, <1>2, PTL DEF Spec

(* The receipt's start_block is kept: what is still watched has no dispute *)
(* in a processed block since, whichever way it came to be watched: before *)
(* the block, between the lookup in the cache and the block, or from the   *)
(* disk after a crash.                                                     *)
THEOREM WatchedFromStartBlockHolds ==
    SingleCustody /\ Steadfast /\ Spec => []WatchedFromStartBlock
<1>1. WatcherInv /\ StartInv => WatchedFromStartBlock
  <2> SUFFICES ASSUME WatcherInv, StartInv, NEW u \in appointments \ trackers,
                      Disputed(u, last, IF dbw[u].start + 3 > CacheSize
                                        THEN dbw[u].start + 3 - CacheSize ELSE 0)
               PROVE  FALSE
    BY DEF WatchedFromStartBlock
  <2>1. TypeOK /\ last \in Blocks /\ u \in Appts
    BY DEF WatcherInv, TypeOK, CacheTypeOK
  <2>2. PICK s \in Nat : s = dbw[u].start
    <3>1. dbw[u] # None
      BY DEF WatcherInv, WatchedAreStored
    <3>2. dbw[u] \in Record
      BY <2>1, <3>1 DEF TypeOK
    <3> QED BY <3>2 DEF Record
  <2>3. PICK i \in DOMAIN Path[last] : /\ i - 1 >= (IF s + 3 > CacheSize THEN s + 3 - CacheSize ELSE 0)
                                       /\ LocatorOf[u] \in TxsIn[Path[last][i]]
    BY <2>2 DEF Disputed
  <2>4. i \in 1..Len(Path[last]) /\ i \in Nat /\ i >= 1 /\ CacheSize \in Nat
    <3>1. Len(Path[last]) \in Nat /\ DOMAIN Path[last] = 1..Len(Path[last])
      BY <2>1, PathIs
    <3> QED BY <3>1, CacheSizeAssumption
  <2>5. i + CacheSize >= s + 4
    BY <2>3, <2>4
  <2>6. Late(u, last, s)
    BY <2>3, <2>4, <2>5 DEF Late
  <2> QED BY <2>2, <2>6 DEF StartInv, Looked, Clear
<1> QED BY WatcherInvariance, StartInvariance, <1>1, PTL
=============================================================================
