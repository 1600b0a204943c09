----------------------------- MODULE Gatekeeper -----------------------------
(***************************************************************************)
(* src/teos/gatekeeper.py: who is registered, until which block, and which *)
(* slots each appointment takes, in memory and in the users database.      *)
(*                                                                         *)
(* Requests (register, add_appointment) and the watch threads of Watcher   *)
(* and Responder (delete_appointments) work under the write lock of the    *)
(* Gatekeeper.  Its own thread, manage_subscription_expiry, deletes the    *)
(* outdated users of each block without it, step by step: that is where    *)
(* they meet.  Blocks count by their height only.                          *)
(***************************************************************************)
EXTENDS Naturals, Sequences, FiniteSetsExt, SequencesExt

CONSTANTS
    Users, Uuids,
    OwnerOf,           \* the user of each uuid
    SubscriptionSlots, \* Gatekeeper.subscription_slots
    Duration,          \* Gatekeeper.subscription_duration
    ExpiryDelta,       \* Gatekeeper.expiry_delta
    CacheBlocks,       \* OUTDATED_USERS_CACHE_SIZE_BLOCKS
    MaxU4,             \* what fits in four bytes
    BlobSlots,         \* the slots an encrypted blob may require
    None,
    MaxHeight, MaxRegistrations, MaxCrashes, \* bounds of a behaviour
    Rare               \* the rare events a run includes

ASSUME GatekeeperAssumption ==
    /\ OwnerOf \in [Uuids -> Users] /\ IsFiniteSet(Uuids)
    /\ None \notin [slots : Nat, expiry : Nat, apps : [Uuids -> Nat]]
    /\ SubscriptionSlots \in Nat \ {0} /\ Duration \in Nat \ {0} /\ ExpiryDelta \in Nat \ {0}
    /\ CacheBlocks \in Nat \ {0} /\ MaxU4 \in Nat /\ BlobSlots \subseteq Nat \ {0}
    /\ MaxHeight \in Nat /\ MaxRegistrations \in Nat /\ MaxCrashes \in Nat
    /\ Rare \subseteq {"missed",    \* blocks that come while we are down, or two in one
                      "duplicate", \* a height that comes twice (a reorg, a block notified twice)
                      "overlap"}   \* an operation on a user who is being deleted

VARIABLES
    height,     \* bitcoind's block count
    queue,      \* Gatekeeper.block_queue, as heights
    users,      \* registered_users
    db,         \* UsersDBM
    outdated,   \* outdated_users_cache: what is in it, by height
    order,      \* and the heights, oldest first
    pc, h,      \* the thread: where it is and the height it is at
    todo, cur,  \* the users it has to delete, the one it is deleting
    request,    \* an add_appointment that has passed its checks
    op,         \* the operation that holds the write lock
    dead,       \* the threads that an exception has ended
    bought,     \* history: registrations since the user was added
    gone,       \* history: users deleted at each height
    crashes

threadVars == <<pc, h, todo, cur>>
cacheVars == <<outdated, order>>
blockVars == <<height, queue>>
vars == <<blockVars, users, db, cacheVars, threadVars, request, op, dead, bought, gone, crashes>>

UserInfo == [slots : Nat, expiry : Nat, apps : [Uuids -> Nat]]
NoOp == [step |-> "none"]

TypeOK ==
    /\ height \in 0..MaxHeight /\ queue \in Seq(0..MaxHeight)
    /\ users \in [Users -> UserInfo \cup {None}] /\ db \in [Users -> UserInfo \cup {None}]
    /\ order \in Seq(0..MaxHeight) /\ Len(order) <= CacheBlocks
    /\ outdated \in [0..MaxHeight -> SUBSET Users]
    /\ pc \in {"get", "read", "insert", "ids", "pop", "delete"} /\ h \in 0..MaxHeight
    /\ todo \subseteq Users /\ cur \in Users
    /\ request \in {None} \cup [uuid : Uuids, required : BlobSlots]
    /\ op \in {NoOp} \cup [step : {"snapshot"}, kind : {"register", "add", "free"}, user : Users]
              \cup [step : {"store"}, user : Users, info : UserInfo]
    /\ dead \subseteq {"gatekeeper", "watch"}
    /\ bought \in [Users -> 0..MaxRegistrations] /\ gone \in [0..MaxHeight -> SUBSET Users]
    /\ crashes \in 0..MaxCrashes

Registered == {u \in Users : users[u] # None}
Used(info) == MapThenSumSet(LAMBDA x : info.apps[x], Uuids)
Alive == "gatekeeper" \notin dead

-----------------------------------------------------------------------------
(* Fault: one block late.                                                  *)
GetOutdatedUsersLate(n) ==
    IF outdated[n] # {} THEN outdated[n]
    ELSE {u \in Registered : n = users[u].expiry + ExpiryDelta + 1}

(* get_outdated_users: an entry of the cache that is empty counts as none. *)

GetOutdatedUsers(n) ==
    IF outdated[n] # {} THEN outdated[n]
    ELSE {u \in Registered : n = users[u].expiry + ExpiryDelta}

(* Is the thread deleting this user, or about to?                          *)
Going(u) ==
    \/ u \in todo
    \/ pc = "delete" /\ u = cur
    \/ pc \in {"read", "insert", "ids"} /\ u \in GetOutdatedUsers(h)

-----------------------------------------------------------------------------
NewBlock ==
    /\ \E n \in {height + 1, height + 2} :
          /\ n <= MaxHeight /\ (n = height + 1 \/ "missed" \in Rare)
          /\ height' = n
          /\ queue' \in {queue \o <<n>>} \cup
                        (IF "duplicate" \in Rare THEN {queue \o <<n, n>>} ELSE {})
    /\ UNCHANGED <<users, db, cacheVars, threadVars, request, op, dead, bought, gone, crashes>>

-----------------------------------------------------------------------------
(* manage_subscription_expiry.                                             *)

GetBlock ==
    /\ Alive /\ pc = "get" /\ queue # <<>>
    /\ h' = Head(queue) /\ queue' = Tail(queue)
    /\ pc' = "read"
    /\ UNCHANGED <<height, users, db, cacheVars, todo, cur, request, op, dead, bought, gone, crashes>>

(* update_outdated_users_cache reads, ...                                  *)
ReadOutdated ==
    /\ pc = "read" /\ op = NoOp
    /\ todo' = GetOutdatedUsers(h)
    /\ pc' = "insert"
    /\ UNCHANGED <<blockVars, users, db, cacheVars, h, cur, request, op, dead, bought, gone, crashes>>

(* Fault: the block that does not fit is left out.                         *)
InsertIfRoom ==
    /\ pc = "insert" /\ op = NoOp
    /\ IF Contains(order, h) \/ Len(order) = CacheBlocks THEN UNCHANGED cacheVars
       ELSE outdated' = [outdated EXCEPT ![h] = todo] /\ order' = Append(order, h)
    /\ todo' = {} /\ pc' = "ids"
    /\ UNCHANGED <<blockVars, users, db, h, cur, request, op, dead, bought, gone, crashes>>

(* ... and writes what it has read.                                        *)
InsertOutdated ==
    /\ pc = "insert" /\ op = NoOp
    /\ IF Contains(order, h) THEN UNCHANGED cacheVars
       ELSE LET keys == Append(order, h)
                full == Len(keys) > CacheBlocks
            IN  /\ order' = IF full THEN Tail(keys) ELSE keys
                /\ outdated' = [n \in 0..MaxHeight |->
                                  IF n = h THEN todo
                                  ELSE IF full /\ n = Head(keys) THEN {} ELSE outdated[n]]
    /\ todo' = {} /\ pc' = "ids"
    /\ UNCHANGED <<blockVars, users, db, h, cur, request, op, dead, bought, gone, crashes>>

(* Faults: what is expired is deleted, with no grace time; all of the      *)
(* cache is.                                                               *)
GetExpiredIds ==
    /\ pc = "ids" /\ op = NoOp
    /\ todo' = GetOutdatedUsers(h) \cup {u \in Registered : users[u].expiry <= h}
    /\ pc' = "pop"
    /\ UNCHANGED <<blockVars, users, db, cacheVars, h, cur, request, op, dead, bought, gone, crashes>>

GetCachedIds ==
    /\ pc = "ids" /\ op = NoOp
    /\ todo' = UNION {outdated[n] : n \in 0..h}
    /\ pc' = "pop"
    /\ UNCHANGED <<blockVars, users, db, cacheVars, h, cur, request, op, dead, bought, gone, crashes>>

GetOutdatedIds ==
    /\ pc = "ids" /\ op = NoOp
    /\ todo' = GetOutdatedUsers(h)
    /\ pc' = "pop"
    /\ UNCHANGED <<blockVars, users, db, cacheVars, h, cur, request, op, dead, bought, gone, crashes>>

(* Cleaner.delete_outdated_users, without the lock: out of memory, ...     *)
PopUser(u) ==
    /\ Alive /\ pc = "pop" /\ u \in todo
    /\ op # NoOp /\ op.user = u => "overlap" \in Rare
    /\ todo' = todo \ {u} /\ cur' = u
    /\ IF users[u] = None
       THEN dead' = dead \cup {"gatekeeper"} /\ UNCHANGED <<users, pc, bought, gone>>
       ELSE /\ users' = [users EXCEPT ![u] = None]
            /\ bought' = [bought EXCEPT ![u] = 0]
            /\ gone' = [gone EXCEPT ![h] = @ \cup {u}]
            /\ pc' = "delete"
            /\ UNCHANGED dead
    /\ UNCHANGED <<blockVars, db, cacheVars, h, request, op, crashes>>

(* Fault: the user stays on disk.                                          *)
LeaveUser ==
    /\ pc = "delete" /\ pc' = "pop"
    /\ UNCHANGED <<blockVars, users, db, cacheVars, h, todo, cur, request, op, dead, bought, gone, crashes>>

(* ... and then off the disk.                                              *)
DeleteUser ==
    /\ pc = "delete"
    /\ db' = [db EXCEPT ![cur] = None]
    /\ pc' = "pop"
    /\ UNCHANGED <<blockVars, users, cacheVars, h, todo, cur, request, op, dead, bought, gone, crashes>>

DeletedAll ==
    /\ Alive /\ pc = "pop" /\ todo = {}
    /\ pc' = "get"
    /\ UNCHANGED <<blockVars, users, db, cacheVars, h, todo, cur, request, op, dead, bought, gone, crashes>>

-----------------------------------------------------------------------------
(* Operations under the write lock: change the user in memory, take a copy *)
(* (to_dict) and store it.                                                 *)

Begin(k, u) ==
    /\ Going(u) => "overlap" \in Rare
    /\ op' = [step |-> "snapshot", kind |-> k, user |-> u]

Fresh == [slots |-> SubscriptionSlots, expiry |-> height + Duration, apps |-> [x \in Uuids |-> 0]]

(* add_update_user.                                                        *)
Register(u) ==
    /\ op = NoOp /\ bought[u] < MaxRegistrations
    /\ IF users[u] = None
       THEN users' = [users EXCEPT ![u] = Fresh]
       ELSE /\ users[u].slots + SubscriptionSlots <= MaxU4
            /\ users' = [users EXCEPT ![u].slots = @ + SubscriptionSlots,
                                      ![u].expiry = height + Duration]
    /\ bought' = [bought EXCEPT ![u] = @ + 1]
    /\ Begin("register", u)
    /\ UNCHANGED <<blockVars, db, cacheVars, threadVars, request, dead, gone, crashes>>

authenticate_user(u) == users[u] # None
has_subscription_expired(u) == height >= users[u].expiry

(* The checks of add_appointment.  Nobody holds the lock when they are     *)
(* done.                                                                   *)
Check(x, n) ==
    /\ op = NoOp /\ request = None
    /\ authenticate_user(OwnerOf[x]) /\ ~has_subscription_expired(OwnerOf[x])
    /\ request' = [uuid |-> x, required |-> n]
    /\ UNCHANGED <<blockVars, users, db, cacheVars, threadVars, op, dead, bought, gone, crashes>>

(* Fault: an update is charged in full.                                    *)
ChargeInFull ==
    /\ op = NoOp /\ request # None
    /\ request' = None
    /\ LET u == OwnerOf[request.uuid]
       IN  IF users[u] # None /\ users[u].slots >= request.required
           THEN /\ users' = [users EXCEPT ![u].slots = @ - request.required,
                                          ![u].apps[request.uuid] = request.required]
                /\ Begin("add", u)
           ELSE UNCHANGED <<users, op>>
    /\ UNCHANGED <<blockVars, db, cacheVars, threadVars, dead, bought, gone, crashes>>

(* add_update_appointment.  A user who is gone by now is a KeyError, and   *)
(* the request fails.                                                      *)
Charge ==
    /\ op = NoOp /\ request # None
    /\ request' = None
    /\ LET u == OwnerOf[request.uuid]
           used == users[u].apps[request.uuid]
       IN  IF users[u] # None /\ users[u].slots + used >= request.required
           THEN /\ users' = [users EXCEPT ![u].slots = (@ + used) - request.required,
                                          ![u].apps[request.uuid] = request.required]
                /\ Begin("add", u)
           ELSE UNCHANGED <<users, op>>
    /\ UNCHANGED <<blockVars, db, cacheVars, threadVars, dead, bought, gone, crashes>>

(* delete_appointments, for one of them.                                   *)
Free(x) ==
    LET u == OwnerOf[x]
    IN  /\ op = NoOp /\ "watch" \notin dead
        /\ users[u] # None /\ users[u].apps[x] # 0
        /\ users' = [users EXCEPT ![u].slots = @ + users[u].apps[x], ![u].apps[x] = 0]
        /\ Begin("free", u)
        /\ UNCHANGED <<blockVars, db, cacheVars, threadVars, request, dead, bought, gone, crashes>>

(* A KeyError here ends the request, or the watch thread.                  *)
Snapshot ==
    /\ op.step = "snapshot"
    /\ IF users[op.user] # None
       THEN /\ op' = [step |-> "store", user |-> op.user, info |-> users[op.user]]
            /\ UNCHANGED dead
       ELSE /\ op' = NoOp
            /\ dead' = IF op.kind = "free" THEN dead \cup {"watch"} ELSE dead
    /\ UNCHANGED <<blockVars, users, db, cacheVars, threadVars, request, bought, gone, crashes>>

Store ==
    /\ op.step = "store"
    /\ db' = [db EXCEPT ![op.user] = op.info]
    /\ op' = NoOp
    /\ UNCHANGED <<blockVars, users, cacheVars, threadVars, request, dead, bought, gone, crashes>>

-----------------------------------------------------------------------------
(* The Gatekeeper starts from the database; the blocks it had still to     *)
(* look at are not given to it again.                                      *)
Restart ==
    /\ crashes < MaxCrashes
    /\ (queue = <<>> /\ pc = "get") \/ "missed" \in Rare
    /\ crashes' = crashes + 1
    /\ users' = db
    /\ bought' = [u \in Users |-> IF db[u] = None THEN 0 ELSE (Used(db[u]) + db[u].slots) \div SubscriptionSlots]
    /\ queue' = <<>> /\ outdated' = [n \in 0..MaxHeight |-> {}] /\ order' = <<>>
    /\ gone' = [n \in 0..MaxHeight |-> {}]
    /\ pc' = "get" /\ todo' = {} /\ request' = None /\ op' = NoOp /\ dead' = {}
    /\ UNCHANGED <<height, db, h, cur>>

Init ==
    /\ height = 0 /\ queue = <<>>
    /\ users = [u \in Users |-> None] /\ db = users
    /\ outdated = [n \in 0..MaxHeight |-> {}] /\ order = <<>>
    /\ pc = "get" /\ h = 0 /\ todo = {} /\ cur \in Users
    /\ request = None /\ op = NoOp /\ dead = {}
    /\ bought = [u \in Users |-> 0] /\ gone = [n \in 0..MaxHeight |-> {}] /\ crashes = 0

Manage ==
    \/ GetBlock \/ ReadOutdated \/ InsertOutdated \/ GetOutdatedIds
    \/ \E u \in Users : PopUser(u)
    \/ DeleteUser \/ DeletedAll

Next ==
    \/ NewBlock \/ Manage
    \/ \E u \in Users : Register(u)
    \/ \E x \in Uuids, n \in BlobSlots : Check(x, n)
    \/ Charge \/ (\E x \in Uuids : Free(x)) \/ Snapshot \/ Store
    \/ Restart

Spec == Init /\ [][Next]_vars

-----------------------------------------------------------------------------
(* The state is of its type; and slots are neither made nor lost: what a   *)
(* user has left and what the appointments take is what was bought,        *)
(* whatever is added, updated to another size, freed, renewed or loaded    *)
(* from disk.                                                              *)
SlotsConserved ==
    /\ TypeOK
    /\ \A u \in Registered : users[u].slots + Used(users[u]) = bought[u] * SubscriptionSlots

(* Memory and disk agree whenever no operation and no deletion is under    *)
(* way, so that a crash takes nothing that was acknowledged.               *)
DbMirrors == op = NoOp /\ pc # "delete" => db = users

(* No KeyError ends the thread of the Gatekeeper or a watch thread.        *)
NobodyDies == dead = {}

(* The Watcher and the Responder get the users that were deleted at a      *)
(* block for as long as the cache remembers it, and it remembers the last  *)
(* CacheBlocks of them: housekeeping can come after the deletion.          *)
DeletedAreServed ==
    /\ \A i \in DOMAIN order : gone[order[i]] \subseteq GetOutdatedUsers(order[i])
    /\ \A n \in 0..MaxHeight : gone[n] # {} /\ n + CacheBlocks > h => Contains(order, n)

(* A user has the grace time: nobody is deleted before the block of the    *)
(* subscription's expiry plus expiry_delta.                                *)
GraceTime ==
    [][\A u \in Users : users[u] # None /\ users'[u] = None /\ crashes' = crashes =>
            h >= users[u].expiry + ExpiryDelta]_vars

(* No subscription outlives that block once it has been looked at.         *)
OutdatedAreDeleted ==
    pc = "get" /\ op = NoOp => \A u \in Registered : users[u].expiry + ExpiryDelta > h
=============================================================================
