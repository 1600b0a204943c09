--------------------------- MODULE GatekeeperProofs ---------------------------
(***************************************************************************)
(* The users in memory are those on disk, nobody is deleted before the     *)
(* grace time is over or kept after it, no thread dies of it, and no slot  *)
(* is made or lost: for any number of users, appointments, blocks,         *)
(* registrations and crashes.                                              *)
(*                                                                         *)
(* The rare events break the first three (see the README), so the theorems *)
(* name as a condition which of them do not happen; the slots need none.   *)
(***************************************************************************)
EXTENDS Gatekeeper, FiniteSetTheorems, SequenceTheorems, WellFoundedInduction, TLAPS

(* No height comes twice, and nobody does anything for a user whom the     *)
(* thread is busy with.                                                    *)
Orderly == Rare \cap {"duplicate", "overlap"} = {}

-----------------------------------------------------------------------------
(* The inductive invariant.                                                *)

Heights == 0..MaxHeight

GateTypes ==
    /\ height \in Heights /\ queue \in Seq(Heights) /\ h \in Heights
    /\ users \in [Users -> UserInfo \cup {None}] /\ db \in [Users -> UserInfo \cup {None}]
    /\ outdated \in [Heights -> SUBSET Users]
    /\ pc \in {"get", "read", "insert", "ids", "pop", "delete"}
    /\ todo \subseteq Users /\ cur \in Users
    /\ request \in {None} \cup [uuid : Uuids, required : BlobSlots]
    /\ op \in {NoOp} \cup [step : {"snapshot"}, kind : {"register", "add", "free"}, user : Users]
              \cup [step : {"store"}, user : Users, info : UserInfo]
    /\ crashes \in Nat

(* Heights come in order.                                                  *)
Ascending(q, a, b) ==
    /\ \A i \in 1..Len(q) : a < q[i] /\ q[i] <= b
    /\ \A i, j \in 1..Len(q) : i < j => q[i] < q[j]

InOrder ==
    /\ h <= height /\ Ascending(queue, h, height)
    /\ \A n \in Heights : outdated[n] # {} => n <= h /\ (pc \in {"read", "insert"} => n < h)

(* A user on disk is the one in memory, unless being stored or deleted;    *)
(* and nobody is both.                                                     *)
OnDisk ==
    /\ \A u \in Users : \/ db[u] = users[u]
                        \/ op # NoOp /\ op.user = u
                        \/ pc = "delete" /\ u = cur
    /\ op.step = "snapshot" => users[op.user] # None
    /\ op.step = "store" => users[op.user] = op.info
    /\ pc = "delete" => users[cur] = None
    /\ op # NoOp /\ pc = "delete" => op.user # cur

Due(u) == users[u] # None /\ h >= users[u].expiry + ExpiryDelta

(* Whoever the thread has picked is still there, and due.                  *)
PickedAreDue ==
    /\ pc \in {"insert", "pop", "delete"} => \A u \in todo : Due(u)
    /\ pc = "ids" => \A u \in outdated[h] : Due(u)

GateInv == Orderly /\ GateTypes /\ InOrder /\ OnDisk /\ PickedAreDue /\ dead = {}

-----------------------------------------------------------------------------
LEMMA ConstantTypes ==
    /\ OwnerOf \in [Uuids -> Users] /\ BlobSlots \subseteq Nat \ {0}
    /\ SubscriptionSlots \in Nat \ {0} /\ Duration \in Nat \ {0} /\ ExpiryDelta \in Nat \ {0}
    /\ CacheBlocks \in Nat \ {0} /\ MaxHeight \in Nat /\ None \notin UserInfo
BY GatekeeperAssumption DEF UserInfo

LEMMA UuidsAreFinite == IsFiniteSet(Uuids)
BY GatekeeperAssumption

LEMMA HeightTypes == GateInv => height \in Nat /\ h \in Nat /\ MaxHeight \in Nat
BY ConstantTypes DEF GateInv, GateTypes, Heights

(* Who is registered is a user.                                            *)
LEMMA RegisteredType ==
    ASSUME GateTypes, NEW u \in Users, users[u] # None
    PROVE  /\ users[u] \in UserInfo /\ users[u].expiry \in Nat /\ users[u].slots \in Nat
           /\ users[u].apps \in [Uuids -> Nat]
BY DEF GateTypes, UserInfo

LEMMA OpTypes ==
    ASSUME GateInv
    PROVE  /\ op.step \in {"none", "snapshot", "store"} /\ (op.step = "none" <=> op = NoOp)
           /\ op # NoOp => op.user \in Users
           /\ op.step = "store" => op.info \in UserInfo
BY DEF GateInv, GateTypes, NoOp

LEMMA AscendingTail ==
    ASSUME NEW q \in Seq(Heights), q # <<>>, NEW a \in Nat, NEW b \in Nat, Ascending(q, a, b)
    PROVE  /\ Tail(q) \in Seq(Heights) /\ Head(q) \in Heights /\ a < Head(q) /\ Head(q) <= b
           /\ Ascending(Tail(q), Head(q), b)
<1>1. /\ Tail(q) \in Seq(Heights) /\ Len(Tail(q)) = Len(q) - 1 /\ Len(q) \in Nat /\ Len(q) # 0
      /\ \A i \in 1..Len(Tail(q)) : Tail(q)[i] = q[i + 1]
      /\ Head(q) = q[1] /\ Head(q) \in Heights
  BY HeadTailProperties, LenProperties, EmptySeq
<1>2. 1 \in 1..Len(q) /\ \A i \in 1..Len(Tail(q)) : i \in Nat /\ i + 1 \in 1..Len(q) /\ 1 < i + 1
  BY <1>1
<1>3. ASSUME NEW i \in 1..Len(Tail(q)) PROVE Head(q) < Tail(q)[i] /\ Tail(q)[i] <= b
  BY <1>1, <1>2 DEF Ascending
<1>4. ASSUME NEW i \in 1..Len(Tail(q)), NEW j \in 1..Len(Tail(q)), i < j PROVE Tail(q)[i] < Tail(q)[j]
  <2>1. i + 1 < j + 1
    BY <1>2, <1>4
  <2> QED BY <1>1, <1>2, <2>1 DEF Ascending
<1> QED BY <1>1, <1>2, <1>3, <1>4 DEF Ascending

LEMMA AscendingAppend ==
    ASSUME NEW q \in Seq(Heights), NEW a \in Nat, NEW b \in Nat, NEW n \in Heights, n \in Nat,
           Ascending(q, a, b), a <= b, b < n
    PROVE  q \o <<n>> \in Seq(Heights) /\ Ascending(q \o <<n>>, a, n)
<1> DEFINE s == q \o <<n>>
<1>1. /\ s \in Seq(Heights) /\ Len(q) \in Nat /\ Len(s) = Len(q) + 1
      /\ \A i \in 1..Len(q) : s[i] = q[i] /\ q[i] \in Nat
      /\ s[Len(q) + 1] = n
  BY ConstantTypes DEF Heights
<1> HIDE DEF s
<1>2. \A i \in 1..Len(s) : i \in 1..Len(q) \/ i = Len(q) + 1
  BY <1>1
<1>3. \A i \in 1..Len(s) : a < s[i] /\ s[i] <= n
  BY <1>1, <1>2 DEF Ascending
<1>4. \A i \in 1..Len(q) : s[i] < n
  BY <1>1 DEF Ascending
<1>5. ASSUME NEW i \in 1..Len(s), NEW j \in 1..Len(s), i < j PROVE s[i] < s[j]
  <2>1. i \in 1..Len(q)
    BY <1>1, <1>5
  <2>2. CASE j = Len(q) + 1
    BY <1>1, <1>4, <2>1, <2>2
  <2>3. CASE j \in 1..Len(q)
    BY <1>1, <1>5, <2>1, <2>3 DEF Ascending
  <2> QED BY <1>2, <2>2, <2>3
<1>6. Ascending(s, a, n)
  BY <1>3, <1>5 DEF Ascending
<1> QED BY <1>1, <1>6 DEF s

-----------------------------------------------------------------------------
(* The steps, first those of the thread.                                   *)

LEMMA InitGate == Orderly /\ Init => GateInv
<1> SUFFICES ASSUME Orderly, Init PROVE GateInv
  OBVIOUS
<1>1. <<>> \in Seq(Heights) /\ Len(<<>>) = 0
  BY EmptySeq
<1>2. GateTypes
  BY <1>1, ConstantTypes DEF Init, GateTypes, Heights, NoOp
<1>3. InOrder
  BY <1>1 DEF Init, InOrder, Ascending, Heights
<1>4. OnDisk /\ PickedAreDue
  BY DEF Init, OnDisk, PickedAreDue, NoOp
<1> QED BY <1>2, <1>3, <1>4 DEF GateInv, Init

LEMMA NewBlockGate == GateInv /\ NewBlock => GateInv'
<1> SUFFICES ASSUME GateInv, NewBlock PROVE GateInv'
  OBVIOUS
<1>1. /\ UNCHANGED <<users, db, outdated, pc, h, todo, cur, request, op, dead, crashes>>
      /\ \E n \in {height + 1, height + 2} : n <= MaxHeight /\ height' = n /\ queue' = queue \o <<n>>
  BY DEF NewBlock, cacheVars, threadVars, GateInv, Orderly
<1>2. PICK n \in {height + 1, height + 2} : n <= MaxHeight /\ height' = n /\ queue' = queue \o <<n>>
  BY <1>1
<1>3. n \in Heights /\ n \in Nat /\ height < n
  BY <1>2, HeightTypes DEF Heights
<1>4. queue' \in Seq(Heights) /\ Ascending(queue', h, n)
  BY <1>2, <1>3, HeightTypes, AscendingAppend DEF GateInv, GateTypes, InOrder
<1>5. GateTypes'
  BY <1>1, <1>2, <1>3, <1>4 DEF GateInv, GateTypes
<1>6. h' <= height'
  BY <1>1, <1>2, <1>3, HeightTypes DEF GateInv, InOrder
<1>7. InOrder'
  BY <1>1, <1>2, <1>4, <1>6 DEF GateInv, InOrder
<1>8. OnDisk' /\ PickedAreDue'
  BY <1>1 DEF GateInv, OnDisk, PickedAreDue, Due
<1> QED BY <1>1, <1>5, <1>7, <1>8 DEF GateInv, Orderly

LEMMA GetBlockGate == GateInv /\ GetBlock => GateInv'
<1> SUFFICES ASSUME GateInv, GetBlock PROVE GateInv'
  OBVIOUS
<1>1. /\ UNCHANGED <<height, users, db, outdated, todo, cur, request, op, dead, crashes>>
      /\ pc = "get" /\ pc' = "read" /\ queue # <<>> /\ h' = Head(queue) /\ queue' = Tail(queue)
  BY DEF GetBlock, cacheVars
<1>2. /\ queue' \in Seq(Heights) /\ h' \in Heights /\ h < h' /\ h' <= height
      /\ Ascending(queue', h', height)
  BY <1>1, AscendingTail, HeightTypes DEF GateInv, GateTypes, InOrder
<1>3. GateTypes'
  BY <1>1, <1>2 DEF GateInv, GateTypes
<1>4. \A n \in Heights : outdated[n] # {} => n < h'
  BY <1>2, HeightTypes DEF GateInv, InOrder, Heights
<1>5. InOrder'
  BY <1>1, <1>2, <1>4, HeightTypes DEF InOrder, Heights
<1>6. OnDisk' /\ PickedAreDue'
  BY <1>1 DEF GateInv, OnDisk, PickedAreDue
<1> QED BY <1>1, <1>3, <1>5, <1>6 DEF GateInv, Orderly

(* Whoever is picked without the help of the cache is due.                 *)
LEMMA OutdatedAreDue ==
    ASSUME GateInv
    PROVE  /\ GetOutdatedUsers(h) \subseteq Users
           /\ outdated[h] = {} => \A u \in GetOutdatedUsers(h) : Due(u)
           /\ outdated[h] # {} => GetOutdatedUsers(h) = outdated[h]
<1>1. GateTypes /\ outdated[h] \subseteq Users
  BY DEF GateInv, GateTypes
<1>2. ASSUME NEW u \in Registered, h = users[u].expiry + ExpiryDelta PROVE Due(u)
  BY <1>1, <1>2, RegisteredType, ConstantTypes DEF Registered, Due
<1> QED BY <1>1, <1>2 DEF GetOutdatedUsers, Registered

LEMMA ReadGate == GateInv /\ ReadOutdated => GateInv'
<1> SUFFICES ASSUME GateInv, ReadOutdated PROVE GateInv'
  OBVIOUS
<1>1. /\ UNCHANGED <<height, queue, h, users, db, outdated, cur, request, op, dead, crashes>>
      /\ pc = "read" /\ pc' = "insert" /\ todo' = GetOutdatedUsers(h)
  BY DEF ReadOutdated, blockVars, cacheVars
<1>2. outdated[h] = {}
  BY <1>1, HeightTypes DEF GateInv, GateTypes, InOrder
<1>3. GateTypes'
  BY <1>1, OutdatedAreDue DEF GateInv, GateTypes
<1>4. InOrder' /\ OnDisk'
  BY <1>1 DEF GateInv, InOrder, OnDisk
<1>5. PickedAreDue'
  BY <1>1, <1>2, OutdatedAreDue DEF PickedAreDue, Due
<1> QED BY <1>1, <1>3, <1>4, <1>5 DEF GateInv, Orderly

LEMMA InsertGate == GateInv /\ InsertOutdated => GateInv'
<1> SUFFICES ASSUME GateInv, InsertOutdated PROVE GateInv'
  OBVIOUS
<1>1. /\ UNCHANGED <<height, queue, h, users, db, cur, request, op, dead, crashes>>
      /\ pc = "insert" /\ pc' = "ids" /\ todo' = {}
  BY DEF InsertOutdated, blockVars
<1>2. /\ outdated' \in [Heights -> SUBSET Users]
      /\ outdated'[h] \subseteq outdated[h] \cup todo
      /\ \A n \in Heights \ {h} : outdated'[n] \subseteq outdated[n]
  <2>1. CASE Contains(order, h)
    BY <2>1 DEF InsertOutdated, cacheVars, GateInv, GateTypes
  <2>2. CASE ~Contains(order, h)
    <3>1. /\ outdated' = [n \in 0..MaxHeight |-> outdated'[n]]
          /\ \A n \in 0..MaxHeight : \/ n = h /\ outdated'[n] = todo
                                     \/ n # h /\ outdated'[n] \in {{}, outdated[n]}
      BY <2>2 DEF InsertOutdated
    <3> QED BY <3>1 DEF GateInv, GateTypes, Heights
  <2> QED BY <2>1, <2>2
<1>3. GateTypes'
  BY <1>1, <1>2 DEF GateInv, GateTypes
<1>4. \A n \in Heights : outdated'[n] # {} => n <= h
  BY <1>1, <1>2, HeightTypes DEF GateInv, GateTypes, InOrder
<1>5. InOrder' /\ OnDisk'
  BY <1>1, <1>4 DEF GateInv, InOrder, OnDisk
<1>6. outdated[h] = {}
  BY <1>1, HeightTypes DEF GateInv, GateTypes, InOrder
<1>7. PickedAreDue'
  BY <1>1, <1>2, <1>6 DEF GateInv, PickedAreDue, Due
<1> QED BY <1>1, <1>3, <1>5, <1>7 DEF GateInv, Orderly

LEMMA IdsGate == GateInv /\ GetOutdatedIds => GateInv'
<1> SUFFICES ASSUME GateInv, GetOutdatedIds PROVE GateInv'
  OBVIOUS
<1>1. /\ UNCHANGED <<height, queue, h, users, db, outdated, cur, request, op, dead, crashes>>
      /\ pc = "ids" /\ pc' = "pop" /\ todo' = GetOutdatedUsers(h)
  BY DEF GetOutdatedIds, blockVars, cacheVars
<1>2. \A u \in GetOutdatedUsers(h) : Due(u)
  BY <1>1, OutdatedAreDue DEF GateInv, PickedAreDue
<1>3. GateTypes'
  BY <1>1, OutdatedAreDue DEF GateInv, GateTypes
<1>4. InOrder' /\ OnDisk'
  BY <1>1 DEF GateInv, InOrder, OnDisk
<1>5. PickedAreDue'
  BY <1>1, <1>2 DEF PickedAreDue, Due
<1> QED BY <1>1, <1>3, <1>4, <1>5 DEF GateInv, Orderly

LEMMA PopGate ==
    ASSUME GateInv, NEW u \in Users, PopUser(u)
    PROVE  GateInv'
<1>1. /\ pc = "pop" /\ u \in todo /\ todo' = todo \ {u} /\ cur' = u
      /\ UNCHANGED <<height, queue, h, db, outdated, request, op, crashes>>
      /\ op # NoOp => op.user # u
  BY DEF PopUser, blockVars, cacheVars, GateInv, Orderly
<1>2. users[u] # None
  BY <1>1 DEF GateInv, PickedAreDue, Due
<1>3. users' = [users EXCEPT ![u] = None] /\ pc' = "delete" /\ UNCHANGED dead
  BY <1>2 DEF PopUser
<1>4. users' \in [Users -> UserInfo \cup {None}] /\ users'[u] = None /\ \A v \in Users : v # u => users'[v] = users[v]
  BY <1>3 DEF GateInv, GateTypes
<1>5. GateTypes'
  BY <1>1, <1>3, <1>4 DEF GateInv, GateTypes
<1>6. InOrder'
  BY <1>1, <1>3 DEF GateInv, InOrder
<1>7. OnDisk'
  BY <1>1, <1>3, <1>4, OpTypes DEF GateInv, OnDisk, NoOp
<1>8. PickedAreDue'
  BY <1>1, <1>3, <1>4 DEF GateInv, GateTypes, PickedAreDue, Due
<1> QED BY <1>3, <1>5, <1>6, <1>7, <1>8 DEF GateInv, Orderly

LEMMA DeleteGate == GateInv /\ (DeleteUser \/ DeletedAll) => GateInv'
<1> SUFFICES ASSUME GateInv, DeleteUser \/ DeletedAll PROVE GateInv'
  OBVIOUS
<1>1. UNCHANGED <<height, queue, h, users, outdated, todo, cur, request, op, dead, crashes>>
  BY DEF DeleteUser, DeletedAll, blockVars, cacheVars
<1>2. \/ pc = "delete" /\ pc' = "pop" /\ db' = [db EXCEPT ![cur] = None]
      \/ pc = "pop" /\ pc' = "get" /\ db' = db
  BY DEF DeleteUser, DeletedAll
<1>3. GateTypes' /\ InOrder'
  BY <1>1, <1>2 DEF GateInv, GateTypes, InOrder
<1>4. OnDisk'
  BY <1>1, <1>2 DEF GateInv, GateTypes, OnDisk
<1>5. PickedAreDue'
  BY <1>1, <1>2 DEF GateInv, PickedAreDue, Due
<1> QED BY <1>1, <1>3, <1>4, <1>5 DEF GateInv, Orderly

-----------------------------------------------------------------------------
(* An operation changes one user, whom the thread has no business with.    *)

LEMMA OneUser ==
    ASSUME GateInv, NEW u \in Users, NEW k \in {"register", "add", "free"}, op = NoOp, Begin(k, u),
           users' \in [Users -> UserInfo \cup {None}], users'[u] \in UserInfo,
           \A v \in Users : v # u => users'[v] = users[v],
           request' \in {None, request},
           UNCHANGED <<height, queue, h, db, outdated, pc, todo, cur, dead, crashes>>
    PROVE  GateInv'
<1>1. ~Going(u) /\ op' = [step |-> "snapshot", kind |-> k, user |-> u]
  BY DEF Begin, GateInv, Orderly
<1>2. users' \in [Users -> UserInfo \cup {None}]
  OBVIOUS
<1>3. GateTypes'
  BY <1>1, <1>2 DEF GateInv, GateTypes
<1>4. InOrder'
  BY DEF GateInv, InOrder
<1>5. pc = "delete" => u # cur
  BY <1>1 DEF Going
<1>6. op' # NoOp /\ op'.user = u /\ op'.step = "snapshot"
  BY <1>1 DEF NoOp
<1>7. OnDisk'
  BY <1>5, <1>6, ConstantTypes DEF GateInv, GateTypes, OnDisk
<1>8. PickedAreDue'
  <2>1. u \notin todo /\ (pc = "ids" => u \notin outdated[h])
    BY <1>1, OutdatedAreDue DEF Going
  <2> QED BY <2>1 DEF GateInv, GateTypes, PickedAreDue, Due
<1> QED BY <1>3, <1>4, <1>7, <1>8 DEF GateInv, Orderly

(* Slots go from what a user has left to an appointment, or back.          *)
Moves(info, new) ==
    \E x \in Uuids : /\ new.slots + new.apps[x] = info.slots + info.apps[x]
                     /\ \A y \in Uuids : y # x => new.apps[y] = info.apps[y]

LEMMA RegisterIs ==
    ASSUME GateTypes, NEW u \in Users, Register(u)
    PROVE  /\ op = NoOp /\ Begin("register", u)
           /\ users' \in [Users -> UserInfo \cup {None}] /\ users'[u] \in UserInfo /\ users'[u].expiry = height + Duration
           /\ bought[u] < MaxRegistrations /\ bought' = [bought EXCEPT ![u] = @ + 1]
           /\ users[u] = None => users'[u] = Fresh
           /\ users[u] # None => /\ users'[u].slots = users[u].slots + SubscriptionSlots
                                 /\ users'[u].apps = users[u].apps
           /\ \A v \in Users : v # u => users'[v] = users[v]
           /\ UNCHANGED <<request, height, queue, h, db, outdated, order, pc, todo, cur, dead, gone, crashes>>
<1>1. /\ op = NoOp /\ Begin("register", u)
      /\ bought[u] < MaxRegistrations /\ bought' = [bought EXCEPT ![u] = @ + 1]
  BY DEF Register
<1>2. UNCHANGED <<request, height, queue, h, db, outdated, order, pc, todo, cur, dead, gone, crashes>>
  BY DEF Register, blockVars, cacheVars, threadVars
<1>3. height \in Nat /\ height + Duration \in Nat
  BY ConstantTypes DEF GateTypes, Heights
<1>4. CASE users[u] = None
  <2>1. users' = [users EXCEPT ![u] = Fresh]
    BY <1>4 DEF Register
  <2>2. users'[u] = Fresh
    BY <2>1 DEF GateTypes
  <2>3. Fresh \in UserInfo /\ Fresh.expiry = height + Duration
    BY <1>3, ConstantTypes DEF Fresh, UserInfo
  <2> QED BY <1>1, <1>2, <1>4, <2>1, <2>2, <2>3 DEF GateTypes
<1>5. CASE users[u] # None
  <2>1. users' = [users EXCEPT ![u].slots = @ + SubscriptionSlots, ![u].expiry = height + Duration]
    BY <1>5 DEF Register
  <2>2. users[u] \in UserInfo /\ users[u].slots + SubscriptionSlots \in Nat
    BY <1>5, RegisteredType, ConstantTypes
  <2>3. /\ DOMAIN users' = Users /\ \A v \in Users : v # u => users'[v] = users[v]
        /\ users'[u] = [users[u] EXCEPT !.slots = users[u].slots + SubscriptionSlots,
                                        !.expiry = height + Duration]
    BY <2>1 DEF GateTypes
  <2>4. /\ users'[u] \in UserInfo /\ users'[u].expiry = height + Duration
        /\ users'[u].slots = users[u].slots + SubscriptionSlots /\ users'[u].apps = users[u].apps
    BY <1>3, <2>2, <2>3, ConstantTypes DEF UserInfo
  <2> QED BY <1>1, <1>2, <1>5, <2>1, <2>3, <2>4 DEF GateTypes
<1> QED BY <1>4, <1>5

LEMMA EditUser ==
    ASSUME NEW info \in UserInfo, NEW s \in Nat, NEW a \in [Uuids -> Nat]
    PROVE  LET new == [info EXCEPT !.slots = s, !.apps = a]
           IN  new \in UserInfo /\ new.expiry = info.expiry
BY DEF UserInfo

LEMMA SetUser ==
    ASSUME NEW f \in [Users -> UserInfo \cup {None}], NEW u \in Users, NEW info \in UserInfo
    PROVE  LET g == [f EXCEPT ![u] = info]
           IN  /\ g \in [Users -> UserInfo \cup {None}] /\ g[u] = info
               /\ \A v \in Users : v # u => g[v] = f[v]
OBVIOUS

LEMMA ChargeIs ==
    ASSUME GateTypes, Charge
    PROVE  /\ op = NoOp /\ request' = None
           /\ UNCHANGED <<height, queue, h, db, outdated, order, pc, todo, cur, dead, bought, gone, crashes>>
           /\ \/ UNCHANGED <<users, op>>
              \/ \E u \in Users :
                    /\ Begin("add", u) /\ users[u] # None
                    /\ users' \in [Users -> UserInfo \cup {None}] /\ users'[u] \in UserInfo
                    /\ users'[u].expiry = users[u].expiry /\ Moves(users[u], users'[u])
                    /\ \A v \in Users : v # u => users'[v] = users[v]
<1>1. op = NoOp /\ request' = None /\ request # None
  BY DEF Charge
<1>2. UNCHANGED <<height, queue, h, db, outdated, order, pc, todo, cur, dead, bought, gone, crashes>>
  BY DEF Charge, blockVars, cacheVars, threadVars
<1> DEFINE u == OwnerOf[request.uuid]
           x == request.uuid
           r == request.required
           used == users[u].apps[x]
<1>3. x \in Uuids /\ r \in Nat /\ u \in Users
  BY <1>1, ConstantTypes DEF GateTypes
<1>4. CASE users[u] # None /\ users[u].slots + used >= r
  <2>1. /\ Begin("add", u)
        /\ users' = [users EXCEPT ![u].slots = (@ + used) - r, ![u].apps[x] = r]
    BY <1>4 DEF Charge
  <2>2. users[u] \in UserInfo /\ users[u].slots \in Nat /\ users[u].apps \in [Uuids -> Nat]
    BY <1>3, <1>4, RegisteredType
  <2> DEFINE s == (users[u].slots + used) - r
             a == [users[u].apps EXCEPT ![x] = r]
  <2>3. /\ s \in Nat /\ a \in [Uuids -> Nat]
        /\ s + a[x] = users[u].slots + users[u].apps[x]
        /\ \A y \in Uuids : y # x => a[y] = users[u].apps[y]
    <3>1. used \in Nat
      BY <1>3, <2>2
    <3> QED BY <1>3, <1>4, <2>2, <3>1
  <2> DEFINE new == [users[u] EXCEPT !.slots = s, !.apps = a]
  <2>4. users' = [users EXCEPT ![u] = new]
    BY <1>3, <2>1, <2>2 DEF GateTypes, UserInfo
  <2> HIDE DEF s, a, u
  <2>5. new \in UserInfo /\ new.expiry = users[u].expiry /\ new.slots = s /\ new.apps = a
    <3>0. s \in Nat /\ a \in [Uuids -> Nat] /\ users[u] \in UserInfo
      BY <2>2, <2>3
    <3>1. new \in UserInfo /\ new.expiry = users[u].expiry
      BY <3>0, EditUser
    <3>2. DOMAIN users[u] = {"slots", "expiry", "apps"}
      BY <2>2 DEF UserInfo
    <3> QED BY <2>2, <3>1, <3>2
  <2> HIDE DEF new
  <2>6. /\ users' \in [Users -> UserInfo \cup {None}] /\ users'[u] = new
        /\ \A v \in Users : v # u => users'[v] = users[v]
    BY <1>3, <2>4, <2>5, SetUser DEF GateTypes
  <2>7. Moves(users[u], users'[u])
    BY <1>3, <2>3, <2>5, <2>6 DEF Moves
  <2>8. Begin("add", u) /\ users[u] # None /\ users'[u] \in UserInfo /\ users'[u].expiry = users[u].expiry
    BY <1>4, <2>1, <2>5, <2>6
  <2> QED BY <1>1, <1>2, <1>3, <2>6, <2>7, <2>8
<1>5. CASE ~(users[u] # None /\ users[u].slots + used >= r)
  <2>1. UNCHANGED <<users, op>>
    BY <1>5 DEF Charge
  <2> QED BY <1>1, <1>2, <2>1
<1> QED BY <1>4, <1>5

LEMMA FreeIs ==
    ASSUME GateTypes, NEW x \in Uuids, Free(x)
    PROVE  /\ op = NoOp
           /\ UNCHANGED <<height, queue, h, db, outdated, order, pc, todo, cur, request, dead, bought, gone, crashes>>
           /\ \E u \in Users :
                 /\ Begin("free", u) /\ users[u] # None
                 /\ users' \in [Users -> UserInfo \cup {None}] /\ users'[u] \in UserInfo
                 /\ users'[u].expiry = users[u].expiry /\ Moves(users[u], users'[u])
                 /\ \A v \in Users : v # u => users'[v] = users[v]
<1> DEFINE u == OwnerOf[x]
<1>1. /\ op = NoOp /\ users[u] # None /\ Begin("free", u) /\ u \in Users
      /\ users' = [users EXCEPT ![u].slots = @ + users[u].apps[x], ![u].apps[x] = 0]
  BY ConstantTypes DEF Free
<1>2. UNCHANGED <<height, queue, h, db, outdated, order, pc, todo, cur, request, dead, bought, gone, crashes>>
  BY DEF Free, blockVars, cacheVars, threadVars
<1>3. users[u] \in UserInfo /\ users[u].slots \in Nat /\ users[u].apps \in [Uuids -> Nat]
  BY <1>1, RegisteredType
<1> DEFINE s == users[u].slots + users[u].apps[x]
           a == [users[u].apps EXCEPT ![x] = 0]
<1>4. /\ s \in Nat /\ a \in [Uuids -> Nat]
      /\ s + a[x] = users[u].slots + users[u].apps[x]
      /\ \A y \in Uuids : y # x => a[y] = users[u].apps[y]
  BY <1>3
<1> DEFINE new == [users[u] EXCEPT !.slots = s, !.apps = a]
<1>5. users' = [users EXCEPT ![u] = new]
  <2>1. DOMAIN users[u] = {"slots", "expiry", "apps"} /\ users \in [Users -> UserInfo \cup {None}]
    BY <1>3 DEF GateTypes, UserInfo
  <2> QED BY <1>1, <1>3, <2>1
<1>6. u \in Users /\ users \in [Users -> UserInfo \cup {None}]
  BY <1>1 DEF GateTypes
<1> HIDE DEF s, a, u
<1>7. new \in UserInfo /\ new.expiry = users[u].expiry /\ new.slots = s /\ new.apps = a
  <2>0. s \in Nat /\ a \in [Uuids -> Nat] /\ users[u] \in UserInfo
    BY <1>3, <1>4
  <2>1. new \in UserInfo /\ new.expiry = users[u].expiry
    BY <2>0, EditUser
  <2>2. DOMAIN users[u] = {"slots", "expiry", "apps"}
    BY <1>3 DEF UserInfo
  <2> QED BY <1>3, <2>1, <2>2
<1> HIDE DEF new
<1>8. /\ users' \in [Users -> UserInfo \cup {None}] /\ users'[u] = new
      /\ \A v \in Users : v # u => users'[v] = users[v]
  BY <1>5, <1>7, <1>6, SetUser
<1>9. Moves(users[u], users'[u])
  BY <1>4, <1>7, <1>8 DEF Moves
<1>10. users'[u] \in UserInfo /\ users'[u].expiry = users[u].expiry
  BY <1>7, <1>8
<1> QED BY <1>1, <1>2, <1>8, <1>9, <1>10

LEMMA OperationGate ==
    GateInv /\ ((\E u \in Users : Register(u)) \/ Charge \/ (\E x \in Uuids : Free(x))) => GateInv'
<1> SUFFICES ASSUME GateInv, (\E u \in Users : Register(u)) \/ Charge \/ (\E x \in Uuids : Free(x))
             PROVE  GateInv'
  OBVIOUS
<1>0. GateTypes
  BY DEF GateInv
<1>1. ASSUME NEW u \in Users, Register(u) PROVE GateInv'
  BY <1>0, <1>1, RegisterIs, OneUser
<1>2. CASE Charge
  <2>1. CASE UNCHANGED <<users, op>>
    <3>1. GateTypes' /\ InOrder'
      BY <1>0, <1>2, <2>1, ChargeIs DEF GateInv, GateTypes, InOrder
    <3>2. OnDisk' /\ PickedAreDue' /\ dead' = {}
      BY <1>0, <1>2, <2>1, ChargeIs DEF GateInv, OnDisk, PickedAreDue, Due
    <3> QED BY <3>1, <3>2 DEF GateInv, Orderly
  <2>2. CASE ~UNCHANGED <<users, op>>
    BY <1>0, <1>2, <2>2, ChargeIs, OneUser
  <2> QED BY <2>1, <2>2
<1>3. ASSUME NEW x \in Uuids, Free(x) PROVE GateInv'
  BY <1>0, <1>3, FreeIs, OneUser
<1> QED BY <1>1, <1>2, <1>3

LEMMA CheckGate ==
    ASSUME GateInv, NEW x \in Uuids, NEW n \in BlobSlots, Check(x, n)
    PROVE  GateInv'
<1>1. /\ UNCHANGED <<height, queue, h, users, db, outdated, pc, todo, cur, op, dead, crashes>>
      /\ request' = [uuid |-> x, required |-> n]
  BY DEF Check, blockVars, cacheVars, threadVars
<1>2. GateTypes' /\ InOrder'
  BY <1>1 DEF GateInv, GateTypes, InOrder
<1>3. OnDisk' /\ PickedAreDue' /\ dead' = {}
  BY <1>1 DEF GateInv, OnDisk, PickedAreDue, Due
<1> QED BY <1>2, <1>3 DEF GateInv, Orderly

(* What is copied is what is stored.                                       *)
LEMMA StoreGate == GateInv /\ (Snapshot \/ Store) => GateInv'
<1> SUFFICES ASSUME GateInv, Snapshot \/ Store PROVE GateInv'
  OBVIOUS
<1>1. UNCHANGED <<height, queue, h, users, outdated, pc, todo, cur, request, crashes>>
  BY DEF Snapshot, Store, blockVars, cacheVars, threadVars
<1>2. InOrder' /\ PickedAreDue'
  BY <1>1 DEF GateInv, InOrder, PickedAreDue, Due
<1>3. CASE Snapshot
  <2>1. op.step = "snapshot" /\ op.user \in Users /\ users[op.user] # None /\ op # NoOp
    BY <1>3, OpTypes DEF Snapshot, GateInv, OnDisk
  <2>2. /\ op' = [step |-> "store", user |-> op.user, info |-> users[op.user]]
        /\ UNCHANGED <<db, dead>>
    BY <1>3, <2>1 DEF Snapshot
  <2>3. users[op.user] \in UserInfo
    BY <2>1, RegisteredType DEF GateInv
  <2>4. op' # NoOp /\ op'.step = "store" /\ op'.user = op.user /\ op'.info = users[op.user]
    BY <2>2 DEF NoOp
  <2>5. GateTypes'
    BY <1>1, <2>1, <2>2, <2>3 DEF GateInv, GateTypes
  <2>6. OnDisk'
    BY <1>1, <2>1, <2>2, <2>4 DEF GateInv, OnDisk
  <2> QED BY <1>2, <2>2, <2>5, <2>6 DEF GateInv, Orderly
<1>4. CASE Store
  <2>1. op.step = "store" /\ op.user \in Users /\ op.info \in UserInfo /\ op.info = users[op.user] /\ op # NoOp
    BY <1>4, OpTypes DEF Store, GateInv, OnDisk
  <2>2. db' = [db EXCEPT ![op.user] = op.info] /\ op' = NoOp /\ UNCHANGED dead
    BY <1>4 DEF Store
  <2>3. GateTypes'
    BY <1>1, <2>1, <2>2 DEF GateInv, GateTypes
  <2>4. OnDisk'
    BY <1>1, <2>1, <2>2 DEF GateInv, GateTypes, OnDisk, NoOp
  <2> QED BY <1>2, <2>2, <2>3, <2>4 DEF GateInv, Orderly
<1> QED BY <1>3, <1>4

LEMMA RestartGate == GateInv /\ Restart => GateInv'
<1> SUFFICES ASSUME GateInv, Restart PROVE GateInv'
  OBVIOUS
<1>1. /\ UNCHANGED <<height, db, h, cur>> /\ users' = db /\ queue' = <<>> /\ pc' = "get" /\ todo' = {}
      /\ request' = None /\ op' = NoOp /\ dead' = {} /\ crashes' = crashes + 1
      /\ outdated' = [n \in Heights |-> {}]
  BY DEF Restart, Heights
<1>2. <<>> \in Seq(Heights) /\ Len(<<>>) = 0
  BY EmptySeq
<1>3. GateTypes'
  BY <1>1, <1>2 DEF GateInv, GateTypes
<1>4. InOrder'
  BY <1>1, <1>2 DEF GateInv, InOrder, Ascending
<1>5. OnDisk' /\ PickedAreDue'
  BY <1>1 DEF OnDisk, PickedAreDue, NoOp
<1> QED BY <1>1, <1>3, <1>4, <1>5 DEF GateInv, Orderly

LEMMA StepGate == GateInv /\ [Next]_vars => GateInv'
<1> SUFFICES ASSUME GateInv, [Next]_vars PROVE GateInv'
  OBVIOUS
<1>1. ASSUME Manage PROVE GateInv'
  BY <1>1, GetBlockGate, ReadGate, InsertGate, IdsGate, PopGate, DeleteGate DEF Manage
<1>2. ASSUME UNCHANGED vars PROVE GateInv'
  <2>1. GateTypes' /\ InOrder'
    BY <1>2 DEF vars, blockVars, cacheVars, threadVars, GateInv, GateTypes, InOrder
  <2>2. OnDisk' /\ PickedAreDue' /\ dead' = {}
    BY <1>2 DEF vars, blockVars, cacheVars, threadVars, GateInv, OnDisk, PickedAreDue, Due
  <2> QED BY <2>1, <2>2 DEF GateInv, Orderly
<1> QED BY <1>1, <1>2, NewBlockGate, OperationGate, CheckGate, StoreGate, RestartGate DEF Next

(* What the thread has picked is there and due, and what is on disk is     *)
(* what is in memory, between any two steps of thread and operations.      *)
THEOREM GateInvariance == Orderly /\ Spec => []GateInv
<1> QED BY InitGate, StepGate, PTL DEF Spec

(* A crash between operations takes nothing that was acknowledged.         *)
THEOREM DbMirrorsHolds == Orderly /\ Spec => []DbMirrors
<1>1. GateInv => DbMirrors
  BY DEF GateInv, GateTypes, OnDisk, DbMirrors
<1> QED BY <1>1, GateInvariance, PTL

(* No thread comes upon a user who has been deleted.                       *)
THEOREM NobodyDiesHolds == Orderly /\ Spec => []NobodyDies
<1>1. GateInv => NobodyDies
  BY DEF GateInv, NobodyDies
<1> QED BY <1>1, GateInvariance, PTL

(* Nobody is deleted before the grace time is over, also when some blocks  *)
(* are never seen.                                                         *)
THEOREM GraceTimeHolds == Orderly /\ Spec => GraceTime
<1> DEFINE Grace == \A u \in Users : users[u] # None /\ users'[u] = None /\ crashes' = crashes =>
                        h >= users[u].expiry + ExpiryDelta
<1>1. GateInv /\ [Next]_vars => [Grace]_vars
  <2> SUFFICES ASSUME GateInv, [Next]_vars, NEW u \in Users, users[u] # None, users'[u] = None,
                      crashes' = crashes
               PROVE  h >= users[u].expiry + ExpiryDelta
    OBVIOUS
  <2>1. ASSUME NEW v \in Users, PopUser(v) PROVE h >= users[u].expiry + ExpiryDelta
    <3>1. u = v
      BY <2>1 DEF PopUser, GateInv, GateTypes
    <3> QED BY <2>1, <3>1 DEF PopUser, GateInv, PickedAreDue, Due
  <2>2. ~Restart
    BY DEF Restart, GateInv, GateTypes
  <2>3. ~Charge /\ (\A v \in Users : ~Register(v)) /\ (\A x \in Uuids : ~Free(x))
    BY ChargeIs, RegisterIs, FreeIs, ConstantTypes DEF GateInv
  <2>4. ASSUME users' = users PROVE FALSE
    BY <2>4
  <2> QED BY <2>1, <2>2, <2>3, <2>4 DEF Next, NewBlock, Manage, GetBlock, ReadOutdated, InsertOutdated,
            GetOutdatedIds, DeleteUser, DeletedAll, Check, Snapshot, Store, vars
<1> QED BY <1>1, GateInvariance, PTL DEF Spec, GraceTime

-----------------------------------------------------------------------------
(* The second inductive invariant: with no block missed, every user is     *)
(* looked at in the block in which it is due, and the cache remembers the  *)
(* users of the last CacheBlocks blocks.                                   *)

Looked == pc \notin {"read", "insert"}

Consecutive ==
    /\ \A i \in 1..Len(queue) : queue[i] = h + i
    /\ h + Len(queue) = height

(* The heights in the cache are the last ones that were looked at.         *)
Window ==
    /\ order \in Seq(Heights) /\ Len(order) <= CacheBlocks
    /\ \A i \in 1..Len(order) : order[i] + Len(order) = IF Looked THEN h + i ELSE (h + i) - 1

Overdue(info) == info # None /\ info.expiry + ExpiryDelta <= h
NotBefore(info) == info # None => info.expiry + ExpiryDelta >= h

Doomed ==
    CASE pc = "insert" -> todo
      [] pc = "ids"    -> outdated[h]
      [] pc = "pop"    -> todo
      [] pc = "delete" -> todo \cup {cur}
      [] OTHER         -> {}

(* Whoever is overdue, in memory or on disk, is being deleted.             *)
OverdueAreDoomed ==
    /\ pc # "read" => \A u \in Users : Overdue(users[u]) \/ Overdue(db[u]) => u \in Doomed
    /\ pc = "read" => \A u \in Users : NotBefore(users[u]) /\ NotBefore(db[u])

GoneAreKnown ==
    /\ gone \in [Heights -> SUBSET Users]
    /\ \A n \in Heights : gone[n] # {} =>
          /\ n <= h /\ (pc \in {"read", "insert", "ids"} => n < h)
          /\ Contains(order, n) => gone[n] \subseteq outdated[n]
          /\ n + CacheBlocks > h => Contains(order, n)
    /\ pc \in {"ids", "pop", "delete"} => Contains(order, h)
    /\ pc \in {"pop", "delete"} => todo \subseteq outdated[h]

CareInv == Rare = {} /\ Consecutive /\ Window /\ OverdueAreDoomed /\ GoneAreKnown

LEMMA InitCare == Rare = {} /\ Init => CareInv
<1> SUFFICES ASSUME Rare = {}, Init PROVE CareInv
  OBVIOUS
<1>1. <<>> \in Seq(Heights) /\ Len(<<>>) = 0
  BY EmptySeq
<1>2. Consecutive
  BY <1>1 DEF Init, Consecutive
<1>3. Window
  BY <1>1, ConstantTypes DEF Init, Window
<1>4. OverdueAreDoomed
  BY DEF Init, OverdueAreDoomed, Overdue
<1>5. GoneAreKnown
  BY DEF Init, GoneAreKnown, Heights
<1> QED BY <1>2, <1>3, <1>4, <1>5 DEF CareInv

(* Who is stored, charged or given back is not overdue by it.              *)
LEMMA UserCare ==
    ASSUME GateInv, CareInv, NEW u \in Users, NEW k, op = NoOp, Begin(k, u),
           ~Overdue(users'[u]) \/ (users[u] # None /\ users'[u] # None /\ users'[u].expiry = users[u].expiry),
           NotBefore(users'[u]) \/ (users[u] # None /\ users'[u] # None /\ users'[u].expiry = users[u].expiry),
           \A v \in Users : v # u => users'[v] = users[v],
           UNCHANGED <<height, queue, h, db, outdated, order, pc, todo, cur, gone>>
    PROVE  CareInv'
<1>1. Consecutive' /\ Window' /\ GoneAreKnown'
  BY DEF CareInv, Consecutive, Window, Looked, GoneAreKnown
<1>2. Doomed' = Doomed
  BY DEF Doomed
<1>3. OverdueAreDoomed'
  <2>1. ASSUME NEW v \in Users, pc # "read", Overdue(users[v])' \/ Overdue(db[v])'
        PROVE  v \in Doomed
    <3>1. Overdue(users[v]) \/ Overdue(db[v])
      BY <2>1 DEF Overdue
    <3> QED BY <2>1, <3>1 DEF CareInv, OverdueAreDoomed
  <2>2. ASSUME NEW v \in Users, pc = "read" PROVE NotBefore(users[v])' /\ NotBefore(db[v])'
    BY <2>2 DEF CareInv, OverdueAreDoomed, NotBefore
  <2> QED BY <1>2, <2>1, <2>2 DEF OverdueAreDoomed
<1> QED BY <1>1, <1>3 DEF CareInv

LEMMA OperationCare ==
    GateInv /\ CareInv /\ ((\E u \in Users : Register(u)) \/ Charge \/ (\E x \in Uuids : Free(x)))
        => CareInv'
<1> SUFFICES ASSUME GateInv, CareInv,
                    (\E u \in Users : Register(u)) \/ Charge \/ (\E x \in Uuids : Free(x))
             PROVE  CareInv'
  OBVIOUS
<1>0. GateTypes
  BY DEF GateInv
<1>1. ASSUME NEW u \in Users, Register(u) PROVE CareInv'
  <2>1. users'[u].expiry + ExpiryDelta > h /\ UNCHANGED h
    BY <1>0, <1>1, RegisterIs, HeightTypes, ConstantTypes DEF GateInv, InOrder
  <2>2. users'[u].expiry + ExpiryDelta \in Nat /\ h \in Nat
    BY <1>0, <1>1, RegisterIs, HeightTypes, ConstantTypes
  <2>3. ~Overdue(users'[u]) /\ NotBefore(users'[u])
    BY <2>1, <2>2 DEF Overdue, NotBefore
  <2> QED BY <1>0, <1>1, <2>3, RegisterIs, UserCare
<1>2. CASE Charge
  <2>1. CASE UNCHANGED <<users, op>>
    <3>1. Consecutive' /\ Window' /\ GoneAreKnown'
      BY <1>0, <1>2, <2>1, ChargeIs DEF CareInv, Consecutive, Window, Looked, GoneAreKnown
    <3>2. OverdueAreDoomed'
      BY <1>0, <1>2, <2>1, ChargeIs DEF CareInv, OverdueAreDoomed, Overdue, NotBefore, Doomed
    <3> QED BY <3>1, <3>2 DEF CareInv
  <2>2. CASE ~UNCHANGED <<users, op>>
    BY <1>0, <1>2, <2>2, ChargeIs, UserCare, ConstantTypes
  <2> QED BY <2>1, <2>2
<1>3. ASSUME NEW x \in Uuids, Free(x) PROVE CareInv'
  BY <1>0, <1>3, FreeIs, UserCare, ConstantTypes
<1> QED BY <1>1, <1>2, <1>3

(* Steps that concern neither users nor the heights looked at.             *)
LEMMA OtherCare ==
    GateInv /\ CareInv /\ ((\E x \in Uuids, n \in BlobSlots : Check(x, n)) \/ Snapshot \/ Store
                             \/ UNCHANGED vars)
        => CareInv'
<1> SUFFICES ASSUME GateInv, CareInv,
                    (\E x \in Uuids, n \in BlobSlots : Check(x, n)) \/ Snapshot \/ Store
                      \/ UNCHANGED vars
             PROVE  CareInv'
  OBVIOUS
<1>1. UNCHANGED <<height, queue, h, users, outdated, order, pc, todo, cur, gone>>
  BY DEF Check, Snapshot, Store, vars, blockVars, cacheVars, threadVars
<1>2. Consecutive' /\ Window' /\ GoneAreKnown'
  BY <1>1 DEF CareInv, Consecutive, Window, Looked, GoneAreKnown
<1>3. db' = db \/ \E u \in Users : db' = [db EXCEPT ![u] = users[u]]
  BY OpTypes DEF Check, Snapshot, Store, vars, GateInv, OnDisk
<1>4. \A v \in Users : db'[v] \in {db[v], users[v]}
  BY <1>3 DEF GateInv, GateTypes
<1>5. OverdueAreDoomed'
  BY <1>1, <1>4 DEF CareInv, OverdueAreDoomed, Overdue, NotBefore, Doomed
<1> QED BY <1>2, <1>5 DEF CareInv

LEMMA NewBlockCare == GateInv /\ CareInv /\ NewBlock => CareInv'
<1> SUFFICES ASSUME GateInv, CareInv, NewBlock PROVE CareInv'
  OBVIOUS
<1>1. /\ UNCHANGED <<users, db, outdated, order, pc, h, todo, cur, gone>>
      /\ height' = height + 1 /\ queue' = queue \o <<height + 1>>
  BY DEF NewBlock, cacheVars, threadVars, CareInv
<1>2. Window' /\ GoneAreKnown' /\ OverdueAreDoomed'
  BY <1>1 DEF CareInv, Window, Looked, GoneAreKnown, OverdueAreDoomed, Overdue, NotBefore, Doomed
<1>3. /\ Len(queue') = Len(queue) + 1 /\ Len(queue) \in Nat /\ queue'[Len(queue) + 1] = height + 1
      /\ \A i \in 1..Len(queue) : queue'[i] = queue[i]
  <2>1. queue \in Seq(Heights) /\ height + 1 \in Nat
    BY HeightTypes DEF GateInv, GateTypes
  <2> QED BY <1>1, <2>1
<1>4. \A i \in 1..Len(queue') : i \in 1..Len(queue) \/ i = Len(queue) + 1
  BY <1>3
<1>5. Consecutive'
  BY <1>1, <1>3, <1>4, HeightTypes DEF CareInv, Consecutive
<1> QED BY <1>2, <1>5 DEF CareInv

LEMMA GetBlockCare == GateInv /\ CareInv /\ GetBlock => CareInv'
<1> SUFFICES ASSUME GateInv, CareInv, GetBlock PROVE CareInv'
  OBVIOUS
<1>1. /\ UNCHANGED <<height, users, db, outdated, order, gone>>
      /\ pc = "get" /\ pc' = "read" /\ queue # <<>> /\ h' = Head(queue) /\ queue' = Tail(queue)
  BY DEF GetBlock, cacheVars
<1>2. /\ Len(queue') = Len(queue) - 1 /\ Len(queue) \in Nat /\ Len(queue) > 0 /\ h' = queue[1]
      /\ \A i \in 1..Len(queue') : queue'[i] = queue[i + 1]
  <2>1. queue \in Seq(Heights)
    BY DEF GateInv, GateTypes
  <2> QED BY <1>1, <2>1, HeadTailProperties, LenProperties, EmptySeq
<1>3. h' = h + 1
  BY <1>2 DEF CareInv, Consecutive
<1>4. Consecutive'
  <2>1. ASSUME NEW i \in 1..Len(queue') PROVE queue'[i] = h' + i
    <3>1. i + 1 \in 1..Len(queue) /\ i \in Nat
      BY <1>2
    <3>2. queue[i + 1] = h + (i + 1)
      BY <3>1 DEF CareInv, Consecutive
    <3> QED BY <1>2, <1>3, <3>1, <3>2, HeightTypes
  <2>2. h' + Len(queue') = height'
    BY <1>1, <1>2, <1>3, HeightTypes DEF CareInv, Consecutive
  <2> QED BY <2>1, <2>2 DEF Consecutive
<1>5. Window'
  <2>1. ASSUME NEW i \in 1..Len(order) PROVE order[i] + Len(order) = (h' + i) - 1
    <3>1. order \in Seq(Heights) /\ order[i] + Len(order) = h + i
      BY <1>1 DEF CareInv, Window, Looked
    <3>2. i \in Int
      BY <3>1, LenProperties
    <3> QED BY <1>3, <3>1, <3>2, HeightTypes
  <2> QED BY <1>1, <1>3, <2>1, HeightTypes DEF CareInv, Window, Looked
<1>6. OverdueAreDoomed'
  <2>1. ASSUME NEW info \in UserInfo \cup {None}, ~Overdue(info) PROVE info # None => info.expiry + ExpiryDelta >= h'
    <3>1. info # None => info.expiry \in Nat
      BY DEF UserInfo
    <3> QED BY <1>3, <2>1, <3>1, HeightTypes, ConstantTypes DEF Overdue
  <2>2. \A u \in Users : ~Overdue(users[u]) /\ ~Overdue(db[u])
    BY <1>1 DEF CareInv, OverdueAreDoomed, Doomed
  <2>3. \A u \in Users : users[u] \in UserInfo \cup {None} /\ db[u] \in UserInfo \cup {None}
    BY DEF GateInv, GateTypes
  <2> QED BY <1>1, <2>1, <2>2, <2>3 DEF OverdueAreDoomed, NotBefore
<1>7. GoneAreKnown'
  <2>1. \A n \in Heights : gone[n] # {} => n < h' /\ n <= h' /\ (n + CacheBlocks > h' => n + CacheBlocks > h)
    BY <1>3, HeightTypes, ConstantTypes DEF CareInv, GoneAreKnown, Heights
  <2> QED BY <1>1, <2>1 DEF CareInv, GoneAreKnown
<1> QED BY <1>4, <1>5, <1>6, <1>7 DEF CareInv

LEMMA ReadCare == GateInv /\ CareInv /\ ReadOutdated => CareInv'
<1> SUFFICES ASSUME GateInv, CareInv, ReadOutdated PROVE CareInv'
  OBVIOUS
<1>1. /\ UNCHANGED <<height, queue, h, users, db, outdated, order, cur, gone>> /\ op = NoOp
      /\ pc = "read" /\ pc' = "insert" /\ todo' = GetOutdatedUsers(h)
  BY DEF ReadOutdated, blockVars, cacheVars
<1>2. Consecutive' /\ Window'
  BY <1>1 DEF CareInv, Consecutive, Window, Looked
<1>3. GoneAreKnown'
  BY <1>1 DEF CareInv, GoneAreKnown
<1>4. outdated[h] = {}
  BY <1>1, HeightTypes DEF GateInv, GateTypes, InOrder
<1>5. ASSUME NEW u \in Users, Overdue(users[u]) PROVE u \in GetOutdatedUsers(h)
  <2>1. users[u] # None /\ users[u].expiry + ExpiryDelta <= h /\ users[u].expiry + ExpiryDelta >= h
    BY <1>1, <1>5 DEF Overdue, CareInv, OverdueAreDoomed, NotBefore
  <2>2. h = users[u].expiry + ExpiryDelta
    <3>1. users[u].expiry \in Nat /\ ExpiryDelta \in Nat /\ h \in Nat
      BY <2>1, RegisteredType, HeightTypes, ConstantTypes DEF GateInv
    <3> QED BY <2>1, <3>1
  <2> QED BY <1>4, <2>1, <2>2 DEF GetOutdatedUsers, Registered
<1>6. \A u \in Users : db[u] = users[u]
  BY <1>1 DEF GateInv, OnDisk
<1>7. OverdueAreDoomed'
  BY <1>1, <1>5, <1>6 DEF OverdueAreDoomed, Doomed, Overdue
<1> QED BY <1>2, <1>3, <1>7 DEF CareInv

(* What the cache is after the insertion.                                  *)
LEMMA InsertIs ==
    ASSUME GateInv, CareInv, InsertOutdated
    PROVE  /\ order' \in Seq(Heights) /\ Len(order') <= CacheBlocks
           /\ \A i \in 1..Len(order') : order'[i] + Len(order') = h + i
           /\ outdated'[h] = todo /\ Contains(order', h)
           /\ \A n \in Heights : n # h /\ Contains(order', n) => Contains(order, n) /\ outdated'[n] = outdated[n]
           /\ \A n \in Heights : Contains(order, n) /\ n + CacheBlocks > h => Contains(order', n)
<1> DEFINE keys == Append(order, h)
           full == Len(keys) > CacheBlocks
<1>1. order \in Seq(Heights) /\ h \in Heights /\ pc = "insert" /\ Len(order) \in Nat /\ h \in Nat
  BY HeightTypes, LenProperties DEF GateInv, GateTypes, CareInv, Window, InsertOutdated
<1>2. \A i \in 1..Len(order) : order[i] \in Nat /\ order[i] + Len(order) = (h + i) - 1 /\ order[i] < h
  <2>1. ASSUME NEW i \in 1..Len(order) PROVE order[i] \in Nat /\ order[i] + Len(order) = (h + i) - 1
    BY <1>1, ConstantTypes DEF CareInv, Window, Looked, Heights
  <2> QED BY <1>1, <2>1
<1>3. ~Contains(order, h)
  BY <1>1, <1>2 DEF Contains
<1>4. /\ order' = IF full THEN Tail(keys) ELSE keys
      /\ outdated' = [n \in Heights |-> IF n = h THEN todo
                                        ELSE IF full /\ n = Head(keys) THEN {} ELSE outdated[n]]
  BY <1>3 DEF InsertOutdated, Heights
<1>5. /\ keys \in Seq(Heights) /\ Len(keys) = Len(order) + 1 /\ keys[Len(order) + 1] = h
      /\ \A i \in 1..Len(order) : keys[i] = order[i]
  BY <1>1, AppendProperties
<1>6. \A i \in 1..Len(keys) : (i \in 1..Len(order) \/ i = Len(order) + 1) /\ i \in Nat
  BY <1>1, <1>5
<1>7. \A i \in 1..Len(keys) : keys[i] \in Nat /\ keys[i] + Len(keys) = h + i
  <2>1. ASSUME NEW i \in 1..Len(order) PROVE keys[i] \in Nat /\ keys[i] + Len(keys) = h + i
    <3>1. keys[i] = order[i] /\ Len(keys) = Len(order) + 1 /\ i \in Nat /\ h \in Nat /\ Len(order) \in Nat
      BY <1>1, <1>5
    <3>2. order[i] \in Nat /\ order[i] + Len(order) = (h + i) - 1
      BY <1>2
    <3> QED BY <3>1, <3>2
  <2>2. keys[Len(order) + 1] = h /\ Len(keys) = Len(order) + 1 /\ Len(order) \in Nat /\ h \in Nat
    BY <1>1, <1>5
  <2>3. LET i == Len(order) + 1 IN keys[i] \in Nat /\ keys[i] + Len(keys) = h + i
    BY <2>2
  <2> QED BY <1>6, <2>1, <2>3
<1>8. \A n \in Heights : Contains(keys, n) <=> (n = h \/ Contains(order, n))
  <2>1. \A i \in 1..Len(order) : i \in 1..Len(keys)
    BY <1>1, <1>5
  <2>2. Len(order) + 1 \in 1..Len(keys)
    BY <1>1, <1>5
  <2> QED BY <1>5, <1>6, <2>1, <2>2 DEF Contains
<1> HIDE DEF keys
<1>9. CASE ~full
  BY <1>1, <1>4, <1>5, <1>7, <1>8, <1>9, ConstantTypes
<1>10. CASE full
  <2>1. Len(keys) = CacheBlocks + 1 /\ Len(keys) > 1 /\ keys # <<>>
    BY <1>1, <1>5, <1>10, ConstantTypes, EmptySeq DEF CareInv, Window
  <2>2. /\ order' = Tail(keys) /\ order' \in Seq(Heights) /\ Len(order') = Len(keys) - 1
        /\ \A i \in 1..Len(order') : order'[i] = keys[i + 1]
        /\ Head(keys) = keys[1]
    BY <1>4, <1>5, <1>10, <2>1, HeadTailProperties
  <2>3. Len(order') = CacheBlocks /\ CacheBlocks \in Nat /\ CacheBlocks > 0
    BY <2>1, <2>2, ConstantTypes
  <2>4. ASSUME NEW i \in 1..Len(order') PROVE order'[i] + Len(order') = h + i
    <3>1. i + 1 \in 1..Len(keys) /\ i \in Nat
      BY <2>1, <2>3
    <3>2. order'[i] \in Nat /\ order'[i] + Len(keys) = h + (i + 1)
      BY <1>7, <2>2, <3>1
    <3>3. Len(order') = Len(keys) - 1 /\ Len(keys) \in Nat /\ i \in Nat /\ h \in Nat
      BY <1>1, <2>1, <2>2, <2>3, <3>1
    <3> QED BY <3>2, <3>3
  <2>5. Head(keys) + CacheBlocks = h /\ Head(keys) \in Nat
    <3>1. 1 \in 1..Len(keys)
      BY <2>1, <2>3
    <3>2. Head(keys) \in Nat /\ Head(keys) + Len(keys) = h + 1
      BY <1>7, <2>2, <3>1
    <3>3. Len(keys) = CacheBlocks + 1 /\ CacheBlocks \in Nat /\ h \in Nat
      BY <1>1, <2>1, <2>3
    <3> QED BY <3>2, <3>3
  <2>6. ASSUME NEW n \in Heights PROVE Contains(order', n) <=> (Contains(keys, n) /\ n # Head(keys))
    <3>1. ASSUME Contains(order', n) PROVE Contains(keys, n) /\ n # Head(keys)
      <4>1. PICK i \in 1..Len(order') : order'[i] = n
        BY <3>1 DEF Contains
      <4>2. i \in Nat /\ i > 0 /\ i + 1 \in 1..Len(keys) /\ keys[i + 1] = n
        BY <2>1, <2>2, <2>3, <4>1
      <4>3. n + CacheBlocks = h + i
        BY <2>3, <2>4, <4>1
      <4> QED BY <1>1, <2>5, <4>2, <4>3, <2>3 DEF Contains, Heights
    <3>2. ASSUME Contains(keys, n), n # Head(keys) PROVE Contains(order', n)
      <4>1. PICK i \in 1..Len(keys) : keys[i] = n
        BY <3>2 DEF Contains
      <4>2. i # 1
        BY <2>2, <3>2, <4>1
      <4>3. i - 1 \in 1..Len(order') /\ (i - 1) + 1 = i
        BY <2>1, <2>3, <4>1, <4>2
      <4>4. order'[i - 1] = n
        BY <2>2, <4>1, <4>3
      <4> QED BY <4>3, <4>4 DEF Contains
    <3> QED BY <3>1, <3>2
  <2>7. Head(keys) # h
    BY <1>1, <2>3, <2>5
  <2>8. outdated'[h] = todo /\ Contains(order', h)
    BY <1>1, <1>4, <1>8, <2>6, <2>7
  <2>9. ASSUME NEW n \in Heights, n # h, Contains(order', n) PROVE Contains(order, n) /\ outdated'[n] = outdated[n]
    BY <1>4, <1>8, <2>6, <2>9
  <2>10. ASSUME NEW n \in Heights, Contains(order, n), n + CacheBlocks > h PROVE Contains(order', n)
    <3>1. n # Head(keys)
      BY <1>1, <2>3, <2>5, <2>10 DEF Heights
    <3> QED BY <1>8, <2>6, <2>10, <3>1
  <2> QED BY <2>2, <2>3, <2>4, <2>8, <2>9, <2>10
<1> QED BY <1>9, <1>10

LEMMA InsertCare == GateInv /\ CareInv /\ InsertOutdated => CareInv'
<1> SUFFICES ASSUME GateInv, CareInv, InsertOutdated PROVE CareInv'
  OBVIOUS
<1>1. /\ UNCHANGED <<height, queue, h, users, db, cur, gone>>
      /\ pc = "insert" /\ pc' = "ids" /\ todo' = {}
  BY DEF InsertOutdated, blockVars
<1>2. Consecutive'
  BY <1>1 DEF CareInv, Consecutive
<1>3. Window'
  BY <1>1, InsertIs DEF Window, Looked
<1>4. OverdueAreDoomed'
  BY <1>1, InsertIs DEF CareInv, OverdueAreDoomed, Doomed, Overdue
<1>5. GoneAreKnown'
  <2>1. ASSUME NEW n \in Heights, gone[n] # {}
        PROVE  /\ n <= h /\ n < h
               /\ Contains(order', n) => gone[n] \subseteq outdated'[n]
               /\ n + CacheBlocks > h => Contains(order', n)
    <3>1. n <= h /\ n < h /\ n # h
      BY <1>1, <2>1, HeightTypes DEF CareInv, GoneAreKnown, Heights
    <3> QED BY <2>1, <3>1, InsertIs DEF CareInv, GoneAreKnown
  <2> QED BY <1>1, <2>1, InsertIs DEF CareInv, GoneAreKnown
<1> QED BY <1>2, <1>3, <1>4, <1>5 DEF CareInv

LEMMA IdsCare == GateInv /\ CareInv /\ GetOutdatedIds => CareInv'
<1> SUFFICES ASSUME GateInv, CareInv, GetOutdatedIds PROVE CareInv'
  OBVIOUS
<1>1. /\ UNCHANGED <<height, queue, h, users, db, outdated, order, cur, gone>>
      /\ pc = "ids" /\ pc' = "pop" /\ todo' = GetOutdatedUsers(h)
  BY DEF GetOutdatedIds, blockVars, cacheVars
<1>2. GetOutdatedUsers(h) = outdated[h]
  <2>1. ASSUME outdated[h] = {}, NEW u \in GetOutdatedUsers(h) PROVE FALSE
    <3>1. u \in Users /\ users[u] # None /\ h = users[u].expiry + ExpiryDelta
      BY <2>1 DEF GetOutdatedUsers, Registered
    <3>2. Overdue(users[u])
      BY <3>1, HeightTypes DEF Overdue
    <3> QED BY <1>1, <2>1, <3>1, <3>2 DEF CareInv, OverdueAreDoomed, Doomed
  <2> QED BY <2>1, OutdatedAreDue
<1>3. Consecutive' /\ Window'
  BY <1>1 DEF CareInv, Consecutive, Window, Looked
<1>4. OverdueAreDoomed'
  BY <1>1, <1>2 DEF CareInv, OverdueAreDoomed, Doomed, Overdue
<1>5. GoneAreKnown'
  BY <1>1, <1>2 DEF CareInv, GoneAreKnown
<1> QED BY <1>3, <1>4, <1>5 DEF CareInv

LEMMA PopCare ==
    ASSUME GateInv, CareInv, NEW u \in Users, PopUser(u)
    PROVE  CareInv'
<1>1. /\ pc = "pop" /\ u \in todo /\ todo' = todo \ {u} /\ cur' = u
      /\ UNCHANGED <<height, queue, h, db, outdated, order>>
  BY DEF PopUser, blockVars, cacheVars
<1>2. users[u] # None
  BY <1>1 DEF GateInv, PickedAreDue, Due
<1>3. /\ users' = [users EXCEPT ![u] = None] /\ pc' = "delete"
      /\ gone' = [gone EXCEPT ![h] = gone[h] \cup {u}]
  BY <1>2 DEF PopUser
<1>4. \A v \in Users : users'[v] = users[v] \/ users'[v] = None
  BY <1>3 DEF GateInv, GateTypes
<1>5. Consecutive' /\ Window'
  BY <1>1, <1>3 DEF CareInv, Consecutive, Window, Looked
<1>6. OverdueAreDoomed'
  <2>1. Doomed = todo /\ Doomed' = todo
    BY <1>1, <1>3 DEF Doomed
  <2>2. \A v \in Users : Overdue(users[v])' => Overdue(users[v])
    BY <1>1, <1>4 DEF Overdue
  <2>3. \A v \in Users : Overdue(db[v])' => Overdue(db[v])
    BY <1>1 DEF Overdue
  <2> QED BY <1>1, <1>3, <2>1, <2>2, <2>3 DEF CareInv, OverdueAreDoomed
<1>7. GoneAreKnown'
  <2>1. /\ gone \in [Heights -> SUBSET Users] /\ h \in Heights /\ h \in Nat
        /\ todo \subseteq outdated[h] /\ Contains(order, h)
    BY <1>1, HeightTypes DEF CareInv, GoneAreKnown, GateInv, GateTypes
  <2>2. gone' \in [Heights -> SUBSET Users] /\ gone'[h] = gone[h] \cup {u} /\ \A n \in Heights : n # h => gone'[n] = gone[n]
    BY <1>3, <2>1
  <2>3. gone[h] \subseteq outdated[h]
    BY <2>1 DEF CareInv, GoneAreKnown
  <2>4. ASSUME NEW n \in Heights, gone'[n] # {}
        PROVE  /\ n <= h
               /\ Contains(order, n) => gone'[n] \subseteq outdated[n]
               /\ n + CacheBlocks > h => Contains(order, n)
    <3>1. CASE n = h
      BY <1>1, <2>1, <2>2, <2>3, <3>1
    <3>2. CASE n # h
      BY <2>2, <2>4, <3>2 DEF CareInv, GoneAreKnown
    <3> QED BY <3>1, <3>2
  <2> QED BY <1>1, <1>3, <2>1, <2>2, <2>4 DEF GoneAreKnown
<1> QED BY <1>5, <1>6, <1>7 DEF CareInv

LEMMA DeleteCare == GateInv /\ CareInv /\ (DeleteUser \/ DeletedAll) => CareInv'
<1> SUFFICES ASSUME GateInv, CareInv, DeleteUser \/ DeletedAll PROVE CareInv'
  OBVIOUS
<1>1. UNCHANGED <<height, queue, h, users, outdated, order, todo, cur, gone>>
  BY DEF DeleteUser, DeletedAll, blockVars, cacheVars
<1>2. \/ pc = "delete" /\ pc' = "pop" /\ db' = [db EXCEPT ![cur] = None]
      \/ pc = "pop" /\ pc' = "get" /\ db' = db /\ todo = {}
  BY DEF DeleteUser, DeletedAll
<1>3. Consecutive' /\ Window' /\ GoneAreKnown'
  BY <1>1, <1>2 DEF CareInv, Consecutive, Window, Looked, GoneAreKnown
<1>4. CASE pc = "delete"
  <2>1. users[cur] = None /\ db'[cur] = None /\ \A v \in Users : v # cur => db'[v] = db[v]
    BY <1>2, <1>4 DEF GateInv, GateTypes, OnDisk
  <2>2. Doomed = todo \cup {cur} /\ Doomed' = todo
    BY <1>1, <1>2, <1>4 DEF Doomed
  <2>3. OverdueAreDoomed'
    <3>1. ASSUME NEW v \in Users, Overdue(users[v])' \/ Overdue(db[v])' PROVE v \in todo
      <4>1. v # cur
        BY <1>1, <2>1, <3>1 DEF Overdue
      <4>2. Overdue(users[v]) \/ Overdue(db[v])
        BY <1>1, <2>1, <3>1, <4>1 DEF Overdue
      <4> QED BY <1>4, <2>2, <4>1, <4>2 DEF CareInv, OverdueAreDoomed
    <3> QED BY <1>2, <1>4, <2>2, <3>1 DEF OverdueAreDoomed
  <2> QED BY <1>3, <2>3 DEF CareInv
<1>5. CASE pc = "pop"
  <2>1. OverdueAreDoomed'
    BY <1>1, <1>2, <1>5 DEF CareInv, OverdueAreDoomed, Overdue, Doomed
  <2> QED BY <1>3, <2>1 DEF CareInv
<1> QED BY <1>2, <1>4, <1>5

LEMMA RestartCare == GateInv /\ CareInv /\ Restart => CareInv'
<1> SUFFICES ASSUME GateInv, CareInv, Restart PROVE CareInv'
  OBVIOUS
<1>1. /\ UNCHANGED <<height, db, h>> /\ users' = db /\ queue = <<>> /\ queue' = <<>>
      /\ pc = "get" /\ pc' = "get" /\ order' = <<>> /\ gone' = [n \in Heights |-> {}]
  BY DEF Restart, Heights, CareInv
<1>2. <<>> \in Seq(Heights) /\ Len(<<>>) = 0
  BY EmptySeq
<1>3. Consecutive'
  BY <1>1, <1>2 DEF CareInv, Consecutive
<1>4. Window'
  BY <1>1, <1>2, ConstantTypes DEF Window
<1>5. OverdueAreDoomed'
  BY <1>1 DEF CareInv, OverdueAreDoomed, Doomed, Overdue
<1>6. GoneAreKnown'
  BY <1>1 DEF GoneAreKnown
<1> QED BY <1>3, <1>4, <1>5, <1>6 DEF CareInv

LEMMA StepCare == GateInv /\ CareInv /\ [Next]_vars => CareInv'
<1> SUFFICES ASSUME GateInv, CareInv, [Next]_vars PROVE CareInv'
  OBVIOUS
<1>1. ASSUME Manage PROVE CareInv'
  BY <1>1, GetBlockCare, ReadCare, InsertCare, IdsCare, PopCare, DeleteCare DEF Manage
<1> QED BY <1>1, NewBlockCare, OperationCare, OtherCare, RestartCare DEF Next

(* No user stays past the end of the grace time, and the cache knows the   *)
(* deleted users of the last blocks.                                       *)
THEOREM CareInvariance == Rare = {} /\ Spec => []CareInv
<1>1. Rare = {} => Orderly
  BY DEF Orderly
<1> QED BY <1>1, InitCare, StepCare, GateInvariance, PTL DEF Spec

(* Whatever is renewed, charged or lost by a crash, no subscription        *)
(* outlives its grace time.                                                *)
THEOREM OutdatedAreDeletedHolds == Rare = {} /\ Spec => []OutdatedAreDeleted
<1>1. Rare = {} => Orderly
  BY DEF Orderly
<1>2. GateInv /\ CareInv => OutdatedAreDeleted
  <2> SUFFICES ASSUME GateInv, CareInv, pc = "get", NEW u \in Registered
               PROVE  users[u].expiry + ExpiryDelta > h
    BY DEF OutdatedAreDeleted
  <2>1. ~Overdue(users[u]) /\ u \in Users /\ users[u] # None
    BY DEF CareInv, OverdueAreDoomed, Doomed, Registered
  <2>2. users[u].expiry \in Nat
    BY <2>1, RegisteredType DEF GateInv
  <2> QED BY <2>1, <2>2, HeightTypes, ConstantTypes DEF Overdue
<1> QED BY <1>1, <1>2, CareInvariance, GateInvariance, PTL

(* Watcher and Responder find the users deleted at a block for as long as  *)
(* CacheBlocks blocks, for any size of the cache.                          *)
THEOREM DeletedAreServedHolds == Rare = {} /\ Spec => []DeletedAreServed
<1>1. Rare = {} => Orderly
  BY DEF Orderly
<1>2. GateInv /\ CareInv => DeletedAreServed
  <2> SUFFICES ASSUME GateInv, CareInv PROVE DeletedAreServed
    OBVIOUS
  <2>1. ASSUME NEW i \in DOMAIN order PROVE gone[order[i]] \subseteq GetOutdatedUsers(order[i])
    <3>1. order[i] \in Heights /\ Contains(order, order[i])
      <4>1. order \in Seq(Heights) /\ i \in 1..Len(order)
        BY LenProperties DEF CareInv, Window
      <4> QED BY <4>1 DEF Contains
    <3>2. gone[order[i]] \subseteq outdated[order[i]]
      BY <3>1 DEF CareInv, GoneAreKnown
    <3> QED BY <3>2 DEF GetOutdatedUsers
  <2>2. \A n \in Heights : gone[n] # {} /\ n + CacheBlocks > h => Contains(order, n)
    BY DEF CareInv, GoneAreKnown
  <2> QED BY <2>1, <2>2 DEF DeletedAreServed, Heights
<1> QED BY <1>1, <1>2, CareInvariance, GateInvariance, PTL
-----------------------------------------------------------------------------
(* The slots that are taken are a sum over the uuids, which MapThenSumSet  *)
(* adds up in the order in which CHOOSE picks them.  Here is that it does  *)
(* not matter which is picked first.                                       *)

Pick(s) == CHOOSE x \in s : TRUE

(* g adds up f over every subset of S.                                     *)
Adds(g, f, S) ==
    g = [s \in SUBSET S |-> IF s = {} THEN 0 ELSE f[Pick(s)] + g[s \ {Pick(s)}]]

LEMMA UsedIs ==
    ASSUME NEW info
    PROVE  Used(info) = (CHOOSE g : Adds(g, info.apps, Uuids))[Uuids]
BY Zenon DEF Used, MapThenSumSet, MapThenFoldSet, Adds, Pick

(* A family of subsets of a finite set has one that contains no other.     *)
LEMMA Smallest ==
    ASSUME NEW S, IsFiniteSet(S), NEW F \in SUBSET SUBSET S, F # {}
    PROVE  \E s \in F : \A t \in F : t \subseteq s => t = s
<1>1. IsWellFoundedOn(StrictSubsetOrdering(S), SUBSET S)
  BY FS_StrictSubsetOrderingWellFounded, FS_FiniteSubsetsOfFinite
<1>2. \A s, t \in SUBSET S : t \subseteq s /\ t # s => <<t, s>> \in StrictSubsetOrdering(S)
  BY DEF StrictSubsetOrdering
<1> HIDE DEF StrictSubsetOrdering
<1>3. PICK s \in F : \A t \in F : ~(<<t, s>> \in StrictSubsetOrdering(S))
  BY <1>1, WFMin
<1> QED BY <1>2, <1>3

(* Induction over the subsets of a finite set: a family is all of them if  *)
(* each is in it whose smaller subsets are.                                *)
LEMMA SubsetInduction ==
    ASSUME NEW S, IsFiniteSet(S), NEW F,
           \A s \in SUBSET S : (\A t \in SUBSET S : t \subseteq s /\ t # s => t \in F) => s \in F
    PROVE  \A s \in SUBSET S : s \in F
<1> DEFINE B == {s \in SUBSET S : s \notin F}
<1>1. B \in SUBSET SUBSET S
  OBVIOUS
<1>2. ASSUME B # {} PROVE FALSE
  <2> HIDE DEF B
  <2>1. PICK s \in B : \A t \in B : t \subseteq s => t = s
    BY <1>1, <1>2, Smallest
  <2> USE DEF B
  <2>2. \A t \in SUBSET S : t \subseteq s /\ t # s => t \in F
    BY <2>1
  <2> QED BY <2>1, <2>2
<1> QED BY <1>2

LEMMA PickIs ==
    ASSUME NEW s, s # {}
    PROVE  /\ Pick(s) \in s /\ s \ {Pick(s)} \subseteq s /\ s \ {Pick(s)} # s
BY DEF Pick

LEMMA AddsIs ==
    ASSUME NEW S, NEW f, NEW g, Adds(g, f, S)
    PROVE  /\ {} \in SUBSET S /\ g[{}] = 0
           /\ \A s \in SUBSET S : s # {} => /\ s \ {Pick(s)} \in SUBSET S
                                           /\ g[s] = f[Pick(s)] + g[s \ {Pick(s)}]
<1>1. \A s \in SUBSET S : g[s] = IF s = {} THEN 0 ELSE f[Pick(s)] + g[s \ {Pick(s)}]
  BY DEF Adds
<1> QED BY <1>1

(* Functions that agree on s have the same sum over s.                     *)
LEMMA SameSum ==
    ASSUME NEW S, NEW T, IsFiniteSet(S), NEW f, NEW e, NEW g, NEW d, Adds(g, f, S), Adds(d, e, T)
    PROVE  \A s \in SUBSET S : s \subseteq T /\ (\A x \in s : f[x] = e[x]) => g[s] = d[s]
<1> DEFINE F == {s \in SUBSET S : s \subseteq T /\ (\A x \in s : f[x] = e[x]) => g[s] = d[s]}
<1>1. ASSUME NEW s \in SUBSET S, \A t \in SUBSET S : t \subseteq s /\ t # s => t \in F,
             s \subseteq T, \A x \in s : f[x] = e[x]
      PROVE  g[s] = d[s]
  <2>1. CASE s = {}
    BY <2>1, AddsIs
  <2>2. CASE s # {}
    <3> DEFINE p == Pick(s)
               t == s \ {p}
    <3>1. p \in s /\ t \subseteq s /\ t # s
      BY <2>2, PickIs
    <3>2. g[s] = f[p] + g[t]
      BY <2>2, AddsIs
    <3>3. d[s] = e[p] + d[t]
      <4>1. s \in SUBSET T
        BY <1>1
      <4> QED BY <2>2, <4>1, AddsIs
    <3> HIDE DEF p
    <3>4. g[t] = d[t]
      BY <1>1, <3>1
    <3> QED BY <1>1, <3>1, <3>2, <3>3, <3>4
  <2> QED BY <2>1, <2>2
<1>2. \A s \in SUBSET S : s \in F
  <2>1. \A s \in SUBSET S : (\A t \in SUBSET S : t \subseteq s /\ t # s => t \in F) => s \in F
    BY <1>1
  <2> HIDE DEF F
  <2> QED BY <2>1, SubsetInduction
<1> QED BY <1>2

(* There is such a sum, of natural numbers.                                *)
LEMMA SumExists ==
    ASSUME NEW S, IsFiniteSet(S), NEW f \in [S -> Nat]
    PROVE  \E g \in [SUBSET S -> Nat] : Adds(g, f, S)
<1> DEFINE F == {T \in SUBSET S : \E g \in [SUBSET T -> Nat] : Adds(g, f, T)}
<1>1. ASSUME NEW T \in SUBSET S, \A t \in SUBSET S : t \subseteq T /\ t # T => t \in F
      PROVE  T \in F
  <2> DEFINE W(t) == CHOOSE g \in [SUBSET t -> Nat] : Adds(g, f, t)
             g == [s \in SUBSET T |-> IF s = {} THEN 0
                                      ELSE f[Pick(s)] + W(s \ {Pick(s)})[s \ {Pick(s)}]]
  <2>1. \A t \in SUBSET T : t # T => W(t) \in [SUBSET t -> Nat] /\ Adds(W(t), f, t)
    BY <1>1
  <2> HIDE DEF W
  <2>2. \A s \in SUBSET T : s # {} => /\ Pick(s) \in s /\ f[Pick(s)] \in Nat
                                      /\ s \ {Pick(s)} \in SUBSET T /\ s \ {Pick(s)} # T
    BY PickIs
  <2>3. \A t \in SUBSET T : t # T => W(t)[t] \in Nat
    BY <2>1
  <2>4. g \in [SUBSET T -> Nat]
    BY <2>2, <2>3
  <2>5. ASSUME NEW t \in SUBSET T, t # T PROVE g[t] = W(t)[t]
    <3>1. CASE t = {}
      BY <2>1, <2>5, <3>1, AddsIs
    <3>2. CASE t # {}
      <4> DEFINE r == t \ {Pick(t)}
      <4>1. g[t] = f[Pick(t)] + W(r)[r]
        BY <3>2
      <4>2. W(t)[t] = f[Pick(t)] + W(t)[r]
        <5>1. Adds(W(t), f, t) /\ t \in SUBSET t
          BY <2>1, <2>5
        <5> QED BY <3>2, <5>1, AddsIs
      <4>3. r \in SUBSET T /\ r # T /\ r \in SUBSET t /\ IsFiniteSet(t)
        BY <2>2, <3>2, FS_Subset
      <4>4. Adds(W(t), f, t) /\ Adds(W(r), f, r)
        BY <2>1, <2>5, <4>3
      <4> HIDE DEF r
      <4>5. W(t)[r] = W(r)[r]
        BY <4>3, <4>4, SameSum
      <4> QED BY <4>1, <4>2, <4>5
    <3> QED BY <3>1, <3>2
  <2>6. \A s \in SUBSET T : g[s] = IF s = {} THEN 0 ELSE f[Pick(s)] + g[s \ {Pick(s)}]
    <3>1. \A s \in SUBSET T : g[s] = IF s = {} THEN 0
                                     ELSE f[Pick(s)] + W(s \ {Pick(s)})[s \ {Pick(s)}]
      OBVIOUS
    <3> HIDE DEF g
    <3> QED BY <2>2, <2>5, <3>1
  <2> HIDE DEF g
  <2>7. Adds(g, f, T)
    BY <2>4, <2>6 DEF Adds
  <2> QED BY <2>4, <2>7
<1>2. S \in F
  <2> HIDE DEF F
  <2> QED BY <1>1, SubsetInduction
<1> QED BY <1>2

(* What is counted first does not matter.                                  *)
LEMMA AnyFirst ==
    ASSUME NEW S, IsFiniteSet(S), NEW f \in [S -> Nat], NEW g \in [SUBSET S -> Nat], Adds(g, f, S)
    PROVE  \A s \in SUBSET S : \A x \in s : g[s] = f[x] + g[s \ {x}]
<1> DEFINE F == {s \in SUBSET S : \A x \in s : g[s] = f[x] + g[s \ {x}]}
<1>1. ASSUME NEW s \in SUBSET S, \A t \in SUBSET S : t \subseteq s /\ t # s => t \in F, NEW x \in s
      PROVE  g[s] = f[x] + g[s \ {x}]
  <2> DEFINE p == Pick(s)
  <2>1. p \in s /\ g[s] = f[p] + g[s \ {p}]
    BY AddsIs, PickIs
  <2> HIDE DEF p
  <2>2. CASE p = x
    BY <2>1, <2>2
  <2>3. CASE p # x
    <3> DEFINE r == (s \ {p}) \ {x}
    <3>1. s \ {p} \in F /\ x \in s \ {p} /\ s \ {x} \in F /\ p \in s \ {x}
      BY <1>1, <2>1, <2>3
    <3>2. (s \ {x}) \ {p} = r /\ r \in SUBSET S
      OBVIOUS
    <3>3. g[s \ {p}] = f[x] + g[r] /\ g[s \ {x}] = f[p] + g[r]
      BY <3>1, <3>2
    <3>4. f[x] \in Nat /\ f[p] \in Nat /\ g[r] \in Nat
      BY <2>1, <3>2
    <3> HIDE DEF r, F
    <3> QED BY <2>1, <3>3, <3>4
  <2> QED BY <2>2, <2>3
<1>2. \A s \in SUBSET S : s \in F
  <2>1. \A s \in SUBSET S : (\A t \in SUBSET S : t \subseteq s /\ t # s => t \in F) => s \in F
    BY <1>1
  <2> HIDE DEF F
  <2> QED BY <2>1, SubsetInduction
<1> QED BY <1>2

(* What an appointment takes is a part of what is used; and what the       *)
(* others take depends on them alone.                                      *)
LEMMA UsedSplits ==
    ASSUME NEW info \in UserInfo, NEW new \in UserInfo, NEW x \in Uuids,
           \A y \in Uuids : y # x => new.apps[y] = info.apps[y]
    PROVE  \E rest \in Nat : Used(info) = info.apps[x] + rest /\ Used(new) = new.apps[x] + rest
<1> DEFINE G(f) == CHOOSE g : Adds(g, f, Uuids)
           a == info.apps
           b == new.apps
           s == Uuids \ {x}
<1>1. a \in [Uuids -> Nat] /\ b \in [Uuids -> Nat]
  BY DEF UserInfo
<1>2. ASSUME NEW f \in [Uuids -> Nat]
      PROVE  G(f) \in [SUBSET Uuids -> Nat] /\ Adds(G(f), f, Uuids)
  <2>1. PICK g \in [SUBSET Uuids -> Nat] : Adds(g, f, Uuids)
    BY SumExists, UuidsAreFinite
  <2>2. Adds(G(f), f, Uuids)
    BY <2>1
  <2> HIDE DEF G
  <2>3. DOMAIN G(f) = SUBSET Uuids /\ G(f) = [t \in SUBSET Uuids |-> G(f)[t]]
    BY <2>2 DEF Adds
  <2>4. \A t \in SUBSET Uuids : G(f)[t] = g[t]
    BY <2>1, <2>2, SameSum, UuidsAreFinite
  <2> QED BY <2>1, <2>2, <2>3, <2>4
<1>3. Used(info) = G(a)[Uuids] /\ Used(new) = G(b)[Uuids]
  BY UsedIs
<1> HIDE DEF G, a, b
<1>4. G(a)[Uuids] = a[x] + G(a)[s] /\ G(b)[Uuids] = b[x] + G(b)[s]
  <2>1. ASSUME NEW f \in [Uuids -> Nat] PROVE G(f)[Uuids] = f[x] + G(f)[s]
    <3>1. Uuids \in SUBSET Uuids /\ G(f) \in [SUBSET Uuids -> Nat] /\ Adds(G(f), f, Uuids)
      BY <1>2
    <3> QED BY <3>1, AnyFirst, UuidsAreFinite
  <2> QED BY <1>1, <2>1
<1>5. G(a)[s] = G(b)[s] /\ G(a)[s] \in Nat
  <2>1. \A y \in s : a[y] = b[y]
    BY DEF a, b
  <2>2. s \in SUBSET Uuids
    OBVIOUS
  <2> HIDE DEF s
  <2> QED BY <1>1, <1>2, <2>1, <2>2, SameSum, UuidsAreFinite
<1> QED BY <1>3, <1>4, <1>5 DEF a, b

LEMMA UsedIsNat ==
    ASSUME NEW info \in UserInfo
    PROVE  Used(info) \in Nat /\ ((\A x \in Uuids : info.apps[x] = 0) => Used(info) = 0)
<1> DEFINE a == info.apps
           g == CHOOSE g : Adds(g, a, Uuids)
           F == {s \in SUBSET Uuids : g[s] \in Nat /\ ((\A x \in Uuids : a[x] = 0) => g[s] = 0)}
<1>1. a \in [Uuids -> Nat]
  BY DEF UserInfo
<1>2. Used(info) = g[Uuids]
  BY UsedIs
<1> HIDE DEF a
<1>3. Adds(g, a, Uuids)
  <2>1. \E d : Adds(d, a, Uuids)
    BY <1>1, SumExists, UuidsAreFinite
  <2> QED BY <2>1
<1> HIDE DEF g
<1>4. ASSUME NEW s \in SUBSET Uuids, \A t \in SUBSET Uuids : t \subseteq s /\ t # s => t \in F
      PROVE  s \in F
  <2>1. CASE s = {}
    BY <1>3, <2>1, AddsIs
  <2>2. CASE s # {}
    <3> DEFINE t == s \ {Pick(s)}
    <3>1. Pick(s) \in s /\ t \subseteq s /\ t # s
      BY <2>2, PickIs
    <3>2. g[s] = a[Pick(s)] + g[t]
      BY <1>3, <2>2, AddsIs
    <3>3. Pick(s) \in Uuids /\ a[Pick(s)] \in Nat /\ t \in F
      BY <1>1, <1>4, <3>1
    <3> QED BY <3>2, <3>3
  <2> QED BY <2>1, <2>2
<1>5. Uuids \in F
  <2> HIDE DEF F
  <2> QED BY <1>4, SubsetInduction, UuidsAreFinite
<1> QED BY <1>2, <1>5 DEF a

LEMMA MovesBalance ==
    ASSUME NEW info \in UserInfo, NEW new \in UserInfo, Moves(info, new)
    PROVE  new.slots + Used(new) = info.slots + Used(info)
<1>1. PICK x \in Uuids : /\ new.slots + new.apps[x] = info.slots + info.apps[x]
                         /\ \A y \in Uuids : y # x => new.apps[y] = info.apps[y]
  BY DEF Moves
<1>2. PICK rest \in Nat : Used(info) = info.apps[x] + rest /\ Used(new) = new.apps[x] + rest
  BY <1>1, UsedSplits
<1>3. new.slots \in Nat /\ info.slots \in Nat /\ new.apps[x] \in Nat /\ info.apps[x] \in Nat
  BY DEF UserInfo
<1> QED BY <1>1, <1>2, <1>3

LEMMA UsedOf ==
    ASSUME NEW info \in UserInfo, NEW new \in UserInfo, new.apps = info.apps
    PROVE  Used(new) = Used(info)
<1> DEFINE U(f) == (CHOOSE g : Adds(g, f, Uuids))[Uuids]
<1>1. Used(info) = U(info.apps) /\ Used(new) = U(new.apps)
  BY UsedIs
<1> HIDE DEF U
<1> QED BY <1>1

-----------------------------------------------------------------------------
(* The third inductive invariant: the types, and the accounts of the users *)
(* in memory, on disk and on their way to disk.  It needs no condition:    *)
(* whoever is deleted while charged, or charged while deleted, no slot is  *)
(* made or lost.                                                           *)

MoreTypes ==
    /\ order \in Seq(Heights) /\ Len(order) <= CacheBlocks
    /\ dead \subseteq {"gatekeeper", "watch"}
    /\ bought \in [Users -> 0..MaxRegistrations] /\ gone \in [Heights -> SUBSET Users]
    /\ crashes \in 0..MaxCrashes

Balanced(info, k) == info.slots + Used(info) = k * SubscriptionSlots
Bought(info) == \E k \in 0..MaxRegistrations : Balanced(info, k)

InMemory == \A u \in Users : IF users[u] = None THEN bought[u] = 0 ELSE Balanced(users[u], bought[u])
Stored ==
    /\ \A u \in Users : db[u] # None => Bought(db[u])
    /\ op.step = "store" => Bought(op.info)

LedgerInv == GateTypes /\ MoreTypes /\ InMemory /\ Stored

LEMMA MoreConstants ==
    /\ MaxRegistrations \in Nat /\ MaxCrashes \in Nat /\ SubscriptionSlots \in Nat \ {0}
BY GatekeeperAssumption

LEMMA OpIs ==
    ASSUME GateTypes
    PROVE  /\ op.step \in {"none", "snapshot", "store"} /\ (op.step = "none" <=> op = NoOp)
           /\ op # NoOp => op.user \in Users
           /\ op.step = "store" => op.info \in UserInfo
BY DEF GateTypes, NoOp

LEMMA InitLedger == Init => LedgerInv
<1> SUFFICES ASSUME Init PROVE LedgerInv
  OBVIOUS
<1>1. <<>> \in Seq(Heights) /\ Len(<<>>) = 0
  BY EmptySeq
<1>2. GateTypes
  BY <1>1, ConstantTypes DEF Init, GateTypes, Heights, NoOp
<1>3. MoreTypes
  BY <1>1, ConstantTypes, MoreConstants DEF Init, MoreTypes, Heights
<1>4. InMemory /\ Stored
  BY DEF Init, InMemory, Stored, NoOp
<1> QED BY <1>2, <1>3, <1>4 DEF LedgerInv

(* Steps that leave users and accounts alone.                              *)
LEMMA NewBlockLedger == LedgerInv /\ NewBlock => LedgerInv'
<1> SUFFICES ASSUME LedgerInv, NewBlock PROVE LedgerInv'
  OBVIOUS
<1>1. /\ UNCHANGED <<users, db, outdated, order, pc, h, todo, cur, request, op, dead, bought, gone, crashes>>
      /\ \E n \in {height + 1, height + 2} :
            n <= MaxHeight /\ height' = n /\ queue' \in {queue \o <<n>>, queue \o <<n, n>>}
  BY DEF NewBlock, cacheVars, threadVars
<1>2. PICK n \in {height + 1, height + 2} :
            n <= MaxHeight /\ height' = n /\ queue' \in {queue \o <<n>>, queue \o <<n, n>>}
  BY <1>1
<1>3. queue \in Seq(Heights) /\ height \in Heights /\ n \in Heights
  BY <1>2, ConstantTypes DEF LedgerInv, GateTypes, Heights
<1>4. queue \o <<n>> \in Seq(Heights) /\ queue \o <<n, n>> \in Seq(Heights)
  BY <1>3
<1>5. queue' \in Seq(Heights) /\ height' \in Heights
  BY <1>2, <1>3, <1>4
<1>6. GateTypes'
  BY <1>1, <1>5 DEF LedgerInv, GateTypes
<1>7. MoreTypes' /\ InMemory' /\ Stored'
  BY <1>1 DEF LedgerInv, MoreTypes, InMemory, Stored
<1> QED BY <1>6, <1>7 DEF LedgerInv

LEMMA PickType ==
    ASSUME GateTypes
    PROVE  GetOutdatedUsers(h) \subseteq Users
BY DEF GateTypes, GetOutdatedUsers, Registered

LEMMA InsertTypes ==
    ASSUME GateTypes, MoreTypes, InsertOutdated
    PROVE  /\ order' \in Seq(Heights) /\ Len(order') <= CacheBlocks
           /\ outdated' \in [Heights -> SUBSET Users]
<1> DEFINE keys == Append(order, h)
           full == Len(keys) > CacheBlocks
<1>1. CASE Contains(order, h)
  BY <1>1 DEF InsertOutdated, cacheVars, GateTypes, MoreTypes
<1>2. CASE ~Contains(order, h)
  <2>1. /\ order' = IF full THEN Tail(keys) ELSE keys
        /\ outdated' = [n \in 0..MaxHeight |-> IF n = h THEN todo
                                               ELSE IF full /\ n = Head(keys) THEN {} ELSE outdated[n]]
    BY <1>2 DEF InsertOutdated
  <2>2. order \in Seq(Heights) /\ h \in Heights /\ Len(order) <= CacheBlocks
    BY DEF GateTypes, MoreTypes
  <2>3. keys \in Seq(Heights) /\ Len(keys) = Len(order) + 1 /\ Len(order) \in Nat
    BY <2>2, AppendProperties, LenProperties
  <2>4. outdated' \in [Heights -> SUBSET Users]
    BY <2>1 DEF GateTypes, Heights
  <2> HIDE DEF keys
  <2>5. keys # <<>>
    BY <2>3, EmptySeq
  <2>6. Tail(keys) \in Seq(Heights) /\ Len(Tail(keys)) = Len(keys) - 1
    BY <2>3, <2>5, HeadTailProperties
  <2> QED BY <2>1, <2>2, <2>3, <2>4, <2>6, ConstantTypes
<1> QED BY <1>1, <1>2

LEMMA ThreadLedger ==
    LedgerInv /\ (GetBlock \/ ReadOutdated \/ InsertOutdated \/ GetOutdatedIds \/ DeleteUser \/ DeletedAll)
        => LedgerInv'
<1> SUFFICES ASSUME LedgerInv,
                    GetBlock \/ ReadOutdated \/ InsertOutdated \/ GetOutdatedIds \/ DeleteUser \/ DeletedAll
             PROVE  LedgerInv'
  OBVIOUS
<1>1. UNCHANGED <<height, users, cur, request, op, dead, bought, gone, crashes>>
  BY DEF GetBlock, ReadOutdated, InsertOutdated, GetOutdatedIds, DeleteUser, DeletedAll, blockVars
<1>2. GateTypes /\ MoreTypes
  BY DEF LedgerInv
<1>3. db' = db \/ db' = [db EXCEPT ![cur] = None]
  BY DEF GetBlock, ReadOutdated, InsertOutdated, GetOutdatedIds, DeleteUser, DeletedAll
<1>4. /\ db' \in [Users -> UserInfo \cup {None}]
      /\ \A u \in Users : db'[u] # None => db'[u] = db[u]
  BY <1>2, <1>3 DEF GateTypes
<1>5. order' \in Seq(Heights) /\ Len(order') <= CacheBlocks /\ outdated' \in [Heights -> SUBSET Users]
  <2>1. CASE InsertOutdated
    BY <1>2, <2>1, InsertTypes
  <2>2. CASE ~InsertOutdated
    <3>1. UNCHANGED <<order, outdated>>
      BY <2>2 DEF GetBlock, ReadOutdated, GetOutdatedIds, DeleteUser, DeletedAll, cacheVars
    <3> QED BY <1>2, <3>1 DEF GateTypes, MoreTypes
  <2> QED BY <2>1, <2>2
<1>6. queue' \in Seq(Heights) /\ h' \in Heights
  <2>1. CASE GetBlock
    <3>1. queue \in Seq(Heights) /\ queue # <<>> /\ h' = Head(queue) /\ queue' = Tail(queue)
      BY <1>2, <2>1 DEF GetBlock, GateTypes
    <3> QED BY <3>1, HeadTailProperties
  <2>2. CASE ~GetBlock
    <3>1. UNCHANGED <<queue, h>>
      BY <2>2 DEF ReadOutdated, InsertOutdated, GetOutdatedIds, DeleteUser, DeletedAll, blockVars
    <3> QED BY <1>2, <3>1 DEF GateTypes
  <2> QED BY <2>1, <2>2
<1>7. /\ pc' \in {"get", "read", "insert", "ids", "pop", "delete"}
      /\ todo' \subseteq Users
  BY <1>2, PickType DEF GetBlock, ReadOutdated, InsertOutdated, GetOutdatedIds, DeleteUser, DeletedAll, GateTypes
<1>8. GateTypes'
  BY <1>1, <1>2, <1>4, <1>5, <1>6, <1>7 DEF GateTypes
<1>9. MoreTypes'
  BY <1>1, <1>2, <1>5 DEF MoreTypes
<1>10. InMemory'
  BY <1>1 DEF LedgerInv, InMemory
<1>11. Stored'
  <2>1. op.step = "store" => Bought(op.info)'
    BY <1>1 DEF LedgerInv, Stored
  <2>2. ASSUME NEW u \in Users, db'[u] # None PROVE Bought(db[u])'
    <3>1. db'[u] = db[u] /\ Bought(db[u])
      BY <1>4, <2>2 DEF LedgerInv, Stored
    <3> QED BY <3>1
  <2> QED BY <1>1, <2>1, <2>2 DEF Stored
<1> QED BY <1>8, <1>9, <1>10, <1>11 DEF LedgerInv

(* Who is deleted takes the account along.                                 *)
LEMMA PopLedger ==
    ASSUME LedgerInv, NEW u \in Users, PopUser(u)
    PROVE  LedgerInv'
<1>1. /\ pc = "pop" /\ todo' = todo \ {u} /\ cur' = u
      /\ UNCHANGED <<height, queue, h, db, outdated, order, request, op, crashes>>
  BY DEF PopUser, blockVars, cacheVars
<1>2. GateTypes /\ MoreTypes
  BY DEF LedgerInv
<1>3. CASE users[u] = None
  <2>1. dead' = dead \cup {"gatekeeper"} /\ UNCHANGED <<users, pc, bought, gone>>
    BY <1>3 DEF PopUser
  <2>2. GateTypes' /\ MoreTypes'
    BY <1>1, <1>2, <2>1 DEF GateTypes, MoreTypes
  <2>3. InMemory' /\ Stored'
    BY <1>1, <2>1 DEF LedgerInv, InMemory, Stored
  <2> QED BY <2>2, <2>3 DEF LedgerInv
<1>4. CASE users[u] # None
  <2>1. /\ users' = [users EXCEPT ![u] = None] /\ bought' = [bought EXCEPT ![u] = 0]
        /\ gone' = [gone EXCEPT ![h] = gone[h] \cup {u}] /\ pc' = "delete" /\ UNCHANGED dead
    BY <1>4 DEF PopUser
  <2>2. GateTypes'
    BY <1>1, <1>2, <2>1 DEF GateTypes
  <2>3. bought' \in [Users -> 0..MaxRegistrations]
    BY <1>2, <2>1, MoreConstants DEF MoreTypes
  <2>4. gone' \in [Heights -> SUBSET Users]
    BY <1>2, <2>1 DEF MoreTypes, GateTypes
  <2>5. MoreTypes'
    BY <1>1, <1>2, <2>1, <2>3, <2>4 DEF MoreTypes
  <2>6. /\ users'[u] = None /\ bought'[u] = 0
        /\ \A v \in Users : v # u => users'[v] = users[v] /\ bought'[v] = bought[v]
    BY <1>2, <2>1 DEF GateTypes, MoreTypes
  <2>7. InMemory'
    BY <2>6 DEF LedgerInv, InMemory
  <2>8. Stored'
    BY <1>1 DEF LedgerInv, Stored
  <2> QED BY <2>2, <2>5, <2>7, <2>8 DEF LedgerInv
<1> QED BY <1>3, <1>4

(* An operation changes one account, which it leaves balanced.             *)
LEMMA OneAccount ==
    ASSUME LedgerInv, NEW u \in Users, NEW k \in {"register", "add", "free"}, Begin(k, u),
           users' \in [Users -> UserInfo \cup {None}], users'[u] \in UserInfo,
           \A v \in Users : v # u => users'[v] = users[v] /\ bought'[v] = bought[v],
           bought' \in [Users -> 0..MaxRegistrations], Balanced(users'[u], bought'[u]),
           request' \in {None, request},
           UNCHANGED <<height, queue, h, db, outdated, order, pc, todo, cur, dead, gone, crashes>>
    PROVE  LedgerInv'
<1>1. op' = [step |-> "snapshot", kind |-> k, user |-> u]
  BY DEF Begin
<1>2. GateTypes /\ MoreTypes
  BY DEF LedgerInv
<1>3. GateTypes'
  BY <1>1, <1>2 DEF GateTypes
<1>4. MoreTypes'
  BY <1>2 DEF MoreTypes
<1>5. users'[u] # None
  BY ConstantTypes
<1>6. InMemory'
  BY <1>5 DEF LedgerInv, InMemory
<1>7. op'.step # "store"
  BY <1>1
<1>8. Stored'
  BY <1>7 DEF LedgerInv, Stored
<1> QED BY <1>3, <1>4, <1>6, <1>8 DEF LedgerInv

LEMMA RegisterLedger ==
    ASSUME LedgerInv, NEW u \in Users, Register(u)
    PROVE  LedgerInv'
<1>1. GateTypes /\ bought \in [Users -> 0..MaxRegistrations]
  BY DEF LedgerInv, MoreTypes
<1>2. PICK n \in 0..MaxRegistrations : n = bought[u]
  BY <1>1
<1>3. bought[u] < MaxRegistrations /\ bought' = [bought EXCEPT ![u] = n + 1]
  BY <1>1, <1>2, RegisterIs
<1>4. n \in Nat /\ n + 1 \in 0..MaxRegistrations
  BY <1>2, <1>3, MoreConstants
<1>5. /\ bought' \in [Users -> 0..MaxRegistrations] /\ bought'[u] = n + 1
      /\ \A v \in Users : v # u => bought'[v] = bought[v]
  BY <1>1, <1>3, <1>4
<1>6. users'[u] \in UserInfo
  BY <1>1, RegisterIs
<1>7. PICK new \in UserInfo : new = users'[u]
  BY <1>6
<1>8. Balanced(new, n + 1)
  <2>1. CASE users[u] = None
    <3>1. new = Fresh
      BY <1>1, <1>7, <2>1, RegisterIs
    <3>2. new.slots = SubscriptionSlots /\ \A x \in Uuids : new.apps[x] = 0
      BY <3>1 DEF Fresh
    <3>3. Used(new) = 0
      BY <3>2, UsedIsNat
    <3>4. n = 0
      BY <1>2, <2>1 DEF LedgerInv, InMemory
    <3>5. new.slots + Used(new) = SubscriptionSlots
      BY <3>2, <3>3, MoreConstants
    <3>6. (n + 1) * SubscriptionSlots = SubscriptionSlots
      BY <3>4, MoreConstants
    <3> QED BY <3>5, <3>6 DEF Balanced
  <2>2. CASE users[u] # None
    <3>1. users[u] \in UserInfo /\ Balanced(users[u], n)
      BY <1>1, <1>2, <2>2, RegisteredType DEF LedgerInv, InMemory
    <3>2. PICK info \in UserInfo : info = users[u]
      BY <3>1
    <3>3. new.slots = info.slots + SubscriptionSlots /\ new.apps = info.apps
      BY <1>1, <1>7, <2>2, <3>2, RegisterIs
    <3>4. Used(new) = Used(info) /\ Used(info) \in Nat /\ info.slots \in Nat
      BY <3>3, UsedOf, UsedIsNat DEF UserInfo
    <3>5. info.slots + Used(info) = n * SubscriptionSlots
      BY <3>1, <3>2 DEF Balanced
    <3>6. new.slots + Used(new) = n * SubscriptionSlots + SubscriptionSlots
      <4> DEFINE w == Used(info)
      <4>1. w \in Nat /\ Used(new) = w /\ info.slots + w = n * SubscriptionSlots
        BY <3>4, <3>5
      <4> HIDE DEF w
      <4> QED BY <3>3, <3>4, <4>1, MoreConstants
    <3>7. (n + 1) * SubscriptionSlots = n * SubscriptionSlots + SubscriptionSlots
      BY <1>4, MoreConstants
    <3> QED BY <3>6, <3>7 DEF Balanced
  <2> QED BY <2>1, <2>2
<1>9. Balanced(users'[u], bought'[u])
  BY <1>5, <1>7, <1>8
<1> QED BY <1>1, <1>5, <1>9, RegisterIs, OneAccount

LEMMA MovesLedger ==
    ASSUME LedgerInv, NEW u \in Users, users[u] # None, users'[u] \in UserInfo,
           Moves(users[u], users'[u]), bought' = bought
    PROVE  Balanced(users'[u], bought'[u])
<1>1. users[u] \in UserInfo /\ Balanced(users[u], bought[u])
  BY RegisteredType DEF LedgerInv, InMemory
<1>2. PICK new \in UserInfo : new = users'[u]
  OBVIOUS
<1>3. new.slots + Used(new) = users[u].slots + Used(users[u])
  BY <1>1, <1>2, MovesBalance
<1>4. Balanced(new, bought[u])
  BY <1>1, <1>3 DEF Balanced
<1> QED BY <1>2, <1>4

LEMMA OperationLedger ==
    LedgerInv /\ ((\E u \in Users : Register(u)) \/ Charge \/ (\E x \in Uuids : Free(x))) => LedgerInv'
<1> SUFFICES ASSUME LedgerInv, (\E u \in Users : Register(u)) \/ Charge \/ (\E x \in Uuids : Free(x))
             PROVE  LedgerInv'
  OBVIOUS
<1>1. GateTypes /\ MoreTypes
  BY DEF LedgerInv
<1>2. CASE Charge
  <2>1. CASE UNCHANGED <<users, op>>
    <3>1. GateTypes' /\ MoreTypes'
      BY <1>1, <1>2, <2>1, ChargeIs DEF GateTypes, MoreTypes
    <3>2. InMemory' /\ Stored'
      BY <1>1, <1>2, <2>1, ChargeIs DEF LedgerInv, InMemory, Stored
    <3> QED BY <3>1, <3>2 DEF LedgerInv
  <2>2. CASE ~UNCHANGED <<users, op>>
    <3>1. bought' = bought /\ bought' \in [Users -> 0..MaxRegistrations] /\ request' = None
      BY <1>1, <1>2, ChargeIs DEF MoreTypes
    <3>2. PICK u \in Users :
             /\ Begin("add", u) /\ users[u] # None
             /\ users' \in [Users -> UserInfo \cup {None}] /\ users'[u] \in UserInfo
             /\ Moves(users[u], users'[u])
             /\ \A v \in Users : v # u => users'[v] = users[v]
      BY <1>1, <1>2, <2>2, ChargeIs
    <3>3. Balanced(users'[u], bought'[u])
      BY <3>1, <3>2, MovesLedger
    <3>4. UNCHANGED <<height, queue, h, db, outdated, order, pc, todo, cur, dead, gone, crashes>>
      BY <1>1, <1>2, ChargeIs
    <3> QED BY <3>1, <3>2, <3>3, <3>4, OneAccount
  <2> QED BY <2>1, <2>2
<1>3. ASSUME NEW x \in Uuids, Free(x) PROVE LedgerInv'
  <2>1. /\ bought' = bought /\ request' = request
        /\ UNCHANGED <<height, queue, h, db, outdated, order, pc, todo, cur, dead, gone, crashes>>
    BY <1>1, <1>3, FreeIs
  <2>2. PICK u \in Users :
           /\ Begin("free", u) /\ users[u] # None
           /\ users' \in [Users -> UserInfo \cup {None}] /\ users'[u] \in UserInfo
           /\ Moves(users[u], users'[u])
           /\ \A v \in Users : v # u => users'[v] = users[v]
    BY <1>1, <1>3, FreeIs
  <2>3. Balanced(users'[u], bought'[u])
    BY <2>1, <2>2, MovesLedger
  <2>4. bought' \in [Users -> 0..MaxRegistrations]
    BY <1>1, <2>1 DEF MoreTypes
  <2> QED BY <2>1, <2>2, <2>3, <2>4, OneAccount
<1> QED BY <1>2, <1>3, RegisterLedger

LEMMA CheckLedger ==
    ASSUME LedgerInv, NEW x \in Uuids, NEW n \in BlobSlots, Check(x, n)
    PROVE  LedgerInv'
<1>1. /\ UNCHANGED <<height, queue, h, users, db, outdated, order, pc, todo, cur, op, dead, bought, gone, crashes>>
      /\ request' = [uuid |-> x, required |-> n]
  BY DEF Check, blockVars, cacheVars, threadVars
<1>2. GateTypes' /\ MoreTypes'
  BY <1>1 DEF LedgerInv, GateTypes, MoreTypes
<1>3. InMemory' /\ Stored'
  BY <1>1 DEF LedgerInv, InMemory, Stored
<1> QED BY <1>2, <1>3 DEF LedgerInv

(* What is copied and stored is balanced, also when its user is gone.      *)
LEMMA StoreLedger == LedgerInv /\ (Snapshot \/ Store) => LedgerInv'
<1> SUFFICES ASSUME LedgerInv, Snapshot \/ Store PROVE LedgerInv'
  OBVIOUS
<1>1. /\ UNCHANGED <<height, queue, h, users, outdated, order, pc, todo, cur, request, bought, gone, crashes>>
      /\ op # NoOp
  BY DEF Snapshot, Store, blockVars, cacheVars, threadVars, NoOp
<1>2. GateTypes /\ MoreTypes /\ op.user \in Users
  BY <1>1, OpIs DEF LedgerInv
<1>3. dead' \subseteq {"gatekeeper", "watch"}
  BY <1>2 DEF Snapshot, Store, MoreTypes
<1>4. MoreTypes'
  BY <1>1, <1>2, <1>3 DEF MoreTypes
<1>5. InMemory'
  BY <1>1 DEF LedgerInv, InMemory
<1>6. CASE Snapshot /\ users[op.user] # None
  <2>1. op' = [step |-> "store", user |-> op.user, info |-> users[op.user]] /\ db' = db
    BY <1>6 DEF Snapshot
  <2>2. users[op.user] \in UserInfo
    BY <1>2, <1>6, RegisteredType
  <2>3. GateTypes'
    BY <1>1, <1>2, <2>1, <2>2 DEF GateTypes
  <2>4. bought[op.user] \in 0..MaxRegistrations /\ Balanced(users[op.user], bought[op.user])
    BY <1>2, <1>6 DEF LedgerInv, MoreTypes, InMemory
  <2>5. Bought(users[op.user])
    BY <2>4 DEF Bought
  <2>6. op'.info = users[op.user]
    BY <2>1
  <2>7. Stored'
    BY <2>1, <2>5, <2>6 DEF LedgerInv, Stored
  <2> QED BY <1>4, <1>5, <2>3, <2>7 DEF LedgerInv
<1>7. CASE Snapshot /\ users[op.user] = None
  <2>1. op' = NoOp /\ db' = db /\ op'.step # "store"
    BY <1>7 DEF Snapshot, NoOp
  <2>2. GateTypes'
    BY <1>1, <1>2, <2>1 DEF GateTypes
  <2>3. Stored'
    BY <2>1 DEF LedgerInv, Stored
  <2> QED BY <1>4, <1>5, <2>2, <2>3 DEF LedgerInv
<1>8. CASE Store
  <2>1. op' = NoOp /\ op'.step # "store" /\ db' = [db EXCEPT ![op.user] = op.info] /\ op.step = "store"
    BY <1>8 DEF Store, NoOp
  <2>2. op.info \in UserInfo /\ Bought(op.info)
    BY <1>2, <2>1, OpIs DEF LedgerInv, Stored
  <2>3. db' \in [Users -> UserInfo \cup {None}] /\ \A v \in Users : db'[v] = db[v] \/ db'[v] = op.info
    BY <1>2, <2>1, <2>2 DEF GateTypes
  <2>4. GateTypes'
    BY <1>1, <1>2, <2>1, <2>3 DEF GateTypes
  <2>5. ASSUME NEW v \in Users, db'[v] # None PROVE Bought(db'[v])
    <3>1. CASE db'[v] = db[v]
      <4>1. Bought(db[v])
        BY <2>5, <3>1 DEF LedgerInv, Stored
      <4> QED BY <3>1, <4>1
    <3>2. CASE db'[v] = op.info
      BY <2>2, <3>2
    <3> QED BY <2>3, <3>1, <3>2
  <2>6. Stored'
    BY <2>1, <2>5 DEF Stored
  <2> QED BY <1>4, <1>5, <2>4, <2>6 DEF LedgerInv
<1> QED BY <1>6, <1>7, <1>8

LEMMA Quotient ==
    ASSUME NEW k \in Nat, NEW s \in Nat \ {0}
    PROVE  (k * s) \div s = k
OBVIOUS

(* The number of subscriptions that a user is loaded with is the one it    *)
(* was stored with.                                                        *)
LEMMA RestartLedger == LedgerInv /\ Restart => LedgerInv'
<1> SUFFICES ASSUME LedgerInv, Restart PROVE LedgerInv'
  OBVIOUS
<1>1. /\ UNCHANGED <<height, db, h, cur>> /\ users' = db /\ queue' = <<>> /\ pc' = "get" /\ todo' = {}
      /\ request' = None /\ op' = NoOp /\ dead' = {} /\ crashes < MaxCrashes /\ crashes' = crashes + 1
      /\ outdated' = [n \in Heights |-> {}] /\ order' = <<>> /\ gone' = [n \in Heights |-> {}]
      /\ bought' = [u \in Users |-> IF db[u] = None THEN 0
                                    ELSE (Used(db[u]) + db[u].slots) \div SubscriptionSlots]
  BY DEF Restart, Heights
<1>2. <<>> \in Seq(Heights) /\ Len(<<>>) = 0
  BY EmptySeq
<1>3. GateTypes /\ MoreTypes /\ db \in [Users -> UserInfo \cup {None}]
  BY DEF LedgerInv, GateTypes
<1>4. crashes' \in 0..MaxCrashes
  BY <1>1, <1>3, MoreConstants DEF MoreTypes
<1>5. GateTypes'
  BY <1>1, <1>2, <1>3, <1>4 DEF GateTypes
<1>6. ASSUME NEW u \in Users
      PROVE  /\ bought'[u] \in 0..MaxRegistrations
             /\ IF db[u] = None THEN bought'[u] = 0 ELSE Balanced(db[u], bought'[u])
  <2>1. CASE db[u] = None
    BY <1>1, <2>1, MoreConstants
  <2>2. CASE db[u] # None
    <3>1. PICK k \in 0..MaxRegistrations : Balanced(db[u], k)
      BY <2>2 DEF LedgerInv, Stored, Bought
    <3>2. PICK info \in UserInfo : info = db[u]
      BY <1>3, <2>2
    <3>3. info.slots \in Nat /\ Used(info) \in Nat /\ k \in Nat
      BY <3>1, UsedIsNat, MoreConstants DEF UserInfo
    <3>4. info.slots + Used(info) = k * SubscriptionSlots
      BY <3>1, <3>2 DEF Balanced
    <3>5. Used(info) + info.slots = k * SubscriptionSlots
      <4> DEFINE w == Used(info)
      <4>1. w \in Nat /\ info.slots + w = k * SubscriptionSlots
        BY <3>3, <3>4
      <4> HIDE DEF w
      <4>2. w + info.slots = k * SubscriptionSlots
        BY <3>3, <4>1
      <4> QED BY <4>2 DEF w
    <3>6. bought'[u] = (k * SubscriptionSlots) \div SubscriptionSlots
      BY <1>1, <2>2, <3>2, <3>5
    <3>7. bought'[u] = k
      BY <3>3, <3>6, Quotient, MoreConstants
    <3> QED BY <2>2, <3>1, <3>7
  <2> QED BY <2>1, <2>2
<1>7. bought' \in [Users -> 0..MaxRegistrations]
  BY <1>1, <1>6
<1>8. MoreTypes'
  BY <1>1, <1>2, <1>4, <1>7, ConstantTypes DEF MoreTypes
<1>9. InMemory'
  BY <1>1, <1>6 DEF InMemory
<1>10. op'.step # "store"
  BY <1>1 DEF NoOp
<1>11. Stored'
  BY <1>1, <1>10 DEF LedgerInv, Stored
<1> QED BY <1>5, <1>8, <1>9, <1>11 DEF LedgerInv

LEMMA StepLedger == LedgerInv /\ [Next]_vars => LedgerInv'
<1> SUFFICES ASSUME LedgerInv, [Next]_vars PROVE LedgerInv'
  OBVIOUS
<1>1. ASSUME Manage PROVE LedgerInv'
  BY <1>1, ThreadLedger, PopLedger DEF Manage
<1>2. ASSUME UNCHANGED vars PROVE LedgerInv'
  <2>1. GateTypes' /\ MoreTypes'
    BY <1>2 DEF vars, blockVars, cacheVars, threadVars, LedgerInv, GateTypes, MoreTypes
  <2>2. InMemory' /\ Stored'
    BY <1>2 DEF vars, LedgerInv, InMemory, Stored
  <2> QED BY <2>1, <2>2 DEF LedgerInv
<1> QED BY <1>1, <1>2, NewBlockLedger, OperationLedger, CheckLedger, StoreLedger, RestartLedger DEF Next

(* The accounts of the users in memory, on disk and on their way to disk   *)
(* are balanced, whatever rare events happen.                              *)
THEOREM LedgerInvariance == Spec => []LedgerInv
<1> QED BY InitLedger, StepLedger, PTL DEF Spec

(* No slot is made or lost, whatever is added, updated, freed, renewed,    *)
(* deleted or loaded from disk, also while a user is being deleted.        *)
THEOREM SlotsConservedHolds == Spec => []SlotsConserved
<1>1. LedgerInv => SlotsConserved
  <2> SUFFICES ASSUME LedgerInv PROVE SlotsConserved
    OBVIOUS
  <2>1. TypeOK
    BY DEF LedgerInv, GateTypes, MoreTypes, Heights, TypeOK
  <2>2. ASSUME NEW u \in Registered
        PROVE  users[u].slots + Used(users[u]) = bought[u] * SubscriptionSlots
    BY DEF LedgerInv, InMemory, Registered, Balanced
  <2> QED BY <2>1, <2>2 DEF SlotsConserved
<1> QED BY <1>1, LedgerInvariance, PTL
=============================================================================
