---------------------------- MODULE ServerProofs ----------------------------
(***************************************************************************)
(* Proofs about the server, for any number of requests at once, stopping   *)
(* half way or not, on both kinds of stores, and any number of roles,      *)
(* weeks, players and sessions.                                            *)
(***************************************************************************)
EXTENDS Answers, PlacedOrders, FiniteSetTheorems, TLAPS

(* An interval from 1 and its parts are finite. *)
LEMMA PositionsFinite ==
  ASSUME NEW n \in Nat
  PROVE  /\ IsFiniteSet(1..n) /\ Cardinality(1..n) = n
         /\ \A S \in SUBSET (1..n) : IsFiniteSet(S) /\ Cardinality(S) \in Nat
<1>1. 1 \in Int /\ n \in Int
  OBVIOUS
<1>2. /\ IsFiniteSet(1..n)
      /\ Cardinality(1..n) = IF 1 > n THEN 0 ELSE n - 1 + 1
  BY <1>1, FS_Interval
<1>3. Cardinality(1..n) = n
  BY <1>2
<1>4. ASSUME NEW S \in SUBSET (1..n)  PROVE IsFiniteSet(S)
  BY <1>2, FS_Subset
<1> QED  BY <1>2, <1>3, <1>4, FS_CardinalityType

(* There are as many roles as AllRoles lists. *)
LEMMA RolesCount == IsFiniteSet(Roles) /\ Cardinality(Roles) = Len(AllRoles)
<1> DEFINE N == Len(AllRoles)
           f == [i \in 1..N |-> AllRoles[i]]
<1>1. N \in Nat
  BY RolesAssumption
<1>2. f \in Bijection(1..N, Roles)
  <2>1. f \in [1..N -> Roles]
    BY DEF Roles
  <2>2. \A a, b \in 1..N : f[a] = f[b] => a = b
    BY RolesAssumption
  <2>3. \A t \in Roles : \E i \in 1..N : f[i] = t
    BY DEF Roles
  <2> HIDE DEF f
  <2> QED  BY <2>1, <2>2, <2>3 DEF Bijection, Injection, Surjection, IsInjective
<1>3. IsFiniteSet(1..N) /\ Cardinality(1..N) = N
  BY <1>1, PositionsFinite
<1> QED  BY <1>2, <1>3, FS_Bijection DEF ExistsBijection

(* Every number up to the size of a set of positions is the rank of one of *)
(* them, so that the n-th position NthOf chooses exists.                   *)
LEMMA NthExists ==
  ASSUME NEW N \in Nat, NEW S \in SUBSET (1..N), NEW n \in 1..Cardinality(S)
  PROVE  NthOf(S, n) \in S /\ Cardinality({j \in S : j <= NthOf(S, n)}) = n
<1> DEFINE below(i) == {j \in S : j <= i}
           rank == [i \in S |-> Cardinality(below(i))]
<1>1. IsFiniteSet(S) /\ Cardinality(S) \in Nat
  BY PositionsFinite
<1>2. ASSUME NEW i \in S
      PROVE  /\ IsFiniteSet(below(i)) /\ Cardinality(below(i)) \in Nat
             /\ Cardinality(below(i)) <= Cardinality(S) /\ Cardinality(below(i)) # 0
  <2>1. below(i) \in SUBSET S /\ i \in below(i)
    BY <1>2, SMT
  <2>2. IsFiniteSet(below(i)) /\ Cardinality(below(i)) <= Cardinality(S)
    BY <1>1, <2>1, FS_Subset
  <2> QED  BY <2>1, <2>2, FS_EmptySet, FS_CardinalityType
<1>3. rank \in [S -> 1..Cardinality(S)]
  BY <1>1, <1>2, SMT
<1>4. ASSUME NEW i \in S, NEW k \in S, i < k
      PROVE  Cardinality(below(i)) < Cardinality(below(k))
  <2>1. below(i) \cup {k} \in SUBSET below(k) /\ k \notin below(i)
    <3>1. i \in Int /\ k \in Int /\ S \subseteq Int
      BY <1>4
    <3>2. \A j \in S : j <= i => j <= k /\ j # k
      BY <1>4, <3>1
    <3>3. k <= k /\ k \in S
      BY <3>1, <1>4
    <3>4. \A j \in below(i) \cup {k} : j \in S /\ j <= k
      BY <3>2, <3>3
    <3>5. k \notin below(i)
      BY <3>2
    <3> QED  BY <3>4, <3>5, Zenon
  <2>2. /\ IsFiniteSet(below(i) \cup {k})
        /\ Cardinality(below(i) \cup {k}) = Cardinality(below(i)) + 1
    BY <1>2, <2>1, FS_AddElement
  <2>3. Cardinality(below(i) \cup {k}) <= Cardinality(below(k))
    BY <1>2, <2>1, FS_Subset
  <2> HIDE DEF below
  <2> QED  BY <1>2, <2>2, <2>3, SMT
<1>5. rank \in Injection(S, 1..Cardinality(S))
  <2> HIDE DEF below
  <2>1. ASSUME NEW i \in S, NEW k \in S, rank[i] = rank[k]  PROVE i = k
    <3>1. i \in Int /\ k \in Int /\ Cardinality(below(i)) \in Nat /\ Cardinality(below(k)) \in Nat
      BY <1>2, <2>1
    <3>2. Cardinality(below(i)) = Cardinality(below(k))
      BY <2>1
    <3>3. ~(i < k) /\ ~(k < i)
      BY <1>4, <2>1, <3>1, <3>2
    <3> QED  BY <3>1, <3>3
  <2> HIDE DEF rank
  <2> QED  BY <1>3, <2>1 DEF Injection, IsInjective
<1>6. rank \in Surjection(S, 1..Cardinality(S))
  <2>1. IsFiniteSet(1..Cardinality(S)) /\ Cardinality(1..Cardinality(S)) = Cardinality(S)
    BY <1>1, PositionsFinite
  <2> HIDE DEF rank
  <2> QED  BY <1>5, <2>1, FS_Injection
<1>7. \E i \in S : Cardinality(below(i)) = n
  BY <1>6 DEF Surjection
<1> QED  BY <1>7 DEF NthOf

(* The roles nobody took, each once, in a sequence. *)
LEMMA AvailableFacts ==
  ASSUME NEW r
  PROVE  LET free == availableRoles(r)
         IN  /\ free \in Seq(Roles)
             /\ \A n \in 1..Len(free) : free[n] \notin UsedRoles(r)
             /\ \A m, n \in 1..Len(free) : free[m] = free[n] => m = n
<1> DEFINE free == {i \in 1..Len(AllRoles) : AllRoles[i] \notin UsedRoles(r)}
           C == Cardinality(free)
<1>1. Len(AllRoles) \in Nat /\ free \in SUBSET (1..Len(AllRoles))
  BY RolesAssumption
<1>2. C \in Nat
  BY <1>1, PositionsFinite
<1>3. \A n \in 1..C : NthOf(free, n) \in free /\ Cardinality({j \in free : j <= NthOf(free, n)}) = n
  <2> HIDE DEF free
  <2> QED  BY <1>1, NthExists
<1>4. \A n \in 1..C : /\ AllRoles[NthOf(free, n)] \in Roles
                      /\ AllRoles[NthOf(free, n)] \notin UsedRoles(r)
  BY <1>3 DEF Roles
<1>5. \A m, n \in 1..C : AllRoles[NthOf(free, m)] = AllRoles[NthOf(free, n)] => m = n
  <2>1. ASSUME NEW m \in 1..C, NEW n \in 1..C, AllRoles[NthOf(free, m)] = AllRoles[NthOf(free, n)]
        PROVE  m = n
    <3>1. NthOf(free, m) \in 1..Len(AllRoles) /\ NthOf(free, n) \in 1..Len(AllRoles)
      BY <1>3
    <3>2. NthOf(free, m) = NthOf(free, n)
      BY <2>1, <3>1, RolesAssumption
    <3> QED  BY <1>3, <3>2
  <2> QED  BY <2>1
<1>6. availableRoles(r) = [n \in 1..C |-> AllRoles[NthOf(free, n)]]
  BY DEF availableRoles
<1> HIDE DEF free, C
<1>7. /\ availableRoles(r) \in Seq(Roles) /\ Len(availableRoles(r)) = C
  <2>1. availableRoles(r) \in [1..C -> Roles]
    BY <1>4, <1>6
  <2> QED  BY <1>2, <2>1, SMT
<1> QED  BY <1>4, <1>5, <1>6, <1>7

(* Players without a role are counted in the order they joined. *)
LEMMA RankGrows ==
  ASSUME NEW r, NEW i \in Nat \ {0}, NEW k \in Nat \ {0}, i < k, r.Players[k].Role = NoRole
  PROVE  /\ RankWithoutRole(r, i) \in Nat /\ RankWithoutRole(r, k) \in Nat
         /\ RankWithoutRole(r, i) < RankWithoutRole(r, k)
<1> DEFINE upTo(n) == {j \in 1..n : r.Players[j].Role = NoRole}
<1>1. IsFiniteSet(upTo(i)) /\ IsFiniteSet(upTo(k))
  BY PositionsFinite
<1>2. upTo(i) \cup {k} \in SUBSET upTo(k) /\ k \notin upTo(i)
  BY SMT
<1>3. IsFiniteSet(upTo(i) \cup {k}) /\ Cardinality(upTo(i) \cup {k}) = Cardinality(upTo(i)) + 1
  BY <1>1, <1>2, FS_AddElement
<1>4. Cardinality(upTo(i) \cup {k}) <= Cardinality(upTo(k))
  BY <1>1, <1>2, FS_Subset
<1>5. Cardinality(upTo(i)) \in Nat /\ Cardinality(upTo(k)) \in Nat
  BY <1>1, FS_CardinalityType
<1>6. RankWithoutRole(r, i) = Cardinality(upTo(i)) /\ RankWithoutRole(r, k) = Cardinality(upTo(k))
  BY DEF RankWithoutRole
<1> HIDE DEF upTo
<1> QED  BY <1>3, <1>4, <1>5, <1>6, SMT

(* The first player without a role has rank 1 at least. *)
LEMMA RankPositive ==
  ASSUME NEW r, NEW k \in Nat \ {0}, r.Players[k].Role = NoRole
  PROVE  RankWithoutRole(r, k) \in Nat \ {0}
<1> DEFINE ranked == {j \in 1..k : r.Players[j].Role = NoRole}
<1>1. IsFiniteSet(ranked) /\ k \in ranked
  BY PositionsFinite
<1> QED  BY <1>1, FS_CardinalityType, FS_EmptySet DEF RankWithoutRole
-----------------------------------------------------------------------------
(* The number of a room's players is bounded by the number of roles and    *)
(* every player's identifier has been issued.                              *)
Legal(r) == /\ r \in RoomRecord
            /\ WellFormed(r)
            /\ \A i \in DOMAIN r.Players : r.Players[i].ID \in issued

(* Two copies of the room of the memory stores agree on the players both   *)
(* have.                                                                   *)
Agree(r, q) == \A i \in DOMAIN r.Players \cap DOMAIN q.Players :
                 r.Players[i] = q.Players[i]

(* Every room there is: the stored one and those requests work on. *)
Copies == ({room} \cup {local[w].room : w \in Workers}) \ {NoRoom}

RoomInv == /\ \A r \in Copies : Legal(r)
           /\ kind = "memory" => \A r, q \in Copies : Agree(r, q)

GoodSession(session) ==
  /\ session \in Session
  /\ Len(session.History) = session.CurrentWeek
  /\ session.Status = "finished" <=> session.CurrentWeek = MaxWeeks

Known == {sid \in SessionIds : sessions[sid] # NoSession}

SessionInv == /\ \A sid \in Known : GoodSession(sessions[sid])
              /\ roomSession # NoId => roomSession \in Known

(* Where a request stands and what it then knows. *)
AdvanceKeepsRoom == {"getRoomSession", "getSession", "getDecisions", "playWeek", "saveSession"}
HoldsRoom(l) == \/ l.at \in {"haveRoom", "writeRole", "writeRoles", "saveRoom"}
                \/ l.op = "advance" /\ l.at \in AdvanceKeepsRoom
HoldsOrder(l) == l.op = "submit" /\ l.at \in {"getRoomSession", "getSession", "getDecisions"}

Handler(l, k, known) ==
  /\ l \in Local
  /\ l.at \in {"haveRoom", "writeRole", "writeRoles", "playWeek"} => k = "memory"
  /\ HoldsRoom(l) => l.room # NoRoom
  /\ l.at = "writeRole" => l.role \in Roles
  /\ HoldsOrder(l) => l.role \in Roles /\ l.order \in OrderChoices \cap Nat
  /\ l.at \in {"getRoomSession", "getSession", "getDecisions"} => l.op \in {"submit", "advance"}
  /\ l.at = "getSession" => l.sid \in known
  /\ l.at \in {"getDecisions", "playWeek", "saveSession"} =>
       l.sid \in SessionIds /\ GoodSession(l.session)
  /\ l.at \in {"getDecisions", "playWeek"} => l.week = currentPlayableWeek(l.session)
  /\ l.at = "saveSession" => l.op \in {"start", "advance"}
  /\ l.at = "haveRoom" => l.op \in {"join", "assign", "start"}
  /\ l.op = "start" /\ l.at = "saveRoom" => l.sid \in SessionIds /\ GoodSession(l.session)
  /\ l.at = "saveDecisions" =>
       l.op = "submit" /\ l.week \in 1..MaxWeeks /\ l.orders \in Orders
  /\ l.at = "playWeek" =>
       l.op = "advance" /\ l.orders \in Orders /\ MayAdvance(l.session, l.orders)

Handlers == \A w \in Workers : Handler(local[w], kind, Known)

Inv == /\ StoresTypeOK /\ issued \subseteq PlayerIds \cup SessionIds
       /\ local \in [Workers -> Local]
       /\ SessionInv /\ Handlers /\ RoomInv

-----------------------------------------------------------------------------

(* A change that leaves a room its players, in their places and with their *)
(* names, keeps it legal.                                                  *)
LEMMA Relabelled ==
  ASSUME NEW r, Legal(r), NEW q \in RoomRecord,
         q.Status = r.Status, q.CurrentWeek = r.CurrentWeek,
         Len(q.Players) = Len(r.Players),
         \A i \in DOMAIN q.Players : /\ q.Players[i].ID = r.Players[i].ID
                                     /\ q.Players[i].Name = r.Players[i].Name,
         kind = "redis" => RolesDistinct(q)
  PROVE  Legal(q)
<1>1. r.Players \in Seq(Player) /\ q.Players \in Seq(Player)
  BY DEF Legal, RoomRecord
<1>2. DOMAIN q.Players = DOMAIN r.Players
  BY <1>1
<1> QED  BY <1>1, <1>2 DEF Legal, WellFormed

(* AddPlayer keeps a room legal, for a player with a new identifier. *)
LEMMA AddPlayerLegal ==
  ASSUME NEW r, Legal(r), NEW name \in Names, MayAddPlayer(r, name),
         NEW id \in PlayerIds, id \notin issued
  PROVE  LET q == AddPlayer(r, id, name)
         IN  /\ q \in RoomRecord /\ WellFormed(q)
             /\ \A i \in DOMAIN q.Players : q.Players[i].ID \in issued \cup {id}
             /\ q.Players = Append(r.Players, [ID |-> id, Name |-> name, Role |-> NoRole])
<1> DEFINE p == [ID |-> id, Name |-> name, Role |-> NoRole]
           q == AddPlayer(r, id, name)
           n == Len(r.Players)
<1>1. r \in RoomRecord /\ r.Players \in Seq(Player) /\ p \in Player /\ n \in Nat
  BY DEF Legal, RoomRecord, Player
<1>2. /\ q \in RoomRecord /\ q.Players = Append(r.Players, p)
      /\ q.Status = r.Status /\ q.CurrentWeek = r.CurrentWeek
  BY <1>1 DEF AddPlayer, RoomRecord
<1>3. /\ Len(q.Players) = n + 1 /\ DOMAIN q.Players = 1..(n + 1) /\ DOMAIN r.Players = 1..n
      /\ q.Players[n + 1] = p
      /\ \A i \in 1..n : q.Players[i] = r.Players[i]
  BY <1>1, <1>2
<1>4. /\ \A i \in 1..n : r.Players[i].ID # id /\ r.Players[i].ID \in issued
                        /\ r.Players[i].Name # name
      /\ n < Len(AllRoles)
  BY <1>3 DEF Legal, MayAddPlayer
<1>5. \A i \in 1..(n + 1) : i \in 1..n \/ i = n + 1
  BY <1>1
<1>6. p.ID = id /\ p.Name = name /\ p.Role = NoRole
  OBVIOUS
<1> HIDE DEF p, q
<1>7. WellFormed(q)
  <2>1. Len(q.Players) <= Len(AllRoles)
    BY <1>1, <1>3, <1>4, RolesAssumption
  <2>2. ASSUME NEW i \in 1..(n + 1), NEW j \in 1..(n + 1), i # j
        PROVE  /\ q.Players[i].ID # q.Players[j].ID
               /\ kind = "redis" => q.Players[i].Name # q.Players[j].Name
               /\ kind = "redis" /\ q.Players[i].Role = q.Players[j].Role
                    => q.Players[i].Role = NoRole
    <3>1. CASE i \in 1..n /\ j \in 1..n
      BY <1>3, <2>2, <3>1 DEF Legal, WellFormed, RolesDistinct
    <3>2. CASE i = n + 1 /\ j \in 1..n
      BY <1>3, <1>4, <1>6, <3>2
    <3>3. CASE j = n + 1 /\ i \in 1..n
      BY <1>3, <1>4, <1>6, <3>3
    <3> QED  BY <1>5, <2>2, <3>1, <3>2, <3>3
  <2>3. q.Status = "waiting" <=> q.CurrentWeek = 0
    BY <1>2 DEF Legal, WellFormed
  <2> QED  BY <1>3, <2>1, <2>2, <2>3 DEF WellFormed, RolesDistinct
<1>8. \A i \in DOMAIN q.Players : q.Players[i].ID \in issued \cup {id}
  BY <1>3, <1>4, <1>5, <1>6
<1> QED  BY <1>2, <1>7, <1>8 DEF p, q

(* Giving one player a role keeps a room legal; on Redis, the role must be *)
(* nobody else's.                                                          *)
LEMMA WithRoleAtLegal ==
  ASSUME NEW r, Legal(r), NEW n, NEW role \in Roles,
         kind = "redis" => \A i \in DOMAIN r.Players : i # n => r.Players[i].Role # role
  PROVE  /\ Legal(WithRoleAt(r, n, role))
         /\ Len(WithRoleAt(r, n, role).Players) = Len(r.Players)
         /\ \A i \in DOMAIN r.Players : WithRoleAt(r, n, role).Players[i].ID = r.Players[i].ID
<1> DEFINE q == WithRoleAt(r, n, role)
           changed == [r.Players EXCEPT ![n] = [r.Players[n] EXCEPT !.Role = role]]
<1>1. r \in RoomRecord /\ r.Players \in Seq(Player)
  BY DEF Legal, RoomRecord
<1>2. q = [r EXCEPT !.Players = changed]
  BY DEF WithRoleAt
<1>3. \A i \in DOMAIN r.Players : r.Players[i] \in Player
  BY <1>1
<1>4. ASSUME NEW i \in DOMAIN r.Players
      PROVE  /\ changed[i] \in Player
             /\ changed[i].ID = r.Players[i].ID /\ changed[i].Name = r.Players[i].Name
             /\ i # n => changed[i].Role = r.Players[i].Role
             /\ i = n => changed[i].Role = role
  BY <1>3 DEF Player
<1>5. changed \in Seq(Player) /\ Len(changed) = Len(r.Players) /\ DOMAIN changed = DOMAIN r.Players
  <2>1. DOMAIN changed = 1..Len(r.Players) /\ Len(r.Players) \in Nat
    BY <1>1
  <2>2. changed \in [1..Len(r.Players) -> Player]
    BY <1>4, <2>1
  <2> QED  BY <1>1, <2>1, <2>2
<1> HIDE DEF changed
<1>6. /\ q \in RoomRecord /\ q.Players = changed
      /\ q.Status = r.Status /\ q.CurrentWeek = r.CurrentWeek
  BY <1>1, <1>2, <1>5 DEF RoomRecord
<1>7. kind = "redis" => RolesDistinct(q)
  BY <1>4, <1>5, <1>6 DEF RolesDistinct, Legal, WellFormed
<1> HIDE DEF q
<1>8. Legal(q)
  BY <1>4, <1>5, <1>6, <1>7, Relabelled
<1> QED  BY <1>4, <1>5, <1>6, <1>8 DEF q

(* What WithRoles leaves of every player. *)
LEMMA WithRolesFacts ==
  ASSUME NEW r, Legal(r), NEW free \in Seq(Roles)
  PROVE  LET q == WithRoles(r, free)
         IN  /\ q \in RoomRecord /\ q.Status = r.Status /\ q.CurrentWeek = r.CurrentWeek
             /\ Len(q.Players) = Len(r.Players) /\ DOMAIN q.Players = DOMAIN r.Players
             /\ \A i \in DOMAIN r.Players :
                  /\ q.Players[i].ID = r.Players[i].ID /\ q.Players[i].Name = r.Players[i].Name
                  /\ q.Players[i].Role =
                       IF r.Players[i].Role = NoRole /\ RankWithoutRole(r, i) <= Len(free)
                         THEN free[RankWithoutRole(r, i)] ELSE r.Players[i].Role
<1> DEFINE changed == [i \in DOMAIN r.Players |->
             IF r.Players[i].Role = NoRole /\ RankWithoutRole(r, i) <= Len(free)
               THEN [r.Players[i] EXCEPT !.Role = free[RankWithoutRole(r, i)]]
               ELSE r.Players[i]]
           q == WithRoles(r, free)
<1>1. r \in RoomRecord /\ r.Players \in Seq(Player) /\ Len(r.Players) \in Nat
      /\ DOMAIN r.Players = 1..Len(r.Players)
  BY DEF Legal, RoomRecord
<1>2. q = [r EXCEPT !.Players = changed]
  BY DEF WithRoles
<1>3. ASSUME NEW i \in DOMAIN r.Players
      PROVE  /\ changed[i] \in Player
             /\ changed[i].ID = r.Players[i].ID /\ changed[i].Name = r.Players[i].Name
             /\ changed[i].Role =
                  IF r.Players[i].Role = NoRole /\ RankWithoutRole(r, i) <= Len(free)
                    THEN free[RankWithoutRole(r, i)] ELSE r.Players[i].Role
  <2>1. r.Players[i] \in Player /\ i \in Nat \ {0}
    BY <1>1
  <2>2. CASE r.Players[i].Role = NoRole /\ RankWithoutRole(r, i) <= Len(free)
    <3>1. RankWithoutRole(r, i) \in Nat \ {0}
      BY <2>1, <2>2, RankPositive
    <3>2. free[RankWithoutRole(r, i)] \in Roles
      BY <2>2, <3>1
    <3> QED  BY <2>1, <2>2, <3>2 DEF Player
  <2>3. CASE ~(r.Players[i].Role = NoRole /\ RankWithoutRole(r, i) <= Len(free))
    BY <2>1, <2>3
  <2> QED  BY <2>2, <2>3
<1>4. DOMAIN changed = DOMAIN r.Players
  OBVIOUS
<1> HIDE DEF changed
<1>5. changed \in Seq(Player) /\ Len(changed) = Len(r.Players)
  <2>1. changed \in [1..Len(r.Players) -> Player]
    <3>1. changed = [i \in 1..Len(r.Players) |-> changed[i]]
      BY <1>1, <1>4 DEF changed
    <3> QED  BY <1>1, <1>3, <3>1
  <2> QED  BY <1>1, <2>1
<1>6. /\ q \in RoomRecord /\ q.Players = changed
      /\ q.Status = r.Status /\ q.CurrentWeek = r.CurrentWeek
  BY <1>1, <1>2, <1>5 DEF RoomRecord
<1> HIDE DEF q
<1> QED  BY <1>3, <1>4, <1>5, <1>6 DEF q

(* The roles EnsureRolesAssigned gives out leave distinct roles distinct.   *)
LEMMA WithRolesDistinct ==
  ASSUME NEW r, Legal(r), RolesDistinct(r), NEW free, free = availableRoles(r)
  PROVE  RolesDistinct(WithRoles(r, free))
<1> DEFINE q == WithRoles(r, free)
<1>1. /\ q \in RoomRecord /\ q.Status = r.Status /\ q.CurrentWeek = r.CurrentWeek
      /\ Len(q.Players) = Len(r.Players) /\ DOMAIN q.Players = DOMAIN r.Players
      /\ \A i \in DOMAIN r.Players :
           /\ q.Players[i].ID = r.Players[i].ID /\ q.Players[i].Name = r.Players[i].Name
           /\ q.Players[i].Role =
                IF r.Players[i].Role = NoRole /\ RankWithoutRole(r, i) <= Len(free)
                  THEN free[RankWithoutRole(r, i)] ELSE r.Players[i].Role
  BY AvailableFacts, WithRolesFacts
<1> HIDE DEF q
<1>2. /\ \A n \in 1..Len(free) : free[n] \notin UsedRoles(r)
      /\ \A m, n \in 1..Len(free) : free[m] = free[n] => m = n
  BY AvailableFacts
<1>3. ASSUME NEW i \in DOMAIN r.Players
      PROVE  /\ i \in Nat \ {0}
             /\ r.Players[i].Role = NoRole => RankWithoutRole(r, i) \in Nat \ {0}
             /\ r.Players[i].Role # NoRole => r.Players[i].Role \in UsedRoles(r)
  <2>1. i \in Nat \ {0}
    BY DEF Legal, RoomRecord
  <2> QED  BY <2>1, RankPositive DEF UsedRoles
<1>4. ASSUME NEW i \in DOMAIN r.Players, NEW j \in DOMAIN r.Players, i < j,
             q.Players[i].Role = q.Players[j].Role
      PROVE  q.Players[i].Role = NoRole
  <2>1. CASE r.Players[i].Role = NoRole /\ r.Players[j].Role = NoRole
    <3>1. /\ RankWithoutRole(r, i) \in Nat \ {0} /\ RankWithoutRole(r, j) \in Nat \ {0}
          /\ RankWithoutRole(r, i) < RankWithoutRole(r, j)
      BY <1>3, <1>4, <2>1, RankGrows
    <3>2. CASE RankWithoutRole(r, j) <= Len(free)
      BY <1>1, <1>2, <1>4, <2>1, <3>1, <3>2
    <3>3. CASE ~(RankWithoutRole(r, j) <= Len(free))
      BY <1>1, <1>4, <2>1, <3>3
    <3> QED  BY <3>2, <3>3
  <2>2. CASE r.Players[i].Role # NoRole /\ r.Players[j].Role = NoRole
    BY <1>1, <1>2, <1>3, <1>4, <2>2
  <2>3. CASE r.Players[i].Role = NoRole /\ r.Players[j].Role # NoRole
    BY <1>1, <1>2, <1>3, <1>4, <2>3
  <2>4. CASE r.Players[i].Role # NoRole /\ r.Players[j].Role # NoRole
    BY <1>1, <1>3, <1>4, <2>4 DEF RolesDistinct
  <2> QED  BY <2>1, <2>2, <2>3, <2>4
<1>5. ASSUME NEW i \in DOMAIN r.Players, NEW j \in DOMAIN r.Players, i # j,
             q.Players[i].Role = q.Players[j].Role
      PROVE  q.Players[i].Role = NoRole
  <2>1. i < j \/ j < i
    BY <1>3, <1>5
  <2> QED  BY <1>4, <1>5, <2>1
<1> QED  BY <1>1, <1>5 DEF RolesDistinct, q

(* In a full room as many roles are free as players have none. *)
LEMMA EverybodySeated ==
  ASSUME NEW r, Legal(r), RolesDistinct(r), Len(r.Players) = Len(AllRoles)
  PROVE  \A i \in DOMAIN r.Players : EnsureRolesAssigned(r).Players[i].Role \in Roles
<1> DEFINE n == Len(r.Players)
           without == {i \in 1..n : r.Players[i].Role = NoRole}
           with == {i \in 1..n : r.Players[i].Role # NoRole}
           places == {i \in 1..Len(AllRoles) : AllRoles[i] \notin UsedRoles(r)}
           left == Roles \ UsedRoles(r)
           free == availableRoles(r)
           held == [i \in with |-> r.Players[i].Role]
           role == [i \in places |-> AllRoles[i]]
<1>1. n \in Nat /\ DOMAIN r.Players = 1..n /\ \A i \in 1..n : r.Players[i].Role \in Roles \cup {NoRole}
  <2>1. r.Players \in Seq(Player)
    BY DEF Legal, RoomRecord
  <2>2. n \in Nat /\ DOMAIN r.Players = 1..n /\ \A i \in 1..n : r.Players[i] \in Player
    BY <2>1
  <2> QED  BY <2>2 DEF Player
<1>2. /\ IsFiniteSet(without) /\ IsFiniteSet(with) /\ IsFiniteSet(places)
      /\ Cardinality(without) \in Nat /\ Cardinality(with) \in Nat
  <2>1. Len(AllRoles) \in Nat
    BY RolesAssumption
  <2>2. without \in SUBSET (1..n) /\ with \in SUBSET (1..n) /\ places \in SUBSET (1..Len(AllRoles))
    OBVIOUS
  <2> HIDE DEF n, without, with, places
  <2> QED  BY <1>1, <2>1, <2>2, PositionsFinite
<1>3. UsedRoles(r) = {r.Players[i].Role : i \in with} /\ UsedRoles(r) \subseteq Roles
  BY <1>1 DEF UsedRoles
<1>4. Cardinality(UsedRoles(r)) = Cardinality(with) /\ IsFiniteSet(UsedRoles(r))
  <2>1. held \in Bijection(with, UsedRoles(r))
    <3>1. held \in [with -> UsedRoles(r)] /\ \A t \in UsedRoles(r) : \E i \in with : held[i] = t
      BY <1>3
    <3>2. \A i, j \in with : held[i] = held[j] => i = j
      BY <1>1 DEF RolesDistinct
    <3> HIDE DEF held
    <3> QED  BY <3>1, <3>2 DEF Bijection, Injection, Surjection, IsInjective
  <2> HIDE DEF held, with
  <2> QED  BY <1>2, <2>1, FS_Bijection DEF ExistsBijection
<1>5. Cardinality(1..n) = Cardinality(with) + Cardinality(without) /\ Cardinality(1..n) = n
  <2>1. 1..n = with \cup without /\ with \cap without = {}
    OBVIOUS
  <2>2. Cardinality(1..n) = n
    BY <1>1, PositionsFinite
  <2>3. Cardinality(with \cup without) = Cardinality(with) + Cardinality(without) - Cardinality(with \cap without)
    <3> HIDE DEF with, without
    <3> QED  BY <1>2, FS_Union
  <2> HIDE DEF with, without, n
  <2>4. Cardinality(1..n) = Cardinality(with \cup without) /\ Cardinality(with \cap without) = 0
    BY <2>1, FS_EmptySet, Zenon
  <2> QED  BY <1>2, <2>2, <2>3, <2>4
<1>6. Cardinality(left) = Cardinality(without)
  <2>1. Cardinality(left) = Cardinality(Roles) - Cardinality(Roles \cap UsedRoles(r))
    BY RolesCount, FS_Difference
  <2>2. Cardinality(Roles \cap UsedRoles(r)) = Cardinality(UsedRoles(r))
    <3>1. Roles \cap UsedRoles(r) = UsedRoles(r)
      BY <1>3
    <3> QED  BY <3>1, Zenon
  <2>3. Cardinality(Roles) = n
    BY RolesCount
  <2> HIDE DEF with, without, n, left
  <2> QED  BY <1>1, <1>2, <1>4, <1>5, <2>1, <2>2, <2>3
<1>7. Cardinality(left) = Cardinality(places)
  <2>1. role \in Bijection(places, left)
    <3>1. role \in [places -> left] /\ \A t \in left : \E i \in places : role[i] = t
      BY DEF Roles
    <3>2. \A i, j \in places : role[i] = role[j] => i = j
      BY RolesAssumption
    <3> HIDE DEF role
    <3> QED  BY <3>1, <3>2 DEF Bijection, Injection, Surjection, IsInjective
  <2> HIDE DEF role, places, left
  <2> QED  BY <1>2, <2>1, FS_Bijection DEF ExistsBijection
<1>8. free \in Seq(Roles) /\ Len(free) = Cardinality(without)
  <2>1. free = [m \in 1..Cardinality(places) |-> AllRoles[NthOf(places, m)]] /\ free \in Seq(Roles)
    BY AvailableFacts DEF availableRoles
  <2>2. DOMAIN free = 1..Cardinality(places) /\ Cardinality(places) \in Nat
    BY <1>2, <1>6, <1>7, <2>1
  <2>3. Len(free) = Cardinality(places)
    <3> HIDE DEF free, places
    <3> QED  BY <2>1, <2>2
  <2> QED  BY <1>6, <1>7, <2>1, <2>3
<1>9. ASSUME NEW i \in 1..n, r.Players[i].Role = NoRole
      PROVE  RankWithoutRole(r, i) \in 1..Len(free)
  <2> DEFINE before == {j \in 1..i : r.Players[j].Role = NoRole}
  <2>1. before \in SUBSET without
    BY <1>1, <1>9
  <2>2. Cardinality(before) <= Cardinality(without)
    <3> HIDE DEF before, without
    <3> QED  BY <1>2, <2>1, FS_Subset
  <2>3. RankWithoutRole(r, i) \in Nat \ {0}
    BY <1>1, <1>9, RankPositive
  <2>4. RankWithoutRole(r, i) = Cardinality(before)
    BY DEF RankWithoutRole
  <2> HIDE DEF before, without, free
  <2> QED  BY <1>2, <1>8, <2>2, <2>3, <2>4
<1>10. \A i \in DOMAIN r.Players :
         EnsureRolesAssigned(r).Players[i].Role =
           IF r.Players[i].Role = NoRole /\ RankWithoutRole(r, i) <= Len(free)
             THEN free[RankWithoutRole(r, i)] ELSE r.Players[i].Role
  BY <1>8, WithRolesFacts DEF EnsureRolesAssigned
<1> HIDE DEF free
<1>11. ASSUME NEW i \in 1..n, r.Players[i].Role = NoRole
       PROVE  EnsureRolesAssigned(r).Players[i].Role \in Roles
  <2>1. RankWithoutRole(r, i) <= Len(free) /\ free[RankWithoutRole(r, i)] \in Roles
    BY <1>8, <1>9, <1>11
  <2> QED  BY <1>1, <1>10, <1>11, <2>1
<1> QED  BY <1>1, <1>10, <1>11

(* EnsureRolesAssigned keeps a room legal; on the memory stores, whatever  *)
(* the roles to be had have become by then.                                *)
LEMMA WithRolesLegal ==
  ASSUME NEW r, Legal(r), NEW free \in Seq(Roles),
         kind = "redis" => free = availableRoles(r)
  PROVE  Legal(WithRoles(r, free))
<1> DEFINE q == WithRoles(r, free)
<1>1. /\ q \in RoomRecord /\ q.Status = r.Status /\ q.CurrentWeek = r.CurrentWeek
      /\ Len(q.Players) = Len(r.Players) /\ DOMAIN q.Players = DOMAIN r.Players
      /\ \A i \in DOMAIN r.Players :
           /\ q.Players[i].ID = r.Players[i].ID /\ q.Players[i].Name = r.Players[i].Name
           /\ q.Players[i].Role =
                IF r.Players[i].Role = NoRole /\ RankWithoutRole(r, i) <= Len(free)
                  THEN free[RankWithoutRole(r, i)] ELSE r.Players[i].Role
  BY WithRolesFacts
<1> HIDE DEF q
<1>2. ASSUME kind = "redis"  PROVE RolesDistinct(q)
  BY <1>2, WithRolesDistinct DEF q, Legal, WellFormed
<1>3. Legal(q)
  BY <1>1, <1>2, Relabelled
<1> QED  BY <1>3 DEF q

-----------------------------------------------------------------------------
(* A room stays legal when more identifiers have been issued. *)
LEMMA LegalKept ==
  ASSUME NEW r, Legal(r), kind' = kind, issued \subseteq issued'
  PROVE  Legal(r)'
  BY DEF Legal, WellFormed

(* Steps that add at most legal rooms with the players of a known one. *)
LEMMA CopiesKept ==
  ASSUME RoomInv, kind' = kind, issued \subseteq issued',
         \A r \in Copies' :
           \/ r \in Copies
           \/ /\ Legal(r)'
              /\ kind = "memory" =>
                   r.Players = <<>> \/ \E q \in Copies : r.Players = q.Players
  PROVE  RoomInv'
<1>1. ASSUME NEW r \in Copies'  PROVE Legal(r)'
  BY LegalKept DEF RoomInv
<1>2. ASSUME kind = "memory", NEW r \in Copies', NEW q \in Copies'  PROVE Agree(r, q)
  <2>1. r.Players = <<>> \/ \E c \in Copies : r.Players = c.Players
    BY <1>2
  <2>2. q.Players = <<>> \/ \E c \in Copies : q.Players = c.Players
    BY <1>2
  <2>3. DOMAIN <<>> = {}
    OBVIOUS
  <2> QED  BY <1>2, <2>1, <2>2, <2>3 DEF RoomInv, Agree
<1> QED  BY <1>1, <1>2 DEF RoomInv, Agree

(* What a copy of a room becomes when the players of another are written.  *)
LEMMA SeenLegal ==
  ASSUME RoomInv, kind = "memory", kind' = kind, issued \subseteq issued',
         NEW c \in Copies, NEW written \in RoomRecord, WellFormed(written),
         \A i \in DOMAIN written.Players :
           /\ written.Players[i].ID \in issued'
           /\ \/ written.Players[i].ID \notin issued
              \/ \E q \in Copies : /\ i \in DOMAIN q.Players
                                   /\ q.Players[i].ID = written.Players[i].ID
  PROVE  LET s == [c EXCEPT !.Players = slotsSeen(@, written.Players)]
         IN  /\ Legal(s)'
             /\ DOMAIN s.Players = DOMAIN c.Players
             /\ \A i \in DOMAIN s.Players :
                  s.Players[i] = IF i \in DOMAIN written.Players THEN written.Players[i]
                                                                 ELSE c.Players[i]
<1> DEFINE s == [c EXCEPT !.Players = slotsSeen(@, written.Players)]
<1>1. /\ Legal(c) /\ c \in RoomRecord /\ c.Players \in Seq(Player) /\ Len(c.Players) \in Nat
      /\ written.Players \in Seq(Player)
  BY DEF RoomInv, Legal, RoomRecord
<1>2. /\ slotsSeen(c.Players, written.Players) \in Seq(Player)
      /\ Len(slotsSeen(c.Players, written.Players)) = Len(c.Players)
  <2>1. slotsSeen(c.Players, written.Players) \in [1..Len(c.Players) -> Player]
    BY <1>1 DEF slotsSeen
  <2> QED  BY <1>1, <2>1
<1>3. /\ s \in RoomRecord /\ s.Players = slotsSeen(c.Players, written.Players)
      /\ s.Status = c.Status /\ s.CurrentWeek = c.CurrentWeek
  BY <1>1, <1>2 DEF RoomRecord
<1>4. /\ DOMAIN s.Players = DOMAIN c.Players
      /\ \A i \in DOMAIN s.Players :
           s.Players[i] = IF i \in DOMAIN written.Players THEN written.Players[i]
                                                          ELSE c.Players[i]
  BY <1>3 DEF slotsSeen
<1> HIDE DEF s
<1>5. ASSUME NEW i \in DOMAIN s.Players  PROVE s.Players[i].ID \in issued'
  BY <1>1, <1>4, <1>5 DEF Legal
<1>6. ASSUME NEW i \in DOMAIN s.Players, NEW j \in DOMAIN s.Players, i # j
      PROVE  s.Players[i].ID # s.Players[j].ID
  <2>1. CASE i \in DOMAIN written.Players /\ j \in DOMAIN written.Players
    BY <1>4, <1>6, <2>1 DEF WellFormed
  <2>2. CASE i \notin DOMAIN written.Players /\ j \notin DOMAIN written.Players
    BY <1>1, <1>4, <1>6, <2>2 DEF Legal, WellFormed
  <2>3. ASSUME NEW m \in DOMAIN s.Players, NEW n \in DOMAIN s.Players, m # n,
               m \in DOMAIN written.Players, n \notin DOMAIN written.Players
        PROVE  s.Players[m].ID # s.Players[n].ID
    <3>1. s.Players[m].ID = written.Players[m].ID /\ s.Players[n].ID = c.Players[n].ID
      BY <1>4, <2>3
    <3>2. c.Players[n].ID \in issued /\ c.Players[m].ID # c.Players[n].ID
      BY <1>1, <1>4, <2>3 DEF Legal, WellFormed
    <3>3. CASE written.Players[m].ID \notin issued
      BY <3>1, <3>2, <3>3
    <3>4. ASSUME NEW q \in Copies, m \in DOMAIN q.Players,
                 q.Players[m].ID = written.Players[m].ID
          PROVE  written.Players[m].ID = c.Players[m].ID
      <4>1. q.Players[m] = c.Players[m]
        BY <1>4, <2>3, <3>4 DEF RoomInv, Agree
      <4> QED  BY <3>4, <4>1
    <3> QED  BY <2>3, <3>1, <3>2, <3>3, <3>4
  <2> QED  BY <1>6, <2>1, <2>2, <2>3
<1>7. Len(s.Players) <= Len(AllRoles) /\ (s.Status = "waiting" <=> s.CurrentWeek = 0)
  BY <1>1, <1>2, <1>3 DEF Legal, WellFormed
<1>8. Legal(s)'
  <2>1. kind' # "redis"
    OBVIOUS
  <2> QED  BY <1>3, <1>5, <1>6, <1>7, <2>1 DEF Legal, WellFormed
<1> QED  BY <1>4, <1>8 DEF s

(* Steps that change the players of a copy, and so those of every copy of  *)
(* the memory stores.                                                      *)
LEMMA PlayersChanged ==
  ASSUME RoomInv, kind \in {"redis", "memory"}, issued \subseteq issued', NEW w \in Workers,
         NEW written \in RoomRecord, WellFormed(written), NEW l,
         ChangePlayers(w, written, l), local \in [Workers -> Local],
         l.room = NoRoom \/ (Legal(l.room)' /\ l.room.Players = written.Players),
         \A i \in DOMAIN written.Players :
           /\ written.Players[i].ID \in issued'
           /\ kind = "memory" =>
                \/ written.Players[i].ID \notin issued
                \/ \E q \in Copies : /\ i \in DOMAIN q.Players
                                     /\ q.Players[i].ID = written.Players[i].ID
  PROVE  RoomInv'
<1>1. kind' = kind
  BY DEF ChangePlayers
<1>2. ASSUME NEW r \in Copies'
      PROVE  \/ r = l.room /\ l.room # NoRoom
             \/ \E c \in Copies : r = roomSeen(c, written)
  <2>1. CASE r = room'
    <3>1. r = roomSeen(room, written) /\ room # NoRoom
      BY <1>2, <2>1 DEF ChangePlayers, roomSeen, Copies
    <3> QED  BY <3>1 DEF Copies
  <2>2. ASSUME NEW v \in Workers, r = local'[v].room
        PROVE  \/ r = l.room /\ l.room # NoRoom
               \/ \E c \in Copies : r = roomSeen(c, written)
    <3>1. r # NoRoom
      BY <1>2 DEF Copies
    <3>2. CASE v = w
      BY <2>2, <3>1, <3>2 DEF ChangePlayers
    <3>3. CASE v # w
      <4>1. local'[v] = [local[v] EXCEPT !.room = roomSeen(@, written)] /\ local[v] \in Local
        BY <3>3 DEF ChangePlayers
      <4>2. r = roomSeen(local[v].room, written)
        BY <2>2, <4>1 DEF Local
      <4>3. local[v].room \in Copies
        BY <3>1, <4>2 DEF roomSeen, Copies
      <4> QED  BY <4>2, <4>3
    <3> QED  BY <3>2, <3>3
  <2> QED  BY <1>2, <2>1, <2>2 DEF Copies
<1>3. CASE kind = "redis"
  <2>1. \A r \in Copies' : r \in Copies \/ Legal(r)'
    BY <1>2, <1>3 DEF roomSeen
  <2> QED  BY <1>1, <1>3, <2>1, CopiesKept
<1>4. CASE kind = "memory"
  <2> DEFINE seen(c) == [c EXCEPT !.Players = slotsSeen(@, written.Players)]
  <2>1. ASSUME NEW c \in Copies
        PROVE  /\ roomSeen(c, written) = seen(c)
               /\ Legal(seen(c))'
               /\ \A i \in DOMAIN seen(c).Players :
                    i \in DOMAIN written.Players => seen(c).Players[i] = written.Players[i]
               /\ DOMAIN seen(c).Players = DOMAIN c.Players
               /\ \A i \in DOMAIN seen(c).Players :
                    i \notin DOMAIN written.Players => seen(c).Players[i] = c.Players[i]
    <3>1. roomSeen(c, written) = seen(c)
      BY <1>4 DEF roomSeen, Copies
    <3>2. /\ Legal(seen(c))' /\ DOMAIN seen(c).Players = DOMAIN c.Players
          /\ \A i \in DOMAIN seen(c).Players :
               seen(c).Players[i] = IF i \in DOMAIN written.Players THEN written.Players[i]
                                                                    ELSE c.Players[i]
      BY <1>1, <1>4, SeenLegal
    <3> QED  BY <3>1, <3>2
  <2> HIDE DEF seen
  <2>2. ASSUME NEW r \in Copies'  PROVE Legal(r)'
    BY <1>2, <2>1, <2>2
  <2>3. ASSUME NEW r \in Copies'
        PROVE  \/ r.Players = written.Players
               \/ \E c \in Copies :
                    /\ DOMAIN r.Players = DOMAIN c.Players
                    /\ \A i \in DOMAIN r.Players :
                         r.Players[i] = IF i \in DOMAIN written.Players
                                          THEN written.Players[i] ELSE c.Players[i]
    BY <1>2, <2>1, <2>3
  <2>4. ASSUME NEW r \in Copies', NEW q \in Copies',
               NEW i \in DOMAIN r.Players \cap DOMAIN q.Players
        PROVE  r.Players[i] = q.Players[i]
    <3>1. CASE i \in DOMAIN written.Players
      BY <2>3, <2>4, <3>1
    <3>2. CASE i \notin DOMAIN written.Players
      <4>1. PICK c \in Copies : /\ i \in DOMAIN c.Players
                                /\ r.Players[i] = c.Players[i]
        BY <2>3, <2>4, <3>2
      <4>2. PICK d \in Copies : /\ i \in DOMAIN d.Players
                                /\ q.Players[i] = d.Players[i]
        BY <2>3, <2>4, <3>2
      <4>3. c.Players[i] = d.Players[i]
        BY <1>4, <4>1, <4>2 DEF RoomInv, Agree
      <4> QED  BY <4>1, <4>2, <4>3
    <3> QED  BY <3>1, <3>2
  <2> QED  BY <2>2, <2>4 DEF RoomInv, Agree
<1> QED  BY <1>3, <1>4

-----------------------------------------------------------------------------
(* Sessions: the week that can be played is one of the game. *)
LEMMA PlayableWeek ==
  ASSUME NEW s, GoodSession(s)
  PROVE  /\ currentPlayableWeek(s) \in 1..MaxWeeks
         /\ s.Status # "finished" => s.CurrentWeek + 1 \in 1..MaxWeeks
         /\ s.Status = "active" => currentPlayableWeek(s) = s.CurrentWeek + 1
<1>1. s.CurrentWeek \in 0..MaxWeeks /\ s.Status \in {"active", "finished"}
  BY DEF GoodSession, Session
<1> QED  BY <1>1, MaxWeeksAssumption DEF GoodSession, currentPlayableWeek

(* A new session is a good one. *)
LEMMA NewSessionGood == GoodSession(NewGameSession)
  BY MaxWeeksAssumption DEF GoodSession, Session, NewGameSession

(* Playing a week keeps a session good (AdvanceWeek of game_session.go). *)
LEMMA AdvanceGood ==
  ASSUME NEW s, GoodSession(s), NEW orders \in Orders, MayAdvance(s, orders)
  PROVE  GoodSession(SessionAdvanceWeek(s, orders))
<1> DEFINE next == SessionAdvanceWeek(s, orders)
<1>1. /\ s.CurrentWeek \in 0..MaxWeeks /\ s.Status = "active" /\ s.CurrentWeek < MaxWeeks
      /\ s.History \in Seq([Roles -> OrderChoices \cap Nat]) /\ s.moved \in Nat
      /\ Len(s.History) = s.CurrentWeek
  BY DEF GoodSession, Session, MayAdvance
<1>2. orders \in [Roles -> OrderChoices \cap Nat]
  BY DEF Orders, MayAdvance
<1>3. /\ Append(s.History, orders) \in Seq([Roles -> OrderChoices \cap Nat])
      /\ Len(Append(s.History, orders)) = s.CurrentWeek + 1
  BY <1>1, <1>2
<1>4. s.CurrentWeek + 1 \in 0..MaxWeeks
  BY <1>1, MaxWeeksAssumption
<1>5. /\ next.Status = IF s.CurrentWeek + 1 >= MaxWeeks THEN "finished" ELSE "active"
      /\ next.CurrentWeek = s.CurrentWeek + 1 /\ next.moved = s.moved + 1
      /\ next.History = Append(s.History, orders)
      /\ next = [Status |-> next.Status, CurrentWeek |-> next.CurrentWeek,
                 History |-> next.History, moved |-> next.moved]
  BY <1>1 DEF SessionAdvanceWeek
<1> HIDE DEF next
<1>6. next \in Session
  <2>1. /\ next.Status \in {"active", "finished"} /\ next.CurrentWeek \in 0..MaxWeeks
        /\ next.moved \in Nat /\ next.History \in Seq([Roles -> OrderChoices \cap Nat])
    BY <1>1, <1>3, <1>4, <1>5
  <2> QED  BY <1>5, <2>1, Zenon DEF Session
<1>7. next.Status = "finished" <=> next.CurrentWeek = MaxWeeks
  BY <1>1, <1>4, <1>5, MaxWeeksAssumption
<1> QED  BY <1>3, <1>5, <1>6, <1>7 DEF GoodSession, next

(* A copy that sees another one being played on keeps its week. *)
LEMMA SeenGood ==
  ASSUME NEW s, GoodSession(s), NEW next, GoodSession(next)
  PROVE  /\ GoodSession(sessionSeen(s, next))
         /\ sessionSeen(s, next).CurrentWeek = s.CurrentWeek
         /\ sessionSeen(s, next).Status = s.Status
         /\ DOMAIN sessionSeen(s, next).History = DOMAIN s.History
         /\ \A i \in DOMAIN s.History :
              \/ sessionSeen(s, next).History[i] = s.History[i]
              \/ i \in DOMAIN next.History /\ sessionSeen(s, next).History[i] = next.History[i]
<1> DEFINE q == [s EXCEPT !.History = slotsSeen(@, next.History), !.moved = next.moved]
           H == [Roles -> OrderChoices \cap Nat]
<1>1. /\ s \in Session /\ next \in Session
      /\ s.History \in Seq(H) /\ next.History \in Seq(H) /\ next.moved \in Nat
  BY DEF GoodSession, Session
<1> HIDE DEF H
<1>2. /\ slotsSeen(s.History, next.History) \in Seq(H)
      /\ Len(slotsSeen(s.History, next.History)) = Len(s.History)
      /\ DOMAIN slotsSeen(s.History, next.History) = DOMAIN s.History
  <2>1. slotsSeen(s.History, next.History) \in [1..Len(s.History) -> H]
    BY <1>1 DEF slotsSeen
  <2> QED  BY <1>1, <2>1
<1>3. /\ q.History = slotsSeen(s.History, next.History) /\ q.moved = next.moved
      /\ q.CurrentWeek = s.CurrentWeek /\ q.Status = s.Status
      /\ q \in Session
  BY <1>1, <1>2 DEF Session, H
<1>4. GoodSession(q)
  BY <1>2, <1>3 DEF GoodSession
<1>5. \A i \in DOMAIN s.History :
        \/ q.History[i] = s.History[i]
        \/ i \in DOMAIN next.History /\ q.History[i] = next.History[i]
  BY <1>3 DEF slotsSeen
<1>6. sessionSeen(s, next) = s \/ sessionSeen(s, next) = q
  BY DEF sessionSeen
<1> HIDE DEF q
<1> QED  BY <1>2, <1>3, <1>4, <1>5, <1>6

(* A room of the store, or NoRoom, seen through another is one. *)
LEMMA SeenRoom ==
  ASSUME NEW r \in RoomRecord \cup {NoRoom}, NEW written \in RoomRecord
  PROVE  /\ roomSeen(r, written) \in RoomRecord \cup {NoRoom}
         /\ roomSeen(r, written) = NoRoom <=> r = NoRoom
<1>1. CASE kind = "redis" \/ r = NoRoom
  BY <1>1 DEF roomSeen
<1>2. CASE ~(kind = "redis" \/ r = NoRoom)
  <2>1. r.Players \in Seq(Player) /\ written.Players \in Seq(Player) /\ r \in RoomRecord
    BY <1>2 DEF RoomRecord
  <2>2. slotsSeen(r.Players, written.Players) \in [1..Len(r.Players) -> Player]
    BY <2>1 DEF slotsSeen
  <2>3. slotsSeen(r.Players, written.Players) \in Seq(Player)
    BY <2>1, <2>2
  <2>4. [r EXCEPT !.Players = slotsSeen(@, written.Players)] \in RoomRecord
    BY <2>1, <2>3 DEF RoomRecord
  <2> QED  BY <1>2, <2>4, NullAssumption DEF roomSeen
<1> QED  BY <1>1, <1>2

-----------------------------------------------------------------------------
(* Handlers of other requests do not mind sessions being added. *)
LEMMA HandlerKept ==
  ASSUME NEW l, NEW k, NEW known, NEW more, Handler(l, k, known), known \subseteq more
  PROVE  Handler(l, k, more)
  BY DEF Handler

(* A step of one request that leaves the others' copies alone. *)
LEMMA OneStep ==
  ASSUME Inv, NEW w \in Workers, NEW l, Continue(w, l), kind' = kind, StoresTypeOK',
         issued \subseteq issued', issued' \subseteq PlayerIds \cup SessionIds,
         SessionInv', Known \subseteq Known', Handler(l, kind, Known'),
         room' \in Copies \cup {NoRoom},
         \/ l.room \in Copies \cup {NoRoom}
         \/ /\ Legal(l.room)'
            /\ kind = "memory" =>
                 l.room.Players = <<>> \/ \E q \in Copies : l.room.Players = q.Players
  PROVE  Inv'
<1>1. local \in [Workers -> Local] /\ l \in Local
  BY DEF Inv, Handler
<1>2. \A v \in Workers : local'[v] = IF v = w THEN l ELSE local[v]
  BY <1>1 DEF Continue
<1>3. local' \in [Workers -> Local]
  BY <1>1 DEF Continue
<1>4. Handlers'
  <2>1. ASSUME NEW v \in Workers  PROVE Handler(local'[v], kind', Known')
    <3>1. CASE v = w
      BY <1>2, <3>1
    <3>2. CASE v # w
      <4>1. Handler(local[v], kind, Known)
        BY DEF Inv, Handlers
      <4>2. Handler(local[v], kind, Known')
        BY <4>1, HandlerKept
      <4> QED  BY <1>2, <3>2, <4>2
    <3> QED  BY <3>1, <3>2
  <2> QED  BY <2>1 DEF Handlers
<1>5. RoomInv'
  <2>1. \A r \in Copies' :
           \/ r \in Copies
           \/ /\ Legal(r)'
              /\ kind = "memory" =>
                   r.Players = <<>> \/ \E q \in Copies : r.Players = q.Players
    <3>1. ASSUME NEW r \in Copies'  PROVE r = room' \/ r = l.room \/ r \in Copies
      BY <1>2 DEF Copies
    <3>2. NoRoom \notin Copies'
      BY DEF Copies
    <3> QED  BY <3>1, <3>2
  <2> QED  BY <2>1, CopiesKept DEF Inv
<1> QED  BY <1>3, <1>4, <1>5 DEF Inv

(* A step of one request that calls no store. *)
LEMMA LocalStep ==
  ASSUME Inv, NEW w \in Workers, NEW l, Continue(w, l), UNCHANGED <<storeVars, issued>>,
         Handler(l, kind, Known),
         \/ l.room \in Copies \cup {NoRoom}
         \/ /\ Legal(l.room)
            /\ kind = "memory" =>
                 l.room.Players = <<>> \/ \E q \in Copies : l.room.Players = q.Players
  PROVE  Inv'
<1>1. /\ room' = room /\ sessions' = sessions /\ roomSession' = roomSession
      /\ decisions' = decisions /\ unannounced' = unannounced /\ kind' = kind
      /\ issued' = issued
  BY DEF storeVars
<1>2. StoresTypeOK' /\ SessionInv' /\ Known' = Known
  BY <1>1 DEF Inv, StoresTypeOK, SessionInv, Known
<1>3. room' \in Copies \cup {NoRoom}
  BY <1>1 DEF Copies
<1>4. Legal(l.room) => Legal(l.room)'
  BY <1>1, LegalKept
<1> QED  BY <1>1, <1>2, <1>3, <1>4, OneStep DEF Inv

(* A request that ended leaves nothing behind. *)
LEMMA NoLocalHandler ==
  ASSUME NEW k, NEW known  PROVE NoLocal \in Local /\ Handler(NoLocal, k, known)
<1>1. 0 \in 0..MaxWeeks /\ 0 \in 0..Len(AllRoles) /\ <<>> \in Seq(Roles)
  BY MaxWeeksAssumption, RolesAssumption
<1> QED  BY <1>1 DEF Handler, Local, NoLocal, HoldsRoom, HoldsOrder, AdvanceKeepsRoom

(* The error returns, and what else ends a request without a store call. *)
LEMMA LeaveStep ==
  ASSUME Inv, NEW w \in Workers, Leave(w), UNCHANGED <<storeVars, issued>>
  PROVE  Inv'
<1>1. Continue(w, NoLocal) /\ NoLocal.room = NoRoom
  BY DEF Leave, NoLocal
<1> QED  BY <1>1, NoLocalHandler, LocalStep

(* The step that answers a request. *)
LEMMA AnswerStep ==
  ASSUME Inv, NEW w \in Workers, Leave(w), PublishRoomEvent, issued' = issued
  PROVE  Inv'
<1>1. /\ room' = room /\ sessions' = sessions /\ roomSession' = roomSession
      /\ decisions' = decisions /\ unannounced' = "nothing" /\ kind' = kind
  BY DEF PublishRoomEvent
<1>2. StoresTypeOK' /\ SessionInv' /\ Known' = Known
  BY <1>1 DEF Inv, StoresTypeOK, SessionInv, Known
<1>3. Continue(w, NoLocal) /\ NoLocal.room = NoRoom /\ room' \in Copies \cup {NoRoom}
  BY <1>1 DEF Leave, NoLocal, Copies
<1> QED  BY <1>1, <1>2, <1>3, NoLocalHandler, OneStep DEF Inv

(* Another request's copy of the room changes; where it stands does not. *)
LEMMA HandlerSeen ==
  ASSUME NEW l, NEW known, Handler(l, kind, known), NEW written \in RoomRecord
  PROVE  Handler([l EXCEPT !.room = roomSeen(@, written)], kind, known)
<1> DEFINE q == [l EXCEPT !.room = roomSeen(@, written)]
<1>1. l \in Local /\ l.room \in RoomRecord \cup {NoRoom}
  BY DEF Handler, Local
<1>2. /\ roomSeen(l.room, written) \in RoomRecord \cup {NoRoom}
      /\ roomSeen(l.room, written) = NoRoom <=> l.room = NoRoom
  BY <1>1, SeenRoom
<1>3. /\ q.room = roomSeen(l.room, written)
      /\ q.op = l.op /\ q.at = l.at /\ q.sid = l.sid /\ q.session = l.session
      /\ q.week = l.week /\ q.orders = l.orders /\ q.role = l.role /\ q.order = l.order
      /\ q \in Local
  BY <1>1, <1>2 DEF Local
<1> HIDE DEF q
<1>4. /\ HoldsRoom(q) => q.room # NoRoom
      /\ HoldsOrder(q) <=> HoldsOrder(l)
  BY <1>2, <1>3 DEF Handler, HoldsRoom, HoldsOrder
<1>5. Handler(q, kind, known)
  BY <1>3, <1>4, Zenon DEF Handler
<1> QED  BY <1>5 DEF q

(* A step that changes the players of a copy keeps the invariant. *)
LEMMA ChangeStep ==
  ASSUME Inv, NEW w \in Workers, NEW written \in RoomRecord, WellFormed(written), NEW l,
         ChangePlayers(w, written, l),
         issued \subseteq issued', issued' \subseteq PlayerIds \cup SessionIds,
         Handler(l, kind, Known),
         l.room = NoRoom \/ (Legal(l.room)' /\ l.room.Players = written.Players),
         \A i \in DOMAIN written.Players :
           /\ written.Players[i].ID \in issued'
           /\ kind = "memory" =>
                \/ written.Players[i].ID \notin issued
                \/ \E q \in Copies : /\ i \in DOMAIN q.Players
                                     /\ q.Players[i].ID = written.Players[i].ID
  PROVE  Inv'
<1>1. /\ sessions' = sessions /\ roomSession' = roomSession /\ decisions' = decisions
      /\ unannounced' \in {unannounced, "change", "torn"}
      /\ kind' = kind /\ room' = roomSeen(room, written)
      /\ local' = [v \in Workers |->
                     IF v = w THEN l ELSE [local[v] EXCEPT !.room = roomSeen(@, written)]]
  BY DEF ChangePlayers
<1>2. /\ room \in RoomRecord \cup {NoRoom} /\ local \in [Workers -> Local]
      /\ kind \in {"redis", "memory"} /\ StoresTypeOK /\ RoomInv
  BY StoreKindsAssumption DEF Inv, StoresTypeOK
<1>3. StoresTypeOK' /\ SessionInv' /\ Known' = Known
  <2>1. room' \in RoomRecord \cup {NoRoom}
    BY <1>1, <1>2, SeenRoom
  <2> QED  BY <1>1, <2>1 DEF Inv, StoresTypeOK, SessionInv, Known
<1>4. RoomInv'
  BY <1>2, PlayersChanged
<1>5. ASSUME NEW v \in Workers  PROVE Handler(local'[v], kind, Known)
  <2>1. Handler(local[v], kind, Known)
    BY DEF Inv, Handlers
  <2>2. CASE v = w
    BY <1>1, <2>2
  <2>3. CASE v # w
    BY <1>1, <2>1, <2>3, HandlerSeen
  <2> QED  BY <2>2, <2>3
<1>6. Handlers'
  BY <1>1, <1>3, <1>5 DEF Handlers
<1>7. local' \in [Workers -> Local]
  BY <1>1, <1>5 DEF Handler
<1> QED  BY <1>3, <1>4, <1>6, <1>7 DEF Inv

-----------------------------------------------------------------------------
(* The requests of the room service, step by step. *)
LEMMA CreateRoomInv ==
  ASSUME Inv, NEW w \in Workers, CreateRoom(w)  PROVE Inv'
<1> DEFINE l == [NoLocal EXCEPT !.op = "create", !.at = "saveRoom", !.room = NewRoom]
<1>1. NewRoom \in RoomRecord /\ NewRoom.Players = <<>> /\ NewRoom # NoRoom
  <2>1. NewRoom \in RoomRecord /\ NewRoom.Players = <<>>
    BY DEF NewRoom, RoomRecord
  <2> QED  BY <2>1, NullAssumption
<1>2. Legal(NewRoom)
  BY <1>1, RolesAssumption DEF Legal, WellFormed, NewRoom, RolesDistinct
<1>3. Handler(l, kind, Known)
  BY <1>1, NoLocalHandler, ZenonT(40) DEF Handler, Local, NoLocal, HoldsRoom, HoldsOrder
<1>4. Continue(w, l) /\ UNCHANGED <<storeVars, issued>> /\ l.room = NewRoom
  BY DEF CreateRoom, NoLocal
<1> HIDE DEF l
<1> QED  BY <1>1, <1>2, <1>3, <1>4, LocalStep

(* The stored room and the room a request holds are among the copies. *)
LEMMA CopyFacts ==
  ASSUME Inv
  PROVE  /\ room # NoRoom => room \in Copies
         /\ \A w \in Workers : local[w].room # NoRoom => local[w].room \in Copies
         /\ \A r \in Copies : r \in RoomRecord /\ r # NoRoom /\ Legal(r)
  BY DEF Inv, RoomInv, Copies, Legal

(* Reading the room on the memory stores. *)
LEMMA ReadRoomInv ==
  ASSUME Inv, NEW w \in Workers, NEW op \in {"join", "assign", "start"}, ReadRoom(w, op)
  PROVE  Inv'
<1> DEFINE l == [NoLocal EXCEPT !.op = op, !.at = "haveRoom", !.room = room]
<1>1. room \in Copies /\ room # NoRoom /\ room \in RoomRecord /\ kind = "memory"
  BY CopyFacts DEF ReadRoom
<1>2. Handler(l, kind, Known)
  BY <1>1, NoLocalHandler, ZenonT(40) DEF Handler, Local, NoLocal, HoldsRoom, HoldsOrder
<1>3. Continue(w, l) /\ UNCHANGED <<storeVars, issued>> /\ l.room = room
  BY DEF ReadRoom, NoLocal
<1> HIDE DEF l
<1> QED  BY <1>1, <1>2, <1>3, LocalStep

(* The room a request checks is a copy, whichever stores it came from. *)
LEMMA RoomOfFacts ==
  ASSUME Inv, NEW w \in Workers, NEW op, hasRoom(w, op)
  PROVE  roomOf(w) \in Copies /\ Legal(roomOf(w)) /\ roomOf(w) \in RoomRecord
<1>1. CASE kind = "memory"
  <2>1. Handler(local[w], kind, Known) /\ local[w].at = "haveRoom"
    BY <1>1 DEF Inv, Handlers, hasRoom
  <2>2. local[w].room # NoRoom
    BY <2>1 DEF Handler, HoldsRoom
  <2> QED  BY <1>1, <2>2, CopyFacts DEF roomOf
<1>2. CASE kind # "memory"
  BY <1>2, CopyFacts DEF roomOf, hasRoom
<1> QED  BY <1>1, <1>2

(* Joining adds a player with a new identifier. *)
LEMMA JoinRoomInv ==
  ASSUME Inv, NEW w \in Workers, NEW name \in Names, JoinRoom(w, name)  PROVE Inv'
<1>1. PICK r \in Copies : r = roomOf(w) /\ Legal(r) /\ r \in RoomRecord /\ MayAddPlayer(r, name)
  BY RoomOfFacts DEF JoinRoom
<1>2. PICK id \in PlayerIds \ issued :
        LET joined == AddPlayer(r, id, name)
        IN  /\ issued' = issued \cup {id}
            /\ ChangePlayers(w, joined,
                 [NoLocal EXCEPT !.op = "join", !.at = "saveRoom",
                                 !.room = joined, !.player = id])
  BY <1>1 DEF JoinRoom
<1>3. PICK joined : joined = AddPlayer(r, id, name)
  OBVIOUS
<1> DEFINE l == [NoLocal EXCEPT !.op = "join", !.at = "saveRoom",
                                !.room = joined, !.player = id]
           p == [ID |-> id, Name |-> name, Role |-> NoRole]
<1>4. /\ joined \in RoomRecord /\ WellFormed(joined)
      /\ \A i \in DOMAIN joined.Players : joined.Players[i].ID \in issued'
      /\ joined.Players = Append(r.Players, p)
  <2>1. issued \cup {id} = issued' /\ id \notin issued
    BY <1>2
  <2> DEFINE q == AddPlayer(r, id, name)
  <2>2. /\ q \in RoomRecord /\ WellFormed(q)
        /\ \A i \in DOMAIN q.Players : q.Players[i].ID \in issued \cup {id}
        /\ q.Players = Append(r.Players, p)
    <3> id \in PlayerIds
      OBVIOUS
    <3> QED  BY <1>1, <2>1, AddPlayerLegal
  <2> QED  BY <1>3, <2>1, <2>2
<1>5. joined # NoRoom /\ l.room = joined
  BY <1>4, NullAssumption DEF NoLocal
<1>6. Handler(l, kind, Known)
  BY <1>4, <1>5, NoLocalHandler, ZenonT(40) DEF Handler, Local, NoLocal, HoldsRoom, HoldsOrder
<1>7. ChangePlayers(w, joined, l) /\ issued' = issued \cup {id}
  BY <1>2, <1>3
<1>8. Legal(joined)'
  BY <1>4, <1>7 DEF Legal, WellFormed, ChangePlayers
<1>9. ASSUME NEW i \in DOMAIN joined.Players
      PROVE  \/ joined.Players[i].ID \notin issued
             \/ i \in DOMAIN r.Players /\ r.Players[i].ID = joined.Players[i].ID
  <2>1. r.Players \in Seq(Player) /\ Len(r.Players) \in Nat
    BY <1>1 DEF RoomRecord
  <2>2. /\ i \in 1..(Len(r.Players) + 1)
        /\ joined.Players[i] = IF i \in 1..Len(r.Players) THEN r.Players[i] ELSE p
    BY <1>4, <1>9, <2>1
  <2> QED  BY <1>2, <2>1, <2>2
<1>10. issued' \subseteq PlayerIds \cup SessionIds /\ issued \subseteq issued'
  BY <1>7 DEF Inv
<1> HIDE DEF l
<1> QED  BY <1>4, <1>5, <1>6, <1>7, <1>8, <1>9, <1>10, ChangeStep

(* The step that rewrites players of a copy in their places. *)
LEMMA RewriteStep ==
  ASSUME Inv, NEW w \in Workers, NEW c \in Copies, NEW written, Legal(written),
         Len(written.Players) = Len(c.Players),
         \A i \in DOMAIN c.Players : written.Players[i].ID = c.Players[i].ID,
         NEW l, ChangePlayers(w, written, l), Handler(l, kind, Known),
         issued \subseteq issued', issued' \subseteq PlayerIds \cup SessionIds,
         l.room = NoRoom \/ (Legal(l.room) /\ l.room.Players = written.Players)
  PROVE  Inv'
<1>1. kind' = kind
  BY DEF ChangePlayers
<1>2. written \in RoomRecord /\ WellFormed(written) /\ c \in RoomRecord
  BY CopyFacts DEF Legal
<1>3. DOMAIN written.Players = DOMAIN c.Players
  BY <1>2 DEF RoomRecord
<1>4. \A i \in DOMAIN written.Players :
        /\ written.Players[i].ID \in issued'
        /\ i \in DOMAIN c.Players /\ c.Players[i].ID = written.Players[i].ID
  BY <1>3 DEF Legal
<1>5. l.room = NoRoom \/ (Legal(l.room)' /\ l.room.Players = written.Players)
  BY <1>1, LegalKept
<1> QED  BY <1>2, <1>4, <1>5, ChangeStep

(* The place of a player in a room. *)
LEMMA PlayerIndexFacts ==
  ASSUME NEW r, Legal(r), NEW id, \E i \in DOMAIN r.Players : r.Players[i].ID = id
  PROVE  /\ PlayerIndex(r, id) \in DOMAIN r.Players
         /\ PlayerIndex(r, id) \in 0..Len(AllRoles)
         /\ r.Players[PlayerIndex(r, id)].ID = id
         /\ \A i \in DOMAIN r.Players : i # PlayerIndex(r, id) => r.Players[i].ID # id
<1>1. PlayerIndex(r, id) \in DOMAIN r.Players /\ r.Players[PlayerIndex(r, id)].ID = id
  BY DEF PlayerIndex
<1>2. /\ DOMAIN r.Players = 1..Len(r.Players) /\ Len(r.Players) \in Nat
      /\ Len(r.Players) <= Len(AllRoles) /\ Len(AllRoles) \in Nat
  BY RolesAssumption DEF Legal, RoomRecord, WellFormed
<1>3. \A i \in DOMAIN r.Players : i # PlayerIndex(r, id) => r.Players[i].ID # id
  BY <1>1 DEF Legal, WellFormed
<1> QED  BY <1>1, <1>2, <1>3

(* Asking for a role. *)
LEMMA RequestRoleInv ==
  ASSUME Inv, NEW w \in Workers, NEW id \in PlayerIds, NEW role \in Roles \cup {UnknownRole},
         RequestRole(w, id, role)
  PROVE  Inv'
<1>1. PICK r \in Copies : r = roomOf(w) /\ Legal(r) /\ r \in RoomRecord /\ MayAssignRole(r, id, role)
  BY RoomOfFacts DEF RequestRole
<1>2. /\ role \in Roles
      /\ PlayerIndex(r, id) \in DOMAIN r.Players /\ PlayerIndex(r, id) \in 0..Len(AllRoles)
      /\ \A i \in DOMAIN r.Players : i # PlayerIndex(r, id) => r.Players[i].Role # role
  BY <1>1, PlayerIndexFacts DEF MayAssignRole
<1>3. CASE kind = "memory"
  <2> DEFINE l == [local[w] EXCEPT !.at = "writeRole", !.role = role, !.seat = PlayerIndex(r, id)]
  <2>1. Handler(local[w], kind, Known) /\ local[w].room = r /\ r # NoRoom /\ local[w].at = "haveRoom"
    BY <1>1, <1>3, CopyFacts DEF Inv, Handlers, roomOf, RequestRole, hasRoom
  <2>2. local[w] \in Local
    BY <2>1 DEF Handler
  <2>3. l \in Local /\ l.at = "writeRole" /\ l.role = role /\ l.room = r /\ l.op = local[w].op
    BY <1>2, <2>1, <2>2, ZenonT(40) DEF Local
  <2>4. Continue(w, l) /\ UNCHANGED <<storeVars, issued>>
    BY <1>1, <1>3 DEF RequestRole
  <2> HIDE DEF l
  <2>5. Handler(l, kind, Known)
    BY <1>2, <1>3, <2>1, <2>3 DEF Handler, HoldsRoom, HoldsOrder, AdvanceKeepsRoom
  <2> QED  BY <2>3, <2>4, <2>5, LocalStep
<1>4. CASE kind # "memory"
  <2> DEFINE q == WithRoleAt(r, PlayerIndex(r, id), role)
             l == [NoLocal EXCEPT !.op = "assign", !.at = "saveRoom", !.room = q]
  <2>1. Legal(q)
    BY <1>1, <1>2, WithRoleAtLegal
  <2>2. q \in RoomRecord /\ q # NoRoom
    BY <2>1, NullAssumption DEF Legal
  <2>3. Continue(w, l) /\ UNCHANGED <<storeVars, issued>>
    BY <1>1, <1>4 DEF RequestRole, AssignRole, roomOf
  <2> HIDE DEF q
  <2>4. Handler(l, kind, Known) /\ l.room = q
    BY <2>2, NoLocalHandler, ZenonT(40) DEF Handler, Local, NoLocal, HoldsRoom, HoldsOrder
  <2> HIDE DEF l
  <2> QED  BY <1>4, <2>1, <2>3, <2>4, LocalStep
<1> QED  BY <1>3, <1>4

(* The role is written. *)
LEMMA WriteRoleInv ==
  ASSUME Inv, NEW w \in Workers, WriteRole(w)  PROVE Inv'
<1>1. Handler(local[w], kind, Known) /\ local[w].at = "writeRole"
  BY DEF Inv, Handlers, WriteRole
<1>2. kind = "memory" /\ local[w].role \in Roles /\ local[w].room # NoRoom
  BY <1>1 DEF Handler, HoldsRoom
<1>3. PICK c \in Copies : c = local[w].room /\ Legal(c) /\ c \in RoomRecord
  BY <1>2, CopyFacts
<1>4. PICK written : written = WithRoleAt(c, local[w].seat, local[w].role)
  OBVIOUS
<1> DEFINE l == [NoLocal EXCEPT !.op = "assign", !.at = "saveRoom", !.room = written]
<1>5. /\ Legal(written) /\ Len(written.Players) = Len(c.Players)
      /\ \A i \in DOMAIN c.Players : written.Players[i].ID = c.Players[i].ID
  BY <1>2, <1>3, <1>4, WithRoleAtLegal
<1>6. written \in RoomRecord /\ written # NoRoom
  BY <1>5, NullAssumption DEF Legal
<1>7. Handler(l, kind, Known) /\ l.room = written
  BY <1>6, NoLocalHandler, ZenonT(40) DEF Handler, Local, NoLocal, HoldsRoom, HoldsOrder
<1>8. ChangePlayers(w, written, l) /\ issued' = issued
  BY <1>3, <1>4 DEF WriteRole
<1> HIDE DEF l
<1> QED  BY <1>5, <1>7, <1>8, RewriteStep DEF Inv

(* Saving the room a request holds. *)
LEMMA RoomSaved ==
  ASSUME Inv, NEW w \in Workers, local[w].room # NoRoom, RoomStoreSave(local[w].room),
         NEW l, Continue(w, l), l.room = NoRoom, Handler(l, kind, Known), issued' = issued
  PROVE  Inv'
<1>1. /\ room' = local[w].room /\ unannounced' = "change"
      /\ sessions' = sessions /\ roomSession' = roomSession /\ decisions' = decisions
      /\ kind' = kind
  BY DEF RoomStoreSave
<1>2. room' \in Copies /\ room' \in RoomRecord
  BY <1>1, CopyFacts
<1>3. StoresTypeOK' /\ SessionInv' /\ Known' = Known
  BY <1>1, <1>2 DEF Inv, StoresTypeOK, SessionInv, Known
<1> QED  BY <1>1, <1>2, <1>3, OneStep DEF Inv

(* Saving the room, in the room service. *)
LEMMA SaveRoomInv ==
  ASSUME Inv, NEW w \in Workers, SaveRoom(w)  PROVE Inv'
<1> DEFINE l == [local[w] EXCEPT !.at = "publish", !.room = NoRoom]
<1>1. Handler(local[w], kind, Known) /\ local[w].at = "saveRoom" /\ local[w] \in Local
  BY DEF Inv, Handlers, SaveRoom, Handler
<1>2. local[w].room # NoRoom
  BY <1>1 DEF Handler, HoldsRoom
<1>3. l \in Local /\ l.at = "publish" /\ l.room = NoRoom
  BY <1>1 DEF Local
<1>4. RoomStoreSave(local[w].room) /\ Continue(w, l) /\ issued' = issued
  BY DEF SaveRoom
<1> HIDE DEF l
<1>5. Handler(l, kind, Known)
  BY <1>3 DEF Handler, HoldsRoom, HoldsOrder, AdvanceKeepsRoom
<1> QED  BY <1>2, <1>3, <1>4, <1>5, RoomSaved

(* Every step of the room service keeps the invariant. *)
LEMMA RoomServiceInv ==
  ASSUME Inv, NEW w \in Workers, RoomServiceStep(w)  PROVE Inv'
<1>1. CASE CreateRoom(w)
  BY <1>1, CreateRoomInv
<1>2. CASE \E op \in {"join", "assign", "start"} : ReadRoom(w, op)
  BY <1>2, ReadRoomInv
<1>3. CASE RefuseRoom(w)
  BY <1>3, LeaveStep DEF RefuseRoom
<1>4. CASE WriteRole(w)
  BY <1>4, WriteRoleInv
<1>5. CASE \E name \in Names : JoinRoom(w, name)
  BY <1>5, JoinRoomInv
<1>6. CASE \E id \in PlayerIds, role \in Roles \cup {UnknownRole} : RequestRole(w, id, role)
  BY <1>6, RequestRoleInv
<1>7. CASE SaveRoom(w)
  BY <1>7, SaveRoomInv
<1>8. CASE AnswerRoom(w)
  BY <1>8, AnswerStep DEF AnswerRoom
<1> QED  BY <1>1, <1>2, <1>3, <1>4, <1>5, <1>6, <1>7, <1>8 DEF RoomServiceStep

-----------------------------------------------------------------------------
(* A legal room stays legal when its game starts. *)
LEMMA StartedLegal ==
  ASSUME NEW r, Legal(r)
  PROVE  Legal(Started(r)) /\ Started(r).Players = r.Players /\ Started(r) # NoRoom
<1>1. r \in RoomRecord
  BY DEF Legal
<1>2. /\ Started(r) \in RoomRecord /\ Started(r).Players = r.Players
      /\ Started(r).Status = "active" /\ Started(r).CurrentWeek = 1
  BY <1>1 DEF Started, RoomRecord
<1> QED  BY <1>2, NullAssumption DEF Legal, WellFormed, RolesDistinct

(* StartGame, once the roles are given. *)
LEMMA StartingInv ==
  ASSUME Inv, NEW w \in Workers, NEW c \in Copies, NEW r, Legal(r),
         Len(r.Players) = Len(c.Players),
         \A i \in DOMAIN c.Players : r.Players[i].ID = c.Players[i].ID,
         Starting(w, r)
  PROVE  Inv'
<1>1. PICK sid \in SessionIds \ issued :
        /\ issued' = issued \cup {sid}
        /\ ChangePlayers(w, r, [NoLocal EXCEPT !.op = "start", !.at = "saveRoom",
                                               !.room = Started(r), !.sid = sid,
                                               !.session = NewGameSession])
  BY DEF Starting
<1>2. PICK started : started = Started(r)
  OBVIOUS
<1> DEFINE l == [NoLocal EXCEPT !.op = "start", !.at = "saveRoom", !.room = started,
                                !.sid = sid, !.session = NewGameSession]
<1>3. Legal(started) /\ started.Players = r.Players /\ started # NoRoom /\ started \in RoomRecord
  BY <1>2, StartedLegal DEF Legal
<1>4. NewGameSession \in Session /\ GoodSession(NewGameSession)
  BY NewSessionGood DEF GoodSession
<1>5. Handler(l, kind, Known) /\ l.room = started
  BY <1>3, <1>4, NoLocalHandler, ZenonT(40) DEF Handler, Local, NoLocal, HoldsRoom, HoldsOrder
<1>6. ChangePlayers(w, r, l) /\ issued \subseteq issued' /\ issued' \subseteq PlayerIds \cup SessionIds
  BY <1>1, <1>2 DEF Inv
<1> HIDE DEF l
<1> QED  BY <1>3, <1>5, <1>6, RewriteStep

(* StartGame on Redis. *)
LEMMA StartGameInv ==
  ASSUME Inv, NEW w \in Workers, StartGame(w)  PROVE Inv'
<1>1. kind = "redis" /\ room \in Copies
  BY CopyFacts DEF StartGame, hasRoom
<1>2. PICK c \in Copies : c = room /\ Legal(c)
  BY <1>1, CopyFacts
<1>3. PICK r : r = EnsureRolesAssigned(c)
  OBVIOUS
<1>4. availableRoles(c) \in Seq(Roles)
  BY AvailableFacts
<1>5. Legal(r)
  BY <1>2, <1>3, <1>4, WithRolesLegal DEF EnsureRolesAssigned
<1>6. /\ Len(r.Players) = Len(c.Players)
      /\ \A i \in DOMAIN c.Players : r.Players[i].ID = c.Players[i].ID
  BY <1>2, <1>3, <1>4, WithRolesFacts DEF EnsureRolesAssigned
<1>7. Starting(w, r)
  BY <1>2, <1>3 DEF StartGame
<1> QED  BY <1>5, <1>6, <1>7, StartingInv

(* StartGame on the memory stores: the roles are looked up. *)
LEMMA EnsureRolesInv ==
  ASSUME Inv, NEW w \in Workers, EnsureRoles(w)  PROVE Inv'
<1> DEFINE free == availableRoles(local[w].room)
           l == [local[w] EXCEPT !.at = "writeRoles", !.free = free]
<1>1. /\ kind = "memory" /\ local[w].at = "haveRoom" /\ local[w].op = "start"
      /\ Handler(local[w], kind, Known) /\ local[w] \in Local
  BY DEF EnsureRoles, hasRoom, Inv, Handlers, Handler
<1>2. local[w].room # NoRoom /\ local[w].room \in Copies
  BY <1>1, CopyFacts DEF Handler, HoldsRoom
<1>3. free \in Seq(Roles)
  BY AvailableFacts
<1>4. Continue(w, l) /\ UNCHANGED <<storeVars, issued>>
  BY DEF EnsureRoles
<1> HIDE DEF free
<1>5. l \in Local /\ l.at = "writeRoles" /\ l.room = local[w].room /\ l.op = "start"
  BY <1>1, <1>3, ZenonT(40) DEF Local
<1> HIDE DEF l
<1>6. Handler(l, kind, Known)
  BY <1>1, <1>2, <1>5 DEF Handler, HoldsRoom, HoldsOrder
<1> QED  BY <1>2, <1>4, <1>5, <1>6, LocalStep

(* ... and written. *)
LEMMA WriteRolesInv ==
  ASSUME Inv, NEW w \in Workers, WriteRoles(w)  PROVE Inv'
<1>1. Handler(local[w], kind, Known) /\ local[w].at = "writeRoles" /\ local[w] \in Local
  BY DEF Inv, Handlers, WriteRoles, Handler
<1>2. kind = "memory" /\ local[w].room # NoRoom /\ local[w].free \in Seq(Roles)
  BY <1>1 DEF Handler, HoldsRoom, Local
<1>3. PICK c \in Copies : c = local[w].room /\ Legal(c)
  BY <1>2, CopyFacts
<1>4. PICK filled : filled = WithRoles(c, local[w].free)
  OBVIOUS
<1>5. Legal(filled)
  <2>1. kind # "redis"
    BY <1>2
  <2> QED  BY <1>2, <1>3, <1>4, <2>1, WithRolesLegal
<1>6. /\ Len(filled.Players) = Len(c.Players)
      /\ \A i \in DOMAIN c.Players : filled.Players[i].ID = c.Players[i].ID
  BY <1>2, <1>3, <1>4, WithRolesFacts
<1>7. CASE Starting(w, filled)
  BY <1>5, <1>6, <1>7, StartingInv
<1>8. CASE ChangePlayers(w, filled, NoLocal) /\ UNCHANGED issued
  <2>1. NoLocal.room = NoRoom
    BY DEF NoLocal
  <2> QED  BY <1>5, <1>6, <1>8, <2>1, NoLocalHandler, RewriteStep DEF Inv
<1>9. Starting(w, filled) \/ (ChangePlayers(w, filled, NoLocal) /\ UNCHANGED issued)
  BY <1>3, <1>4 DEF WriteRoles
<1> QED  BY <1>7, <1>8, <1>9

(* The started room is saved. *)
LEMMA StartSaveRoomInv ==
  ASSUME Inv, NEW w \in Workers, StartSaveRoom(w)  PROVE Inv'
<1> DEFINE l == [local[w] EXCEPT !.at = "saveSession", !.room = NoRoom]
<1>1. /\ Handler(local[w], kind, Known) /\ local[w] \in Local
      /\ local[w].at = "saveRoom" /\ local[w].op = "start"
  BY DEF Inv, Handlers, StartSaveRoom, Handler
<1>2. local[w].room # NoRoom
  BY <1>1 DEF Handler, HoldsRoom
<1>3. /\ l \in Local /\ l.at = "saveSession" /\ l.room = NoRoom /\ l.op = "start"
      /\ l.sid = local[w].sid /\ l.session = local[w].session
  BY <1>1 DEF Local
<1>4. RoomStoreSave(local[w].room) /\ Continue(w, l) /\ issued' = issued
  BY DEF StartSaveRoom
<1> HIDE DEF l
<1>5. Handler(l, kind, Known)
  BY <1>1, <1>3 DEF Handler, HoldsRoom, HoldsOrder
<1> QED  BY <1>2, <1>3, <1>4, <1>5, RoomSaved

(* Saving the session a request holds. *)
LEMMA SessionSaved ==
  ASSUME Inv, NEW w \in Workers, NEW l, Continue(w, l), l.room \in Copies \cup {NoRoom},
         local[w].at = "saveSession", SessionStoreSave(local[w].sid, local[w].session),
         Handler(l, kind, Known), issued' = issued
  PROVE  Inv'
<1> DEFINE s == local[w].session
           sid == local[w].sid
<1>1. sid \in SessionIds /\ GoodSession(s)
  BY DEF Inv, Handlers, Handler
<1>2. /\ room' = room /\ sessions' = [sessions EXCEPT ![sid] = s] /\ roomSession' = sid
      /\ decisions' = decisions /\ unannounced' = "change" /\ kind' = kind
  BY DEF SessionStoreSave
<1>3. s \in Session /\ s # NoSession
  BY <1>1, NullAssumption DEF GoodSession
<1>4. StoresTypeOK /\ SessionInv
  BY DEF Inv
<1> HIDE DEF s, sid
<1>5. StoresTypeOK'
  BY <1>1, <1>2, <1>3, <1>4 DEF StoresTypeOK
<1>6. \A t \in SessionIds : sessions'[t] = IF t = sid THEN s ELSE sessions[t]
  BY <1>1, <1>2, <1>4 DEF StoresTypeOK
<1>7. Known' = Known \cup {sid}
  BY <1>1, <1>3, <1>6 DEF Known
<1>8. SessionInv'
  BY <1>1, <1>2, <1>4, <1>6, <1>7 DEF SessionInv, Known
<1>9. room' \in Copies \cup {NoRoom}
  BY <1>2 DEF Copies
<1>10. Handler(l, kind, Known')
  BY <1>7, HandlerKept
<1> QED  BY <1>2, <1>5, <1>7, <1>8, <1>9, <1>10, OneStep DEF Inv

(* The new session is saved. *)
LEMMA StartSaveSessionInv ==
  ASSUME Inv, NEW w \in Workers, StartSaveSession(w)  PROVE Inv'
<1> DEFINE l == [NoLocal EXCEPT !.op = "start", !.at = "publish"]
<1>1. Handler(l, kind, Known) /\ l.room = NoRoom
  BY NoLocalHandler, ZenonT(40) DEF Handler, Local, NoLocal, HoldsRoom, HoldsOrder
<1>2. Continue(w, l) /\ local[w].at = "saveSession" /\ issued' = issued
      /\ SessionStoreSave(local[w].sid, local[w].session)
  BY DEF StartSaveSession
<1> HIDE DEF l
<1> QED  BY <1>1, <1>2, SessionSaved

-----------------------------------------------------------------------------
(* SubmitOrder up to the look-up of the session. *)
LEMMA SubmitOrderInv ==
  ASSUME Inv, NEW w \in Workers, NEW id \in PlayerIds, NEW order \in OrderChoices,
         SubmitOrder(w, id, order)
  PROVE  Inv'
<1> DEFINE role == RoleOfPlayer(room, id)
           l == [NoLocal EXCEPT !.op = "submit", !.at = "getRoomSession",
                                !.role = role, !.order = order]
<1>1. room # NoRoom /\ Legal(room) /\ order >= 0 /\ role # NoRole
  BY CopyFacts DEF SubmitOrder, MaySubmit
<1>2. order \in OrderChoices \cap Nat
  BY <1>1, OrderAssumption
<1>3. role \in Roles
  <2>1. \E i \in DOMAIN room.Players : room.Players[i].ID = id
    BY <1>1 DEF RoleOfPlayer
  <2>2. PlayerIndex(room, id) \in DOMAIN room.Players
    BY <1>1, <2>1, PlayerIndexFacts
  <2>3. room.Players[PlayerIndex(room, id)] \in Player
    BY <1>1, <2>2 DEF Legal, RoomRecord
  <2>4. room.Players[PlayerIndex(room, id)].Role \in Roles \cup {NoRole}
    BY <2>3 DEF Player
  <2> QED  BY <1>1, <2>1, <2>4 DEF RoleOfPlayer
<1>4. Continue(w, l) /\ UNCHANGED <<storeVars, issued>>
  BY DEF SubmitOrder
<1> HIDE DEF role
<1>5. Handler(l, kind, Known) /\ l.room = NoRoom
  BY <1>2, <1>3, NoLocalHandler, ZenonT(40) DEF Handler, Local, NoLocal, HoldsRoom, HoldsOrder, AdvanceKeepsRoom
<1> HIDE DEF l
<1> QED  BY <1>4, <1>5, LocalStep

(* AdvanceWeek up to the look-up of the session. *)
LEMMA AdvanceWeekInv ==
  ASSUME Inv, NEW w \in Workers, AdvanceWeek(w)  PROVE Inv'
<1> DEFINE l == [NoLocal EXCEPT !.op = "advance", !.at = "getRoomSession", !.room = room]
<1>1. room # NoRoom /\ room \in Copies /\ room \in RoomRecord
  BY CopyFacts DEF AdvanceWeek
<1>2. Continue(w, l) /\ UNCHANGED <<storeVars, issued>>
  BY DEF AdvanceWeek
<1>3. Handler(l, kind, Known) /\ l.room = room
  BY <1>1, NoLocalHandler, ZenonT(40) DEF Handler, Local, NoLocal, HoldsRoom, HoldsOrder
<1> HIDE DEF l
<1> QED  BY <1>1, <1>2, <1>3, LocalStep

(* The session is found. *)
LEMMA SessionFoundInv ==
  ASSUME Inv, NEW w \in Workers, local[w].at \in {"getRoomSession", "getSession"},
         NEW sid \in Known, NEW l, l = [local[w] EXCEPT !.sid = sid],
         SessionFound(w, l), UNCHANGED <<storeVars, issued>>
  PROVE  Inv'
<1> DEFINE s == sessions[sid]
           week == currentPlayableWeek(s)
           m == [l EXCEPT !.at = "getDecisions", !.session = s, !.week = week]
<1>1. Handler(local[w], kind, Known) /\ local[w] \in Local /\ local[w].op \in {"submit", "advance"}
  BY DEF Inv, Handlers, Handler
<1>2. sid \in SessionIds /\ GoodSession(s) /\ s \in Session
  BY DEF Inv, SessionInv, Known, GoodSession
<1>3. week \in 1..MaxWeeks
  BY <1>2, PlayableWeek
<1>4. l.sid = sid
  BY <1>1 DEF Local
<1>5. Leave(w) \/ Continue(w, m)
  BY <1>4 DEF SessionFound
<1>6. CASE Leave(w)
  BY <1>6, LeaveStep
<1>7. CASE Continue(w, m)
  <2>1. week = currentPlayableWeek(s) /\ week \in 0..MaxWeeks
    BY <1>3
  <2> HIDE DEF week, s
  <2>0. /\ l \in Local /\ l.op = local[w].op /\ l.room = local[w].room
        /\ l.role = local[w].role /\ l.order = local[w].order
    <3>1. sid \in SessionIds \cup {NoId}
      BY <1>2
    <3> QED  BY <1>1, <3>1 DEF Local
  <2>2. /\ m \in Local /\ m.at = "getDecisions" /\ m.op = local[w].op /\ m.sid = sid
        /\ m.session = s /\ m.week = week /\ m.room = local[w].room
        /\ m.role = local[w].role /\ m.order = local[w].order
    BY <1>2, <1>4, <2>0, <2>1, ZenonT(40) DEF Local
  <2> HIDE DEF m
  <2>3. /\ HoldsRoom(m) => m.room # NoRoom
        /\ HoldsOrder(m) => HoldsOrder(local[w])
    BY <1>1, <2>2 DEF Handler, HoldsRoom, HoldsOrder, AdvanceKeepsRoom
  <2>4. Handler(m, kind, Known)
    BY <1>1, <1>2, <2>1, <2>2, <2>3 DEF Handler
  <2>5. m.room \in Copies \cup {NoRoom}
    BY <2>2, CopyFacts
  <2> QED  BY <1>7, <2>4, <2>5, LocalStep
<1> QED  BY <1>5, <1>6, <1>7

(* GetByRoomID, its first read. *)
LEMMA GetRoomSessionInv ==
  ASSUME Inv, NEW w \in Workers, GetRoomSession(w)  PROVE Inv'
<1> DEFINE l == [local[w] EXCEPT !.sid = roomSession]
           m == [l EXCEPT !.at = "getSession"]
<1>1. local[w].at = "getRoomSession" /\ UNCHANGED <<storeVars, issued>>
  BY DEF GetRoomSession
<1>2. CASE Leave(w)
  BY <1>1, <1>2, LeaveStep
<1>3. ASSUME roomSession # NoId  PROVE roomSession \in Known
  BY <1>3 DEF Inv, SessionInv
<1>4. CASE roomSession # NoId /\ SessionFound(w, l)
  BY <1>1, <1>3, <1>4, SessionFoundInv
<1>5. CASE roomSession # NoId /\ kind # "memory" /\ Continue(w, m)
  <2>1. /\ Handler(local[w], kind, Known) /\ local[w] \in Local
        /\ local[w].op \in {"submit", "advance"} /\ roomSession \in Known
        /\ roomSession \in SessionIds
    BY <1>1, <1>3, <1>5 DEF Inv, Handlers, Handler, Known
  <2>2. /\ m \in Local /\ m.at = "getSession" /\ m.op = local[w].op /\ m.sid = roomSession
        /\ m.room = local[w].room /\ m.role = local[w].role /\ m.order = local[w].order
    BY <2>1, ZenonT(40) DEF Local
  <2> HIDE DEF m
  <2>3. /\ HoldsRoom(m) => m.room # NoRoom
        /\ HoldsOrder(m) => HoldsOrder(local[w])
    BY <1>1, <2>1, <2>2 DEF Handler, HoldsRoom, HoldsOrder, AdvanceKeepsRoom
  <2>4. Handler(m, kind, Known)
    BY <2>1, <2>2, <2>3 DEF Handler
  <2>5. m.room \in Copies \cup {NoRoom}
    BY <2>2, CopyFacts
  <2> QED  BY <1>1, <1>5, <2>4, <2>5, LocalStep
<1>6. \/ Leave(w)
      \/ roomSession # NoId /\ SessionFound(w, l)
      \/ roomSession # NoId /\ kind # "memory" /\ Continue(w, m)
  BY DEF GetRoomSession
<1> QED  BY <1>2, <1>4, <1>5, <1>6

(* GetByRoomID, its second read. *)
LEMMA GetSessionInv ==
  ASSUME Inv, NEW w \in Workers, GetSession(w)  PROVE Inv'
<1>1. /\ local[w].at = "getSession" /\ SessionFound(w, local[w]) /\ UNCHANGED <<storeVars, issued>>
      /\ local[w].sid \in Known /\ local[w] \in Local
  BY DEF GetSession, Inv, Handlers, Handler
<1>2. local[w] = [local[w] EXCEPT !.sid = local[w].sid]
  BY <1>1 DEF Local
<1> QED  BY <1>1, <1>2, SessionFoundInv

(* Reading and writing the orders of a week. *)
LEMMA SubmitGetDecisionsInv ==
  ASSUME Inv, NEW w \in Workers, SubmitGetDecisions(w)  PROVE Inv'
<1> DEFINE orders == withOrder(decisions[local[w].week], local[w].role, local[w].order)
           l == [local[w] EXCEPT !.at = "saveDecisions", !.session = NoSession, !.orders = orders]
<1>1. /\ Handler(local[w], kind, Known) /\ local[w] \in Local
      /\ local[w].at = "getDecisions" /\ local[w].op = "submit"
  BY DEF Inv, Handlers, SubmitGetDecisions, Handler
<1>2. /\ local[w].role \in Roles /\ local[w].order \in OrderChoices \cap Nat
      /\ local[w].week \in 1..MaxWeeks
  BY <1>1, PlayableWeek DEF Handler, HoldsOrder
<1>3. orders \in Orders
  <2> DEFINE old == decisions[local[w].week]
  <2>1. old \in Orders \cup {NoDecisions}
    BY <1>2 DEF Inv, StoresTypeOK
  <2> HIDE DEF old
  <2>2. CASE old = NoDecisions
    <3>1. orders \in [{local[w].role} -> OrderChoices \cap Nat] /\ {local[w].role} \in SUBSET Roles
      BY <1>2, <2>2 DEF withOrder, old
    <3> QED  BY <3>1 DEF Orders
  <2>3. CASE old # NoDecisions
    <3>1. PICK S \in SUBSET Roles : old \in [S -> OrderChoices \cap Nat]
      BY <2>1, <2>3 DEF Orders
    <3>2. /\ orders \in [S \cup {local[w].role} -> OrderChoices \cap Nat]
          /\ S \cup {local[w].role} \in SUBSET Roles
      BY <1>2, <2>3, <3>1 DEF withOrder, old
    <3> QED  BY <3>2 DEF Orders
  <2> QED  BY <2>2, <2>3
<1>4. Continue(w, l) /\ UNCHANGED <<storeVars, issued>>
  BY DEF SubmitGetDecisions
<1> HIDE DEF orders
<1>5. /\ l \in Local /\ l.at = "saveDecisions" /\ l.op = "submit" /\ l.week = local[w].week
      /\ l.orders = orders /\ l.room = local[w].room
  BY <1>1, <1>3, ZenonT(40) DEF Local
<1> HIDE DEF l
<1>6. Handler(l, kind, Known)
  BY <1>2, <1>3, <1>5 DEF Handler, HoldsRoom, HoldsOrder
<1>7. l.room \in Copies \cup {NoRoom}
  BY <1>5, CopyFacts
<1> QED  BY <1>4, <1>6, <1>7, LocalStep

(* A step that changes the orders of a week in the store. *)
LEMMA DecisionsChanged ==
  ASSUME Inv, NEW w \in Workers, NEW l, Continue(w, l), l.room \in Copies \cup {NoRoom},
         Handler(l, kind, Known), issued' = issued,
         NEW week, NEW orders \in Orders \cup {NoDecisions},
         decisions' = [decisions EXCEPT ![week] = orders], unannounced' = "change",
         UNCHANGED <<room, sessions, roomSession, kind>>
  PROVE  Inv'
<1>1. StoresTypeOK' /\ SessionInv' /\ Known' = Known
  BY DEF Inv, StoresTypeOK, SessionInv, Known
<1>2. room' \in Copies \cup {NoRoom}
  BY DEF Copies
<1> QED  BY <1>1, <1>2, OneStep DEF Inv

(* SubmitOrder saves the orders. *)
LEMMA SaveDecisionsInv ==
  ASSUME Inv, NEW w \in Workers, SaveDecisions(w)  PROVE Inv'
<1> DEFINE l == [local[w] EXCEPT !.at = "publish", !.orders = NoDecisions, !.order = 0]
<1>1. /\ Handler(local[w], kind, Known) /\ local[w] \in Local /\ local[w].at = "saveDecisions"
      /\ local[w].orders \in Orders
  BY DEF Inv, Handlers, SaveDecisions, Handler
<1>2. l \in Local /\ l.at = "publish" /\ l.room = local[w].room
  BY <1>1 DEF Local
<1>3. DecisionStoreSave(local[w].week, local[w].orders) /\ Continue(w, l) /\ issued' = issued
  BY DEF SaveDecisions
<1> HIDE DEF l
<1>4. Handler(l, kind, Known) /\ l.room \in Copies \cup {NoRoom}
  BY <1>2, CopyFacts DEF Handler, HoldsRoom, HoldsOrder, AdvanceKeepsRoom
<1> QED  BY <1>1, <1>3, <1>4, DecisionsChanged DEF DecisionStoreSave

-----------------------------------------------------------------------------
(* The room takes the week and the status of the session after a week. *)
LEMMA RoomAfterWeek ==
  ASSUME NEW r, Legal(r), NEW s, GoodSession(s)
  PROVE  /\ Legal(roomAfterWeek(r, s)) /\ roomAfterWeek(r, s).Players = r.Players
         /\ roomAfterWeek(r, s) # NoRoom
<1> DEFINE q == roomAfterWeek(r, s)
<1>1. r \in RoomRecord /\ s.Status \in {"active", "finished"}
  BY DEF Legal, GoodSession, Session
<1>2. currentPlayableWeek(s) \in Nat \ {0}
  BY PlayableWeek, MaxWeeksAssumption
<1>3. /\ q \in RoomRecord /\ q.Players = r.Players
      /\ q.Status = s.Status /\ q.CurrentWeek = currentPlayableWeek(s)
  BY <1>1, <1>2 DEF roomAfterWeek, RoomRecord
<1> HIDE DEF q
<1>4. Legal(q) /\ q # NoRoom
  BY <1>1, <1>2, <1>3, NullAssumption DEF Legal, WellFormed, RolesDistinct
<1> QED  BY <1>3, <1>4 DEF q

(* What AdvanceWeek holds after it has played the week. *)
LEMMA AfterWeekFacts ==
  ASSUME Inv, NEW l, Handler(l, kind, Known), l.at \in {"getDecisions", "playWeek"},
         l.op = "advance", l.room \in Copies, NEW next, GoodSession(next)
  PROVE  /\ Handler(AfterWeek(l, next), kind, Known)
         /\ Legal(AfterWeek(l, next).room)
         /\ AfterWeek(l, next).room.Players = l.room.Players
<1> DEFINE m == AfterWeek(l, next)
           r == roomAfterWeek(l.room, next)
<1>1. l \in Local /\ l.sid \in SessionIds /\ next \in Session
  BY DEF Handler, GoodSession
<1>2. Legal(r) /\ r.Players = l.room.Players /\ r # NoRoom /\ r \in RoomRecord
  BY CopyFacts, RoomAfterWeek DEF Legal
<1> HIDE DEF r
<1>3. /\ m \in Local /\ m.at = "saveSession" /\ m.op = "advance" /\ m.session = next
      /\ m.sid = l.sid /\ m.room = r
  BY <1>1, <1>2 DEF AfterWeek, Local, r
<1> HIDE DEF m
<1>4. Handler(m, kind, Known)
  BY <1>1, <1>2, <1>3 DEF Handler, HoldsRoom, HoldsOrder
<1> QED  BY <1>2, <1>3, <1>4 DEF m

(* AdvanceWeek reads the orders and, on Redis, plays the week. *)
LEMMA AdvanceGetDecisionsInv ==
  ASSUME Inv, NEW w \in Workers, AdvanceGetDecisions(w)  PROVE Inv'
<1> DEFINE l == local[w]
           orders == decisions[l.week]
           next == SessionAdvanceWeek(l.session, orders)
           playing == [l EXCEPT !.at = "playWeek", !.orders = orders]
<1>1. /\ Handler(l, kind, Known) /\ l \in Local /\ l.at = "getDecisions" /\ l.op = "advance"
      /\ UNCHANGED <<storeVars, issued>>
  BY DEF Inv, Handlers, AdvanceGetDecisions, Handler
<1>2. /\ l.room \in Copies /\ GoodSession(l.session) /\ l.week = currentPlayableWeek(l.session)
      /\ l.sid \in SessionIds
  BY <1>1, CopyFacts DEF Handler, HoldsRoom, AdvanceKeepsRoom
<1>3. orders \in Orders \cup {NoDecisions}
  BY <1>2, PlayableWeek DEF Inv, StoresTypeOK
<1>4. CASE Leave(w)
  BY <1>1, <1>4, LeaveStep
<1>5. CASE /\ weekReady(orders) /\ MayAdvance(l.session, orders) /\ kind = "memory"
           /\ Continue(w, playing)
  <2>1. orders \in Orders
    BY <1>3, <1>5 DEF weekReady
  <2>2. /\ playing \in Local /\ playing.at = "playWeek" /\ playing.op = "advance"
        /\ playing.orders = orders /\ playing.session = l.session /\ playing.sid = l.sid
        /\ playing.week = l.week /\ playing.room = l.room
    BY <1>1, <2>1, ZenonT(40) DEF Local
  <2> HIDE DEF playing
  <2>3. playing.room # NoRoom
    BY <1>2, <2>2, CopyFacts
  <2>4. Handler(playing, kind, Known)
    BY <1>2, <1>5, <2>1, <2>2, <2>3 DEF Handler, HoldsOrder
  <2> QED  BY <1>1, <1>2, <1>5, <2>2, <2>4, LocalStep
<1>6. CASE /\ weekReady(orders) /\ MayAdvance(l.session, orders) /\ kind # "memory"
           /\ Continue(w, AfterWeek(l, next))
  <2>1. orders \in Orders
    BY <1>3, <1>6 DEF weekReady
  <2>2. GoodSession(next)
    BY <1>2, <1>6, <2>1, AdvanceGood
  <2>3. /\ Handler(AfterWeek(l, next), kind, Known)
        /\ Legal(AfterWeek(l, next).room)
        /\ AfterWeek(l, next).room.Players = l.room.Players
    BY <1>1, <1>2, <2>2, AfterWeekFacts
  <2> QED  BY <1>1, <1>6, <2>3, LocalStep
<1> QED  BY <1>4, <1>5, <1>6 DEF AdvanceGetDecisions

(* Another request's copy of the session sees its queues moved. *)
LEMMA HandlerPlayed ==
  ASSUME NEW l, NEW known, Handler(l, kind, known), NEW next, GoodSession(next)
  PROVE  Handler([l EXCEPT !.session = sessionSeen(@, next)], kind, known)
<1> DEFINE seen == sessionSeen(l.session, next)
           q == [l EXCEPT !.session = seen]
<1>1. l \in Local /\ l.session \in Session \cup {NoSession}
  BY DEF Handler, Local
<1>2. seen \in Session \cup {NoSession}
  <2>1. CASE l.session = NoSession
    BY <2>1 DEF sessionSeen
  <2>2. CASE l.session # NoSession
    <3>1. l.session \in Session /\ next \in Session
      BY <1>1, <2>2 DEF GoodSession
    <3>2. slotsSeen(l.session.History, next.History)
            \in [1..Len(l.session.History) -> [Roles -> OrderChoices \cap Nat]]
      BY <3>1 DEF slotsSeen, Session
    <3>3. slotsSeen(l.session.History, next.History) \in Seq([Roles -> OrderChoices \cap Nat])
      <4>1. ASSUME NEW S, NEW n \in Nat, NEW f \in [1..n -> S]  PROVE f \in Seq(S)
        OBVIOUS
      <4>2. Len(l.session.History) \in Nat
        BY <3>1 DEF Session
      <4> QED  BY <3>2, <4>1, <4>2
    <3> QED  BY <3>1, <3>3 DEF sessionSeen, Session
  <2> QED  BY <2>1, <2>2
<1>3. ASSUME GoodSession(l.session)
      PROVE  /\ GoodSession(seen) /\ currentPlayableWeek(seen) = currentPlayableWeek(l.session)
             /\ \A orders : MayAdvance(l.session, orders) => MayAdvance(seen, orders)
  BY <1>3, SeenGood DEF currentPlayableWeek, MayAdvance
<1> HIDE DEF seen
<1>4. /\ q.session = seen
      /\ q.op = l.op /\ q.at = l.at /\ q.sid = l.sid /\ q.room = l.room
      /\ q.week = l.week /\ q.orders = l.orders /\ q.role = l.role /\ q.order = l.order
      /\ q \in Local
  BY <1>1, <1>2 DEF Local
<1>5. HoldsRoom(q) = HoldsRoom(l) /\ HoldsOrder(q) = HoldsOrder(l)
  BY <1>4 DEF HoldsRoom, HoldsOrder
<1> HIDE DEF q
<1>6. Handler(q, kind, known)
  BY <1>3, <1>4, <1>5 DEF Handler
<1> QED  BY <1>6 DEF q, seen

(* AdvanceWeek plays the week on the memory stores. *)
LEMMA PlayWeekInv ==
  ASSUME Inv, NEW w \in Workers, PlayWeek(w)  PROVE Inv'
<1>1. PICK l : l = local[w]
  OBVIOUS
<1>2. PICK next : next = SessionAdvanceWeek(l.session, l.orders)
  OBVIOUS
<1>3. /\ l.at = "playWeek" /\ issued' = issued
      /\ sessions' = [sessions EXCEPT ![l.sid] = sessionSeen(@, next)]
      /\ local' = [v \in Workers |->
                     IF v = w THEN AfterWeek(l, next)
                     ELSE IF local[v].sid = l.sid
                       THEN [local[v] EXCEPT !.session = sessionSeen(@, next)]
                     ELSE local[v]]
      /\ room' = room /\ roomSession' = roomSession /\ decisions' = decisions
      /\ unannounced' \in {unannounced, "change"} /\ kind' = kind
  BY <1>1, <1>2 DEF PlayWeek
<1>4. /\ Handler(l, kind, Known) /\ l \in Local /\ l.op = "advance" /\ l.orders \in Orders
      /\ MayAdvance(l.session, l.orders) /\ GoodSession(l.session) /\ l.sid \in SessionIds
  BY <1>1, <1>3 DEF Inv, Handlers, Handler
<1>5. GoodSession(next)
  BY <1>2, <1>4, AdvanceGood
<1>6. l.room \in Copies
  BY <1>1, <1>3, <1>4, CopyFacts DEF Handler, HoldsRoom, AdvanceKeepsRoom
<1>7. /\ Handler(AfterWeek(l, next), kind, Known)
      /\ Legal(AfterWeek(l, next).room)
      /\ AfterWeek(l, next).room.Players = l.room.Players
  BY <1>3, <1>4, <1>5, <1>6, AfterWeekFacts
<1>8. ASSUME NEW sid \in SessionIds
      PROVE  /\ sessions[sid] = NoSession <=> sessions'[sid] = NoSession
             /\ sessions[sid] # NoSession => GoodSession(sessions'[sid])
  <2>1. sessions'[sid] = IF sid = l.sid THEN sessionSeen(sessions[sid], next) ELSE sessions[sid]
    BY <1>3 DEF Inv, StoresTypeOK
  <2>2. sessions[sid] # NoSession => GoodSession(sessions[sid])
    BY DEF Inv, SessionInv, Known
  <2>3. sessions[sid] # NoSession => GoodSession(sessionSeen(sessions[sid], next))
    BY <1>5, <2>2, SeenGood
  <2>4. sessions[sid] = NoSession => sessionSeen(sessions[sid], next) = NoSession
    BY DEF sessionSeen
  <2>5. \A s : GoodSession(s) => s # NoSession
    BY NullAssumption DEF GoodSession
  <2> QED  BY <2>1, <2>2, <2>3, <2>4, <2>5
<1>9. Known' = Known /\ SessionInv'
  BY <1>3, <1>8 DEF Known, SessionInv, Inv
<1>10. StoresTypeOK'
  <2>1. sessions' \in [SessionIds -> Session \cup {NoSession}]
    <3>1. \A sid \in SessionIds : sessions'[sid] \in Session \cup {NoSession}
      BY <1>8 DEF GoodSession
    <3>2. sessions' = [sid \in SessionIds |-> sessions'[sid]]
      BY <1>3 DEF Inv, StoresTypeOK
    <3> QED  BY <3>1, <3>2
  <2> QED  BY <1>3, <2>1 DEF Inv, StoresTypeOK
<1>11. ASSUME NEW v \in Workers
       PROVE  /\ Handler(local'[v], kind, Known)
              /\ v # w => local'[v].room = local[v].room
  <2>1. Handler(local[v], kind, Known) /\ local[v] \in Local
    BY DEF Inv, Handlers, Handler
  <2>2. CASE v = w
    BY <1>3, <1>7, <2>2
  <2>3. CASE v # w /\ local[v].sid = l.sid
    <3>1. local'[v] = [local[v] EXCEPT !.session = sessionSeen(@, next)]
      BY <1>3, <2>3
    <3>2. local'[v].room = local[v].room
      BY <2>1, <3>1 DEF Local
    <3> QED  BY <1>5, <2>1, <3>1, <3>2, HandlerPlayed
  <2>4. CASE v # w /\ local[v].sid # l.sid
    BY <1>3, <2>1, <2>4
  <2> QED  BY <2>2, <2>3, <2>4
<1>12. Handlers' /\ local' \in [Workers -> Local]
  BY <1>3, <1>9, <1>11 DEF Handlers, Handler
<1>13. RoomInv'
  <2>1. AfterWeek(l, next).room = local'[w].room
    BY <1>3
  <2>2. \A r \in Copies' : r \in Copies \/ r = AfterWeek(l, next).room
    BY <1>3, <1>11, <2>1 DEF Copies
  <2>3. PICK q : q = AfterWeek(l, next).room
    OBVIOUS
  <2>4. Legal(q)'
    BY <1>3, <1>7, <2>3, LegalKept
  <2>5. issued \subseteq issued'
    BY <1>3
  <2> QED  BY <1>3, <1>6, <1>7, <2>2, <2>3, <2>4, <2>5, CopiesKept DEF Inv
<1> QED  BY <1>3, <1>9, <1>10, <1>12, <1>13 DEF Inv

(* AdvanceWeek saves the session, *)
LEMMA AdvanceSaveSessionInv ==
  ASSUME Inv, NEW w \in Workers, AdvanceSaveSession(w)  PROVE Inv'
<1> DEFINE l == [local[w] EXCEPT !.at = "saveRoom", !.session = NoSession]
<1>1. /\ Handler(local[w], kind, Known) /\ local[w] \in Local
      /\ local[w].at = "saveSession" /\ local[w].op = "advance"
  BY DEF Inv, Handlers, AdvanceSaveSession, Handler
<1>2. local[w].room # NoRoom /\ local[w].room \in Copies
  BY <1>1, CopyFacts DEF Handler, HoldsRoom, AdvanceKeepsRoom
<1>3. l \in Local /\ l.at = "saveRoom" /\ l.op = "advance" /\ l.room = local[w].room
  BY <1>1, ZenonT(40) DEF Local
<1>4. Continue(w, l) /\ issued' = issued /\ SessionStoreSave(local[w].sid, local[w].session)
  BY DEF AdvanceSaveSession
<1> HIDE DEF l
<1>5. Handler(l, kind, Known)
  BY <1>2, <1>3 DEF Handler, HoldsRoom, HoldsOrder
<1> QED  BY <1>1, <1>2, <1>3, <1>4, <1>5, SessionSaved

(* then the room, *)
LEMMA AdvanceSaveRoomInv ==
  ASSUME Inv, NEW w \in Workers, AdvanceSaveRoom(w)  PROVE Inv'
<1> DEFINE l == [local[w] EXCEPT !.at = "deleteDecisions", !.room = NoRoom]
<1>1. /\ Handler(local[w], kind, Known) /\ local[w] \in Local
      /\ local[w].at = "saveRoom" /\ local[w].op = "advance"
  BY DEF Inv, Handlers, AdvanceSaveRoom, Handler
<1>2. local[w].room # NoRoom
  BY <1>1 DEF Handler, HoldsRoom
<1>3. l \in Local /\ l.at = "deleteDecisions" /\ l.room = NoRoom
  BY <1>1 DEF Local
<1>4. RoomStoreSave(local[w].room) /\ Continue(w, l) /\ issued' = issued
  BY DEF AdvanceSaveRoom
<1> HIDE DEF l
<1>5. Handler(l, kind, Known)
  BY <1>3 DEF Handler, HoldsRoom, HoldsOrder, AdvanceKeepsRoom
<1> QED  BY <1>2, <1>3, <1>4, <1>5, RoomSaved

(* then deletes the orders. *)
LEMMA DeleteDecisionsInv ==
  ASSUME Inv, NEW w \in Workers, DeleteDecisions(w)  PROVE Inv'
<1> DEFINE l == [NoLocal EXCEPT !.op = "advance", !.at = "publish"]
<1>1. Handler(l, kind, Known) /\ l.room = NoRoom
  BY NoLocalHandler, ZenonT(40) DEF Handler, Local, NoLocal, HoldsRoom, HoldsOrder, AdvanceKeepsRoom
<1>2. Continue(w, l) /\ issued' = issued /\ DecisionStoreDelete(local[w].week)
  BY DEF DeleteDecisions
<1> HIDE DEF l
<1> QED  BY <1>1, <1>2, DecisionsChanged DEF DecisionStoreDelete

(* Every step of the game service keeps the invariant. *)
LEMMA GameServiceInv ==
  ASSUME Inv, NEW w \in Workers, GameServiceStep(w)  PROVE Inv'
<1>1. CASE StartGame(w) \/ EnsureRoles(w) \/ WriteRoles(w) \/ StartSaveRoom(w) \/ StartSaveSession(w)
  BY <1>1, StartGameInv, EnsureRolesInv, WriteRolesInv, StartSaveRoomInv, StartSaveSessionInv
<1>2. CASE \E id \in PlayerIds, order \in OrderChoices : SubmitOrder(w, id, order)
  BY <1>2, SubmitOrderInv
<1>3. CASE SubmitGetDecisions(w) \/ SaveDecisions(w) \/ AdvanceWeek(w)
           \/ GetRoomSession(w) \/ GetSession(w)
  BY <1>3, SubmitGetDecisionsInv, SaveDecisionsInv, AdvanceWeekInv, GetRoomSessionInv, GetSessionInv
<1>4. CASE AdvanceGetDecisions(w) \/ PlayWeek(w) \/ AdvanceSaveSession(w) \/ AdvanceSaveRoom(w)
           \/ DeleteDecisions(w)
  BY <1>4, AdvanceGetDecisionsInv, PlayWeekInv, AdvanceSaveSessionInv, AdvanceSaveRoomInv,
     DeleteDecisionsInv
<1>5. CASE AnswerGame(w)
  BY <1>5, AnswerStep DEF AnswerGame
<1> QED  BY <1>1, <1>2, <1>3, <1>4, <1>5 DEF GameServiceStep

-----------------------------------------------------------------------------
(* A server that just started satisfies the invariant. *)
LEMMA InitInv == Init => Inv
<1> SUFFICES ASSUME Init PROVE Inv
  OBVIOUS
<1>1. /\ room = NoRoom /\ sessions = [sid \in SessionIds |-> NoSession] /\ roomSession = NoId
      /\ decisions = [week \in 1..MaxWeeks |-> NoDecisions]
      /\ unannounced = "nothing" /\ kind \in StoreKinds
      /\ local = [w \in Workers |-> NoLocal] /\ issued = {}
  BY DEF Init, StoresInit
<1>2. StoresTypeOK
  BY <1>1 DEF StoresTypeOK
<1>3. SessionInv
  BY <1>1 DEF SessionInv, Known
<1>4. local \in [Workers -> Local] /\ Handlers
  BY <1>1, NoLocalHandler DEF Handlers
<1>5. Copies = {}
  BY <1>1 DEF Copies, NoLocal
<1> QED  BY <1>1, <1>2, <1>3, <1>4, <1>5 DEF Inv, RoomInv

(* Every step keeps it: of either service, or a request that stops. *)
LEMMA NextInv == Inv /\ [Next]_vars => Inv'
<1> SUFFICES ASSUME Inv, [Next]_vars  PROVE Inv'
  OBVIOUS
<1>1. CASE UNCHANGED vars
  BY <1>1 DEF vars, storeVars, Inv, StoresTypeOK, SessionInv, Known, Handlers, RoomInv, Copies,
              Legal, WellFormed
<1>2. ASSUME NEW w \in Workers, RoomServiceStep(w)  PROVE Inv'
  BY <1>2, RoomServiceInv
<1>3. ASSUME NEW w \in Workers, GameServiceStep(w)  PROVE Inv'
  BY <1>3, GameServiceInv
<1>4. ASSUME NEW w \in Workers, Abort(w)  PROVE Inv'
  BY <1>4, LeaveStep DEF Abort
<1> QED  BY <1>1, <1>2, <1>3, <1>4 DEF Next

(* The inductive invariant of the server, whatever requests overlap or     *)
(* stop half way.                                                          *)
THEOREM InductiveInvariant == Spec => []Inv
  BY InitInv, NextInv, PTL DEF Spec

(* Every record in the stores and in a request's hands has its type: in    *)
(* particular no request works on a record that is not there.              *)
THEOREM TypeCorrect == Spec => []TypeOK
<1>1. Inv => TypeOK
  BY DEF Inv, TypeOK
<1> QED  BY <1>1, InductiveInvariant, PTL

(* Whatever requests overlap or stop, every room is legal: the stored one  *)
(* and every copy a request may still write (room.go, room_service.go).    *)
THEOREM RoomsStayWellFormed == Spec => []RoomWellFormed
<1>1. Inv => RoomWellFormed
  BY CopyFacts DEF RoomWellFormed, Legal
<1> QED  BY <1>1, InductiveInvariant, PTL

-----------------------------------------------------------------------------
(* A step of a request changes its local variables only, or the players of *)
(* every copy of the room, or plays a week.                                *)
LEMMA StepForm ==
  ASSUME NEW w \in Workers, RoomServiceStep(w) \/ GameServiceStep(w)
  PROVE  \/ PlayWeek(w) \/ \E l : Continue(w, l)
         \/ \E written, l : ChangePlayers(w, written, l)
<1>1. CASE RoomServiceStep(w)
  BY <1>1 DEF RoomServiceStep, CreateRoom, ReadRoom, RefuseRoom, WriteRole, JoinRoom,
              RequestRole, SaveRoom, AnswerRoom, Leave
<1>2. CASE \/ StartGame(w) \/ EnsureRoles(w) \/ WriteRoles(w)
           \/ StartSaveRoom(w) \/ StartSaveSession(w)
  BY <1>2 DEF StartGame, EnsureRoles, WriteRoles, Starting, StartSaveRoom, StartSaveSession
<1>3. CASE \/ \E id \in PlayerIds, order \in OrderChoices : SubmitOrder(w, id, order)
           \/ SubmitGetDecisions(w) \/ SaveDecisions(w) \/ AdvanceWeek(w)
           \/ GetRoomSession(w) \/ GetSession(w)
  BY <1>3 DEF SubmitOrder, SubmitGetDecisions, SaveDecisions, AdvanceWeek,
              GetRoomSession, GetSession, SessionFound, Leave
<1>4. CASE \/ AdvanceGetDecisions(w) \/ PlayWeek(w) \/ AdvanceSaveSession(w)
           \/ AdvanceSaveRoom(w) \/ DeleteDecisions(w) \/ AnswerGame(w)
  BY <1>4 DEF AdvanceGetDecisions, AdvanceSaveSession, AdvanceSaveRoom, DeleteDecisions,
              AnswerGame, Leave
<1> QED  BY <1>1, <1>2, <1>3, <1>4 DEF GameServiceStep

(* What a step of one request leaves of the others' local variables. *)
LEMMA OthersStand ==
  ASSUME Inv, NEW w \in Workers, RoomServiceStep(w) \/ GameServiceStep(w),
         NEW v \in Workers, v # w
  PROVE  /\ local'[v].op = local[v].op /\ local'[v].at = local[v].at
         /\ local'[v].sid = local[v].sid /\ local'[v].week = local[v].week
         /\ local'[v].orders = local[v].orders /\ local'[v].role = local[v].role
         /\ local'[v].order = local[v].order
         /\ ~PlayWeek(w) => local'[v].session = local[v].session
<1>1. local \in [Workers -> Local] /\ local[v] \in Local
  BY DEF Inv
<1>2. ASSUME NEW l, Continue(w, l)  PROVE local'[v] = local[v]
  BY <1>1, <1>2 DEF Continue
<1>3. ASSUME NEW written, NEW l, ChangePlayers(w, written, l)
      PROVE  local'[v] = [local[v] EXCEPT !.room = roomSeen(@, written)]
  BY <1>3 DEF ChangePlayers
<1>4. ASSUME NEW room1, local'[v] = [local[v] EXCEPT !.room = room1]
      PROVE  /\ local'[v].op = local[v].op /\ local'[v].at = local[v].at
             /\ local'[v].sid = local[v].sid /\ local'[v].week = local[v].week
             /\ local'[v].orders = local[v].orders /\ local'[v].role = local[v].role
             /\ local'[v].order = local[v].order /\ local'[v].session = local[v].session
  BY <1>1, <1>4 DEF Local
<1>5. CASE PlayWeek(w)
  <2>1. \/ local'[v] = local[v]
        \/ \E s : local'[v] = [local[v] EXCEPT !.session = s]
    BY <1>5 DEF PlayWeek
  <2> QED  BY <1>1, <1>5, <2>1 DEF Local
<1>6. \/ PlayWeek(w) \/ \E l : Continue(w, l)
      \/ \E written, l : ChangePlayers(w, written, l)
  BY StepForm
<1>7. CASE \E l : Continue(w, l)
  BY <1>2, <1>7
<1>8. CASE \E written, l : ChangePlayers(w, written, l)
  BY <1>3, <1>4, <1>8
<1> QED  BY <1>5, <1>6, <1>7, <1>8

-----------------------------------------------------------------------------
(* Once it has changed what others see, a request saves and has an event   *)
(* to publish.                                                             *)
WillAnnounce(l) == l.at \in {"saveRoom", "saveSession", "deleteDecisions", "publish"}

AnnounceInv == unannounced = "change" => \E w \in Workers : WillAnnounce(local[w])

(* What a step does to the request that takes it, as far as events go: it  *)
(* changes nothing, or publishes, or has its event still to publish.       *)
LEMMA OwnAnnouncement ==
  ASSUME Inv, NEW w \in Workers, RoomServiceStep(w) \/ GameServiceStep(w)
  PROVE  \/ ~WillAnnounce(local[w]) /\ (unannounced' = "change" => unannounced = "change")
         \/ unannounced' = "nothing"
         \/ WillAnnounce(local'[w])
<1>1. local \in [Workers -> Local] /\ local[w] \in Local /\ Handler(local[w], kind, Known)
  BY DEF Inv, Handlers
<1>2. ASSUME NEW l, Continue(w, l)  PROVE local'[w] = l
  BY <1>1, <1>2 DEF Continue
<1>3. CASE \/ CreateRoom(w) \/ \E op \in {"join", "assign", "start"} : ReadRoom(w, op)
           \/ RefuseRoom(w)
           \/ \E id \in PlayerIds, role \in Roles \cup {UnknownRole} : RequestRole(w, id, role)
           \/ EnsureRoles(w)
  <2>1. local[w].at \in {"idle", "haveRoom"}
    BY <1>3 DEF CreateRoom, ReadRoom, RefuseRoom, RequestRole, EnsureRoles, hasRoom, idle
  <2>2. unannounced' = unannounced
    BY <1>3 DEF CreateRoom, ReadRoom, RefuseRoom, RequestRole, EnsureRoles, storeVars
  <2> QED  BY <2>1, <2>2 DEF WillAnnounce
<1>4. CASE \/ \E id \in PlayerIds, order \in OrderChoices : SubmitOrder(w, id, order)
           \/ SubmitGetDecisions(w) \/ AdvanceWeek(w) \/ GetRoomSession(w) \/ GetSession(w)
           \/ AdvanceGetDecisions(w)
  <2>1. local[w].at \in {"idle", "getRoomSession", "getSession", "getDecisions"}
    BY <1>4 DEF SubmitOrder, SubmitGetDecisions, AdvanceWeek, GetRoomSession, GetSession,
                AdvanceGetDecisions, idle
  <2>2. unannounced' = unannounced
    BY <1>4 DEF SubmitOrder, SubmitGetDecisions, AdvanceWeek, GetRoomSession, GetSession,
                AdvanceGetDecisions, storeVars
  <2> QED  BY <2>1, <2>2 DEF WillAnnounce
<1>13. CASE PlayWeek(w)
  <2>1. PICK next : local'[w] = AfterWeek(local[w], next)
    BY <1>13 DEF PlayWeek
  <2>2. AfterWeek(local[w], next).at = "saveSession"
    BY <1>1 DEF AfterWeek, Local
  <2> QED  BY <2>1, <2>2 DEF WillAnnounce
<1>14. ASSUME NEW r, Starting(w, r)  PROVE WillAnnounce(local'[w])
  <2>1. PICK sid : ChangePlayers(w, r, [NoLocal EXCEPT !.op = "start", !.at = "saveRoom",
                                                     !.room = Started(r), !.sid = sid,
                                                     !.session = NewGameSession])
    BY <1>14 DEF Starting
  <2>2. local'[w].at = "saveRoom"
    BY <2>1 DEF ChangePlayers, NoLocal
  <2> QED  BY <2>2 DEF WillAnnounce
<1>15. CASE WriteRole(w) \/ \E name \in Names : JoinRoom(w, name)
  <2>1. CASE WriteRole(w)
    <3>1. local'[w].at = "saveRoom"
      BY <2>1 DEF WriteRole, ChangePlayers, NoLocal
    <3> QED  BY <3>1 DEF WillAnnounce
  <2>2. ASSUME NEW name \in Names, JoinRoom(w, name)  PROVE WillAnnounce(local'[w])
    <3>1. PICK r, id : local'[w] = [NoLocal EXCEPT !.op = "join", !.at = "saveRoom",
                                                  !.room = r, !.player = id]
      BY <2>2, ZenonT(40) DEF JoinRoom, ChangePlayers
    <3>2. local'[w].at = "saveRoom"
      BY <3>1 DEF NoLocal
    <3> QED  BY <3>2 DEF WillAnnounce
  <2> QED  BY <1>15, <2>1, <2>2
<1>16. CASE StartGame(w)
  BY <1>14, <1>16 DEF StartGame
<1>17. CASE WriteRoles(w)
  <2>1. (\E r : Starting(w, r)) \/ \E r : ChangePlayers(w, r, NoLocal)
    BY <1>17 DEF WriteRoles
  <2>2. ASSUME NEW r, ChangePlayers(w, r, NoLocal)
        PROVE  unannounced' = "change" => unannounced = "change"
    BY <2>2 DEF ChangePlayers
  <2>3. ~WillAnnounce(local[w])
    BY <1>17 DEF WriteRoles, WillAnnounce
  <2> QED  BY <1>14, <2>1, <2>2, <2>3
<1>5. CASE SaveRoom(w)
  <2>1. local'[w] = [local[w] EXCEPT !.at = "publish", !.room = NoRoom]
    BY <1>2, <1>5 DEF SaveRoom
  <2> QED  BY <1>1, <2>1 DEF WillAnnounce, Local
<1>6. CASE StartSaveRoom(w)
  <2>1. local'[w] = [local[w] EXCEPT !.at = "saveSession", !.room = NoRoom] /\ local[w].op = "start"
    BY <1>2, <1>6 DEF StartSaveRoom
  <2> QED  BY <1>1, <2>1 DEF WillAnnounce, Local
<1>7. CASE StartSaveSession(w)
  <2>1. local'[w] = [NoLocal EXCEPT !.op = "start", !.at = "publish"]
    BY <1>2, <1>7 DEF StartSaveSession
  <2> QED  BY <2>1 DEF WillAnnounce, NoLocal
<1>8. CASE SaveDecisions(w)
  <2>1. local'[w] = [local[w] EXCEPT !.at = "publish", !.orders = NoDecisions, !.order = 0]
    BY <1>2, <1>8 DEF SaveDecisions
  <2> QED  BY <1>1, <2>1 DEF WillAnnounce, Local
<1>9. CASE AdvanceSaveSession(w)
  <2>1. local'[w] = [local[w] EXCEPT !.at = "saveRoom", !.session = NoSession] /\ local[w].op = "advance"
    BY <1>2, <1>9 DEF AdvanceSaveSession
  <2> QED  BY <1>1, <2>1 DEF WillAnnounce, Local
<1>10. CASE AdvanceSaveRoom(w)
  <2>1. local'[w] = [local[w] EXCEPT !.at = "deleteDecisions", !.room = NoRoom] /\ local[w].op = "advance"
    BY <1>2, <1>10 DEF AdvanceSaveRoom
  <2> QED  BY <1>1, <2>1 DEF WillAnnounce, Local
<1>11. CASE DeleteDecisions(w)
  <2>1. local'[w] = [NoLocal EXCEPT !.op = "advance", !.at = "publish"]
    BY <1>2, <1>11 DEF DeleteDecisions
  <2> QED  BY <2>1 DEF WillAnnounce, NoLocal
<1>12. CASE AnswerRoom(w) \/ AnswerGame(w)
  BY <1>12 DEF AnswerRoom, AnswerGame, PublishRoomEvent
<1> QED  BY <1>3, <1>4, <1>5, <1>6, <1>7, <1>8, <1>9, <1>10, <1>11, <1>12, <1>13,
            <1>15, <1>16, <1>17
         DEF RoomServiceStep, GameServiceStep

(* As long as no request stops half way, every change is announced when no *)
(* request is under way, also one made in place on the memory stores:      *)
(* publishRoomEvent comes last in every handler.  What a StartGame that    *)
(* panics (room.go:166) leaves behind is not such a change.                *)
THEOREM ChangesAnnounced == ASSUME ~Failures PROVE Spec => []Announced
<1>1. Init => AnnounceInv
  BY DEF Init, StoresInit, AnnounceInv
<1>2. Inv /\ AnnounceInv /\ [Next]_vars => AnnounceInv'
  <2> SUFFICES ASSUME Inv, AnnounceInv, [Next]_vars, unannounced' = "change"
               PROVE  \E w \in Workers : WillAnnounce(local'[w])
    BY DEF AnnounceInv
  <2>1. CASE UNCHANGED vars
    BY <2>1 DEF AnnounceInv, vars, storeVars
  <2>2. ASSUME NEW w \in Workers, RoomServiceStep(w) \/ GameServiceStep(w)
        PROVE  \E v \in Workers : WillAnnounce(local'[v])
    <3>1. CASE WillAnnounce(local'[w])
      BY <3>1
    <3>2. CASE unannounced = "change" /\ ~WillAnnounce(local[w])
      <4>1. PICK v \in Workers : WillAnnounce(local[v])
        BY <3>2 DEF AnnounceInv
      <4>2. WillAnnounce(local'[v])
        BY <2>2, <3>2, <4>1, OthersStand DEF WillAnnounce
      <4> QED  BY <4>2
    <3> QED  BY <2>2, <3>1, <3>2, OwnAnnouncement
  <2> QED  BY <2>1, <2>2 DEF Next, Abort
<1>3. AnnounceInv => Announced
  BY DEF AnnounceInv, Announced, Quiet, idle, WillAnnounce
<1> QED  BY <1>1, <1>2, <1>3, InductiveInvariant, PTL DEF Spec

-----------------------------------------------------------------------------
(* The orders a record holds for a week were all placed for it. *)
PlacedIn(week, orders, P) == \A r \in DOMAIN orders : <<week, r, orders[r]>> \in P
PlacedAll(session, P) ==
  \A week \in DOMAIN session.History : PlacedIn(week, session.History[week], P)

(* So were those in a request's hands, the one it is about to save apart.  *)
Remembers(l, P) ==
  /\ l.at \in {"getDecisions", "playWeek", "saveSession"} => PlacedAll(l.session, P)
  /\ l.op = "start" /\ l.at = "saveRoom" => PlacedAll(l.session, P)
  /\ l.at = "playWeek" => PlacedIn(l.week, l.orders, P)
  /\ l.at = "saveDecisions" =>
       \A r \in DOMAIN l.orders : \/ r = l.role /\ l.orders[r] = l.order
                                  \/ <<l.week, r, l.orders[r]>> \in P

StoredPlaced(P) ==
  /\ \A week \in 1..MaxWeeks :
       decisions[week] # NoDecisions => PlacedIn(week, decisions[week], P)
  /\ \A sid \in Known : PlacedAll(sessions[sid], P)

PlacedInv == StoredPlaced(placed) /\ \A w \in Workers : Remembers(local[w], placed)

(* What was placed stays placed. *)
LEMMA PlacedMore ==
  ASSUME NEW P, NEW Q, P \subseteq Q
  PROVE  /\ \A l : Remembers(l, P) => Remembers(l, Q)
         /\ \A session : PlacedAll(session, P) => PlacedAll(session, Q)
         /\ \A week, orders : PlacedIn(week, orders, P) => PlacedIn(week, orders, Q)
         /\ StoredPlaced(P) => StoredPlaced(Q)
<1>1. \A week, orders : PlacedIn(week, orders, P) => PlacedIn(week, orders, Q)
  BY DEF PlacedIn
<1>2. \A session : PlacedAll(session, P) => PlacedAll(session, Q)
  BY <1>1 DEF PlacedAll
<1>3. \A l : Remembers(l, P) => Remembers(l, Q)
  BY <1>1, <1>2 DEF Remembers
<1> QED  BY <1>1, <1>2, <1>3 DEF StoredPlaced

(* A week that is played is played with the orders placed for it. *)
LEMMA PlayedPlaced ==
  ASSUME NEW s, GoodSession(s), NEW orders, MayAdvance(s, orders), NEW P,
         PlacedAll(s, P), PlacedIn(currentPlayableWeek(s), orders, P)
  PROVE  PlacedAll(SessionAdvanceWeek(s, orders), P)
<1> DEFINE next == SessionAdvanceWeek(s, orders)
           n == Len(s.History)
<1>1. /\ s.History \in Seq([Roles -> OrderChoices \cap Nat]) /\ n \in Nat /\ n = s.CurrentWeek
      /\ s.Status = "active"
  BY DEF GoodSession, Session, MayAdvance
<1>2. currentPlayableWeek(s) = n + 1
  BY <1>1 DEF currentPlayableWeek
<1>3. next.History = Append(s.History, orders)
  BY DEF SessionAdvanceWeek
<1> HIDE DEF next
<1>4. /\ DOMAIN next.History = 1..(n + 1) /\ DOMAIN s.History = 1..n
      /\ next.History[n + 1] = orders
      /\ \A i \in 1..n : next.History[i] = s.History[i]
  BY <1>1, <1>3
<1>5. ASSUME NEW week \in 1..(n + 1)  PROVE PlacedIn(week, next.History[week], P)
  <2>1. CASE week = n + 1
    BY <1>2, <1>4, <2>1
  <2>2. CASE week # n + 1
    <3>1. week \in 1..n
      BY <1>1, <2>2
    <3> QED  BY <1>4, <3>1 DEF PlacedAll
  <2> QED  BY <2>1, <2>2
<1>6. PlacedAll(next, P)
  BY <1>4, <1>5 DEF PlacedAll
<1> QED  BY <1>6 DEF next

(* A copy that sees another one being played on sees placed orders only. *)
LEMMA SeenPlaced ==
  ASSUME NEW s, GoodSession(s), NEW next, GoodSession(next), NEW P,
         PlacedAll(s, P), PlacedAll(next, P)
  PROVE  PlacedAll(sessionSeen(s, next), P)
  BY SeenGood DEF PlacedAll

(* Requests that change neither sessions nor orders in the stores, and     *)
(* remember what they should.                                              *)
LEMMA PlacedStep ==
  ASSUME Inv, PlacedInv, NEW w \in Workers, RoomServiceStep(w) \/ GameServiceStep(w),
         ~PlayWeek(w), NEW P, placed \subseteq P, Remembers(local'[w], P)
  PROVE  \A v \in Workers : Remembers(local'[v], P)
<1> SUFFICES ASSUME NEW v \in Workers, v # w  PROVE Remembers(local'[v], P)
  OBVIOUS
<1>1. Remembers(local[v], P)
  BY PlacedMore DEF PlacedInv
<1> QED  BY <1>1, OthersStand DEF Remembers

(* The stores that kept their sessions and orders. *)
LEMMA StoredKept ==
  ASSUME PlacedInv, NEW P, placed \subseteq P, sessions' = sessions, decisions' = decisions
  PROVE  StoredPlaced(P)'
<1>1. StoredPlaced(P)
  BY PlacedMore DEF PlacedInv
<1> QED  BY <1>1 DEF StoredPlaced, Known

(* A request that is over has nothing in its hands. *)
LEMMA NothingRemembered == \A P : Remembers(NoLocal, P)
  BY DEF Remembers, NoLocal

(* The requests of the room service have no orders in their hands. *)
LEMMA RoomServicePlaced ==
  ASSUME Inv, PlacedInv, NEW w \in Workers, RoomServiceStep(w), NEW P, placed \subseteq P
  PROVE  StoredPlaced(P)' /\ Remembers(local'[w], P)
<1>1. local \in [Workers -> Local] /\ local[w] \in Local
  BY DEF Inv
<1>2. ASSUME NEW l, Continue(w, l)  PROVE local'[w] = l
  BY <1>1, <1>2 DEF Continue
<1>3. StoredPlaced(P)'
  <2>1. sessions' = sessions /\ decisions' = decisions
    BY DEF RoomServiceStep, CreateRoom, ReadRoom, RefuseRoom, WriteRole, JoinRoom, RequestRole,
           SaveRoom, AnswerRoom, ChangePlayers, RoomStoreSave, PublishRoomEvent, storeVars
  <2> QED  BY <2>1, StoredKept
<1>4. CASE CreateRoom(w) \/ RefuseRoom(w) \/ AnswerRoom(w)
  <2>1. \/ local'[w] = [NoLocal EXCEPT !.op = "create", !.at = "saveRoom", !.room = NewRoom]
        \/ local'[w] = NoLocal
    BY <1>1, <1>4 DEF CreateRoom, RefuseRoom, AnswerRoom, Leave, Continue
  <2>2. CASE local'[w] = [NoLocal EXCEPT !.op = "create", !.at = "saveRoom", !.room = NewRoom]
    <3>1. local'[w].op = "create" /\ local'[w].at = "saveRoom"
      BY <2>2 DEF NoLocal
    <3> QED  BY <1>3, <3>1 DEF Remembers
  <2> QED  BY <1>3, <2>1, <2>2, NothingRemembered
<1>5. CASE \/ WriteRole(w) \/ \E name \in Names : JoinRoom(w, name)
           \/ \E op \in {"join", "assign", "start"} : ReadRoom(w, op)
  <2>0. ASSUME NEW written, NEW l, ChangePlayers(w, written, l)  PROVE local'[w] = l
    BY <2>0 DEF ChangePlayers
  <2>1. CASE WriteRole(w)
    <3>1. PICK r : local'[w] = [NoLocal EXCEPT !.op = "assign", !.at = "saveRoom", !.room = r]
      BY <2>0, <2>1 DEF WriteRole
    <3>2. local'[w].at = "saveRoom" /\ local'[w].op = "assign"
      BY <3>1 DEF NoLocal
    <3> QED  BY <1>3, <3>2 DEF Remembers
  <2>2. CASE \E name \in Names : JoinRoom(w, name)
    <3>1. PICK r, id : local'[w] = [NoLocal EXCEPT !.op = "join", !.at = "saveRoom",
                                                   !.room = r, !.player = id]
      BY <2>0, <2>2 DEF JoinRoom
    <3>2. local'[w].at = "saveRoom" /\ local'[w].op = "join"
      BY <3>1 DEF NoLocal
    <3> QED  BY <1>3, <3>2 DEF Remembers
  <2>3. ASSUME NEW op \in {"join", "assign", "start"}, ReadRoom(w, op)
        PROVE  Remembers(local'[w], P)
    <3>1. local'[w].at = "haveRoom"
      BY <1>1, <2>3 DEF ReadRoom, Continue, NoLocal
    <3> QED  BY <3>1 DEF Remembers
  <2> QED  BY <1>3, <1>5, <2>1, <2>2, <2>3
<1>6. ASSUME NEW id \in PlayerIds, NEW role \in Roles \cup {UnknownRole}, RequestRole(w, id, role)
      PROVE  Remembers(local'[w], P)
  <2>1. CASE kind = "memory"
    <3>1. local'[w] = [local[w] EXCEPT !.at = "writeRole", !.role = role,
                                       !.seat = PlayerIndex(roomOf(w), id)]
      BY <1>2, <1>6, <2>1 DEF RequestRole
    <3> QED  BY <1>1, <3>1 DEF Remembers, Local
  <2>2. CASE kind # "memory"
    <3>1. local'[w] = [NoLocal EXCEPT !.op = "assign", !.at = "saveRoom",
                                      !.room = AssignRole(room, id, role)]
      BY <1>2, <1>6, <2>2 DEF RequestRole
    <3> QED  BY <3>1 DEF Remembers, NoLocal
  <2> QED  BY <2>1, <2>2
<1>7. CASE SaveRoom(w)
  <2>1. local'[w] = [local[w] EXCEPT !.at = "publish", !.room = NoRoom]
    BY <1>2, <1>7 DEF SaveRoom
  <2> QED  BY <1>1, <1>3, <2>1 DEF Remembers, Local
<1> QED  BY <1>3, <1>4, <1>5, <1>6, <1>7 DEF RoomServiceStep

(* Nor has one that starts a game: the session it saves has no week yet. *)
LEMMA StartPlaced ==
  ASSUME Inv, PlacedInv, NEW w \in Workers, NEW P, placed \subseteq P,
         \/ StartGame(w) \/ EnsureRoles(w) \/ WriteRoles(w)
         \/ StartSaveRoom(w) \/ StartSaveSession(w)
  PROVE  StoredPlaced(P)' /\ Remembers(local'[w], P)
<1>1. local \in [Workers -> Local] /\ local[w] \in Local /\ Remembers(local[w], P)
  BY PlacedMore DEF Inv, PlacedInv
<1>2. ASSUME NEW l, Continue(w, l)  PROVE local'[w] = l
  BY <1>1, <1>2 DEF Continue
<1>3. PlacedAll(NewGameSession, P)
  BY DEF PlacedAll, NewGameSession
<1>4. CASE StartGame(w) \/ WriteRoles(w)
  <2>1. \/ /\ local'[w].op = "start" /\ local'[w].at = "saveRoom"
           /\ local'[w].session = NewGameSession
        \/ local'[w] = NoLocal
    <3>1. (\E r : Starting(w, r)) \/ (\E r : ChangePlayers(w, r, NoLocal))
      BY <1>4 DEF StartGame, WriteRoles
    <3>2. ASSUME NEW r, Starting(w, r)
          PROVE  /\ local'[w].op = "start" /\ local'[w].at = "saveRoom"
                 /\ local'[w].session = NewGameSession
      <4>1. PICK sid : local'[w] = [NoLocal EXCEPT !.op = "start", !.at = "saveRoom",
                                      !.room = Started(r), !.sid = sid, !.session = NewGameSession]
        BY <3>2 DEF Starting, ChangePlayers
      <4> QED  BY <4>1 DEF NoLocal
    <3> QED  BY <3>1, <3>2 DEF ChangePlayers
  <2>2. sessions' = sessions /\ decisions' = decisions
    BY <1>4 DEF StartGame, WriteRoles, Starting, ChangePlayers
  <2>3. StoredPlaced(P)'
    BY <2>2, StoredKept
  <2>4. Remembers(local'[w], P)
    BY <1>3, <2>1 DEF Remembers, NoLocal
  <2> QED  BY <2>3, <2>4
<1>5. CASE EnsureRoles(w)
  <2>1. local'[w] = [local[w] EXCEPT !.at = "writeRoles", !.free = availableRoles(local[w].room)]
    BY <1>2, <1>5 DEF EnsureRoles
  <2>2. sessions' = sessions /\ decisions' = decisions
    BY <1>5 DEF EnsureRoles, storeVars
  <2>3. StoredPlaced(P)'
    BY <2>2, StoredKept
  <2>4. Remembers(local'[w], P)
    BY <1>1, <2>1 DEF Remembers, Local
  <2> QED  BY <2>3, <2>4
<1>6. CASE StartSaveRoom(w)
  <2>1. /\ local'[w] = [local[w] EXCEPT !.at = "saveSession", !.room = NoRoom]
        /\ local[w].at = "saveRoom" /\ local[w].op = "start"
    BY <1>2, <1>6 DEF StartSaveRoom
  <2>2. sessions' = sessions /\ decisions' = decisions
    BY <1>6 DEF StartSaveRoom, RoomStoreSave
  <2>3. StoredPlaced(P)'
    BY <2>2, StoredKept
  <2>4. Remembers(local'[w], P)
    BY <1>1, <2>1 DEF Remembers, Local
  <2> QED  BY <2>3, <2>4
<1>7. CASE StartSaveSession(w)
  <2>1. local'[w] = [NoLocal EXCEPT !.op = "start", !.at = "publish"]
    BY <1>2, <1>7 DEF StartSaveSession
  <2>2. Remembers(local'[w], P)
    BY <2>1 DEF Remembers, NoLocal
  <2>3. PlacedAll(local[w].session, P) /\ StoredPlaced(P)
    BY <1>1, <1>7, PlacedMore DEF StartSaveSession, Remembers, PlacedInv
  <2>4. \A sid \in SessionIds : sessions'[sid] \in {sessions[sid], local[w].session}
    BY <1>7 DEF StartSaveSession, SessionStoreSave, Inv, StoresTypeOK
  <2>5. decisions' = decisions
    BY <1>7 DEF StartSaveSession, SessionStoreSave
  <2> QED  BY <2>2, <2>3, <2>4, <2>5 DEF StoredPlaced, Known
<1> QED  BY <1>4, <1>5, <1>6, <1>7

(* A session and the orders of its week, as requests read them. *)
LEMMA ReadingPlaced ==
  ASSUME Inv, PlacedInv, NEW w \in Workers, NEW P, placed \subseteq P,
         \/ \E id \in PlayerIds, order \in OrderChoices : SubmitOrder(w, id, order)
         \/ AdvanceWeek(w) \/ GetRoomSession(w) \/ GetSession(w) \/ SubmitGetDecisions(w)
  PROVE  StoredPlaced(P)' /\ Remembers(local'[w], P)
<1>1. local \in [Workers -> Local] /\ local[w] \in Local /\ Handler(local[w], kind, Known)
  BY DEF Inv, Handlers
<1>2. ASSUME NEW l, Continue(w, l)  PROVE local'[w] = l
  BY <1>1, <1>2 DEF Continue
<1>3. sessions' = sessions /\ decisions' = decisions
  BY DEF SubmitOrder, AdvanceWeek, GetRoomSession, GetSession, SubmitGetDecisions, storeVars
<1>4. StoredPlaced(P) /\ StoredPlaced(P)'
  BY <1>3, PlacedMore, StoredKept DEF PlacedInv
<1>5. CASE \/ \E id \in PlayerIds, order \in OrderChoices : SubmitOrder(w, id, order)
           \/ AdvanceWeek(w)
  <2>1. local'[w].at = "getRoomSession"
    BY <1>1, <1>5 DEF SubmitOrder, AdvanceWeek, Continue, NoLocal
  <2> QED  BY <1>4, <2>1 DEF Remembers
<1>6. ASSUME NEW l \in Local, SessionFound(w, l), l.sid \in Known
      PROVE  Remembers(local'[w], P)
  <2>1. PlacedAll(sessions[l.sid], P)
    BY <1>4, <1>6 DEF StoredPlaced
  <2>2. \/ local'[w] = NoLocal
        \/ local'[w] = [l EXCEPT !.at = "getDecisions", !.session = sessions[l.sid],
                                 !.week = currentPlayableWeek(sessions[l.sid])]
    BY <1>2, <1>6 DEF SessionFound, Leave
  <2>3. CASE local'[w] = NoLocal
    BY <2>3 DEF Remembers, NoLocal
  <2>4. CASE local'[w] = [l EXCEPT !.at = "getDecisions", !.session = sessions[l.sid],
                                   !.week = currentPlayableWeek(sessions[l.sid])]
    <3>1. local'[w].at = "getDecisions" /\ local'[w].session = sessions[l.sid]
      BY <1>6, <2>4 DEF Local
    <3> QED  BY <2>1, <3>1 DEF Remembers
  <2> QED  BY <2>2, <2>3, <2>4
<1>7. CASE GetRoomSession(w)
  <2> DEFINE l == [local[w] EXCEPT !.sid = roomSession]
  <2>1. roomSession # NoId => roomSession \in Known /\ roomSession \in SessionIds
    BY DEF Inv, SessionInv, Known
  <2>2. CASE roomSession = NoId
    <3>1. local'[w] = NoLocal
      BY <1>2, <1>7, <2>2 DEF GetRoomSession, Leave
    <3> QED  BY <1>4, <3>1, NothingRemembered
  <2>3. CASE roomSession # NoId
    <3>1. l \in Local /\ l.sid = roomSession
      BY <1>1, <2>1, <2>3, ZenonT(40) DEF Local
    <3>2. SessionFound(w, l) \/ local'[w] = [l EXCEPT !.at = "getSession"]
      BY <1>2, <1>7, <2>3 DEF GetRoomSession
    <3> HIDE DEF l
    <3>3. CASE local'[w] = [l EXCEPT !.at = "getSession"]
      BY <1>4, <3>1, <3>3 DEF Remembers, Local
    <3> QED  BY <1>4, <1>6, <2>1, <2>3, <3>1, <3>2, <3>3
  <2> QED  BY <2>2, <2>3
<1>8. CASE GetSession(w)
  BY <1>1, <1>4, <1>6, <1>8 DEF GetSession, Handler
<1>9. CASE SubmitGetDecisions(w)
  <2> DEFINE old == decisions[local[w].week]
             orders == withOrder(old, local[w].role, local[w].order)
             l == [local[w] EXCEPT !.at = "saveDecisions", !.session = NoSession, !.orders = orders]
  <2>1. local'[w] = l /\ local[w].at = "getDecisions" /\ local[w].op = "submit"
    BY <1>2, <1>9 DEF SubmitGetDecisions
  <2>2. local[w].week \in 1..MaxWeeks
    BY <1>1, <2>1, PlayableWeek DEF Handler
  <2>3. old # NoDecisions => PlacedIn(local[w].week, old, P)
    BY <1>4, <2>2 DEF StoredPlaced
  <2> HIDE DEF old
  <2>4. \A r \in DOMAIN orders : \/ r = local[w].role /\ orders[r] = local[w].order
                                 \/ <<local[w].week, r, orders[r]>> \in P
    BY <2>3 DEF withOrder, PlacedIn
  <2> HIDE DEF orders
  <2>5. /\ l.at = "saveDecisions" /\ l.op = "submit" /\ l.orders = orders /\ l.week = local[w].week
        /\ l.role = local[w].role /\ l.order = local[w].order
    BY <1>1, <2>1 DEF Local
  <2> HIDE DEF l
  <2>6. Remembers(l, P)
    BY <2>4, <2>5 DEF Remembers
  <2> QED  BY <1>4, <2>1, <2>6
<1> QED  BY <1>5, <1>7, <1>8, <1>9

(* SaveDecisions, DeleteDecisions and what AdvanceWeek does on Redis. *)
LEMMA SavingPlaced ==
  ASSUME Inv, PlacedInv, NEW w \in Workers, NEW P, placed \subseteq P, NewlyPlaced \subseteq P,
         \/ SaveDecisions(w) \/ DeleteDecisions(w) \/ AdvanceGetDecisions(w)
         \/ AdvanceSaveSession(w) \/ AdvanceSaveRoom(w) \/ AnswerGame(w)
  PROVE  StoredPlaced(P)' /\ Remembers(local'[w], P)
<1>1. local \in [Workers -> Local] /\ local[w] \in Local /\ Handler(local[w], kind, Known)
  BY DEF Inv, Handlers
<1>2. ASSUME NEW l, Continue(w, l)  PROVE local'[w] = l
  BY <1>1, <1>2 DEF Continue
<1>3. StoredPlaced(P) /\ Remembers(local[w], P)
  BY PlacedMore DEF PlacedInv
<1>4. CASE SaveDecisions(w)
  <2>1. /\ local'[w] = [local[w] EXCEPT !.at = "publish", !.orders = NoDecisions, !.order = 0]
        /\ local[w].at = "saveDecisions"
    BY <1>2, <1>4 DEF SaveDecisions
  <2>2. local'[w].at = "publish"
    BY <1>1, <2>1 DEF Local
  <2>3. <<local[w].week, local[w].role, local[w].order>> \in P
    BY <2>1, <2>2 DEF NewlyPlaced
  <2>4. PlacedIn(local[w].week, local[w].orders, P)
    BY <1>3, <2>1, <2>3 DEF Remembers, PlacedIn
  <2>5. /\ \A week \in 1..MaxWeeks :
             decisions'[week] = IF week = local[w].week THEN local[w].orders ELSE decisions[week]
        /\ sessions' = sessions
    BY <1>4 DEF SaveDecisions, DecisionStoreSave, Inv, StoresTypeOK
  <2>6. StoredPlaced(P)'
    BY <1>3, <2>4, <2>5 DEF StoredPlaced, Known
  <2> QED  BY <2>2, <2>6 DEF Remembers
<1>5. CASE DeleteDecisions(w)
  <2>1. local'[w].at = "publish"
    BY <1>1, <1>5 DEF DeleteDecisions, Continue, NoLocal
  <2>2. /\ \A week \in 1..MaxWeeks : decisions'[week] \in {decisions[week], NoDecisions}
        /\ sessions' = sessions
    BY <1>5 DEF DeleteDecisions, DecisionStoreDelete, Inv, StoresTypeOK
  <2>3. StoredPlaced(P)'
    BY <1>3, <2>2 DEF StoredPlaced, Known
  <2> QED  BY <2>1, <2>3 DEF Remembers
<1>6. CASE AdvanceGetDecisions(w)
  <2>1. PICK l : l = local[w]
    OBVIOUS
  <2>2. PICK orders : orders = decisions[l.week]
    OBVIOUS
  <2>3. PICK next : next = SessionAdvanceWeek(l.session, orders)
    OBVIOUS
  <2>4. /\ Handler(l, kind, Known) /\ l \in Local /\ l.at = "getDecisions" /\ l.op = "advance"
        /\ sessions' = sessions /\ decisions' = decisions
    BY <1>1, <1>6, <2>1 DEF AdvanceGetDecisions, storeVars
  <2>5. /\ GoodSession(l.session) /\ l.week = currentPlayableWeek(l.session)
        /\ PlacedAll(l.session, P)
    BY <1>3, <2>1, <2>4 DEF Handler, Remembers
  <2>6. orders # NoDecisions => PlacedIn(l.week, orders, P)
    BY <1>3, <2>2, <2>5, PlayableWeek DEF StoredPlaced
  <2>7. StoredPlaced(P)'
    BY <2>4, StoredKept
  <2>8. CASE local'[w] = NoLocal
    BY <2>7, <2>8 DEF Remembers, NoLocal
  <2>9. CASE local'[w] = [l EXCEPT !.at = "playWeek", !.orders = orders] /\ weekReady(orders)
    <3>1. /\ local'[w].at = "playWeek" /\ local'[w].orders = orders
          /\ local'[w].week = l.week /\ local'[w].session = l.session
      BY <2>4, <2>9 DEF Local
    <3> QED  BY <2>5, <2>6, <2>7, <2>9, <3>1 DEF Remembers, weekReady
  <2>10. CASE /\ local'[w] = AfterWeek(l, next)
              /\ weekReady(orders) /\ MayAdvance(l.session, orders)
    <3>1. local'[w].at = "saveSession" /\ local'[w].session = next
      BY <2>4, <2>10 DEF AfterWeek, Local
    <3>2. PlacedAll(next, P)
      BY <2>3, <2>5, <2>6, <2>10, PlayedPlaced DEF weekReady
    <3> QED  BY <2>7, <3>1, <3>2 DEF Remembers
  <2> QED  BY <1>2, <1>6, <2>1, <2>2, <2>3, <2>8, <2>9, <2>10 DEF AdvanceGetDecisions, Leave
<1>7. CASE AdvanceSaveSession(w)
  <2>1. local'[w] = [local[w] EXCEPT !.at = "saveRoom", !.session = NoSession]
        /\ local[w].at = "saveSession" /\ local[w].op = "advance"
    BY <1>2, <1>7 DEF AdvanceSaveSession
  <2>2. local'[w].at = "saveRoom" /\ local'[w].op = "advance"
    BY <1>1, <2>1 DEF Local
  <2>3. /\ \A sid \in SessionIds : sessions'[sid] \in {sessions[sid], local[w].session}
        /\ decisions' = decisions
    BY <1>7 DEF AdvanceSaveSession, SessionStoreSave, Inv, StoresTypeOK
  <2>4. PlacedAll(local[w].session, P)
    BY <1>3, <2>1 DEF Remembers
  <2>5. StoredPlaced(P)'
    BY <1>3, <2>3, <2>4 DEF StoredPlaced, Known
  <2> QED  BY <2>2, <2>5 DEF Remembers
<1>8. CASE AdvanceSaveRoom(w) \/ AnswerGame(w)
  <2>1. local'[w].at \in {"deleteDecisions", "idle"}
    <3>1. \/ local'[w] = [local[w] EXCEPT !.at = "deleteDecisions", !.room = NoRoom]
          \/ local'[w] = NoLocal
      BY <1>1, <1>8 DEF AdvanceSaveRoom, AnswerGame, Leave, Continue
    <3>2. NoLocal.at = "idle"
      BY DEF NoLocal
    <3> QED  BY <1>1, <3>1, <3>2 DEF Local
  <2>2. sessions' = sessions /\ decisions' = decisions
    BY <1>8 DEF AdvanceSaveRoom, AnswerGame, RoomStoreSave, PublishRoomEvent
  <2>3. StoredPlaced(P)'
    BY <2>2, StoredKept
  <2> QED  BY <2>1, <2>3 DEF Remembers
<1> QED  BY <1>4, <1>5, <1>6, <1>7, <1>8

(* AdvanceWeek plays the week, on the memory stores under every copy. *)
LEMMA PlayWeekPlaced ==
  ASSUME Inv, PlacedInv, NEW w \in Workers, PlayWeek(w), NEW P, placed \subseteq P
  PROVE  StoredPlaced(P)' /\ \A v \in Workers : Remembers(local'[v], P)
<1>1. PICK l : l = local[w]
  OBVIOUS
<1>2. PICK next : next = SessionAdvanceWeek(l.session, l.orders)
  OBVIOUS
<1>3. /\ l.at = "playWeek" /\ decisions' = decisions
      /\ sessions' = [sessions EXCEPT ![l.sid] = sessionSeen(@, next)]
      /\ local' = [v \in Workers |->
                     IF v = w THEN AfterWeek(l, next)
                     ELSE IF local[v].sid = l.sid
                       THEN [local[v] EXCEPT !.session = sessionSeen(@, next)]
                     ELSE local[v]]
  BY <1>1, <1>2 DEF PlayWeek
<1>4. /\ Handler(l, kind, Known) /\ l \in Local /\ l.orders \in Orders
      /\ MayAdvance(l.session, l.orders) /\ GoodSession(l.session)
      /\ l.week = currentPlayableWeek(l.session)
  BY <1>1, <1>3 DEF Inv, Handlers, Handler
<1>5. StoredPlaced(P) /\ \A v \in Workers : Remembers(local[v], P)
  BY PlacedMore DEF PlacedInv
<1>6. PlacedAll(l.session, P) /\ PlacedIn(l.week, l.orders, P)
  BY <1>1, <1>3, <1>5 DEF Remembers
<1>7. GoodSession(next) /\ PlacedAll(next, P)
  BY <1>2, <1>4, <1>6, AdvanceGood, PlayedPlaced
<1>8. \A s : GoodSession(s) /\ PlacedAll(s, P) => PlacedAll(sessionSeen(s, next), P)
  BY <1>7, SeenPlaced
<1>9. StoredPlaced(P)'
  <2>1. ASSUME NEW sid \in SessionIds, sessions'[sid] # NoSession
        PROVE  PlacedAll(sessions'[sid], P)
    <3>1. sessions'[sid] = IF sid = l.sid THEN sessionSeen(sessions[sid], next) ELSE sessions[sid]
      BY <1>3 DEF Inv, StoresTypeOK
    <3>2. sessions[sid] # NoSession
      BY <2>1, <3>1 DEF sessionSeen
    <3>3. GoodSession(sessions[sid]) /\ PlacedAll(sessions[sid], P)
      BY <1>5, <3>2 DEF Inv, SessionInv, StoredPlaced, Known
    <3> QED  BY <1>8, <3>1, <3>3
  <2> QED  BY <1>3, <1>5, <2>1 DEF StoredPlaced, Known
<1>10. ASSUME NEW v \in Workers  PROVE Remembers(local'[v], P)
  <2>1. Handler(local[v], kind, Known) /\ local[v] \in Local /\ Remembers(local[v], P)
    BY <1>5 DEF Inv, Handlers, Handler
  <2>2. CASE v = w
    <3>1. local'[v].at = "saveSession" /\ local'[v].session = next
      BY <1>3, <1>4, <2>2 DEF AfterWeek, Local
    <3> QED  BY <1>7, <3>1 DEF Remembers
  <2>3. CASE v # w /\ local[v].sid = l.sid
    <3>1. local'[v] = [local[v] EXCEPT !.session = sessionSeen(@, next)]
      BY <1>3, <2>3
    <3>2. /\ local'[v].at = local[v].at /\ local'[v].op = local[v].op
          /\ local'[v].week = local[v].week /\ local'[v].orders = local[v].orders
          /\ local'[v].role = local[v].role /\ local'[v].order = local[v].order
          /\ local'[v].session = sessionSeen(local[v].session, next)
      BY <2>1, <3>1 DEF Local
    <3>3. \/ local[v].at \in {"getDecisions", "playWeek", "saveSession"}
          \/ local[v].op = "start" /\ local[v].at = "saveRoom"
          => PlacedAll(sessionSeen(local[v].session, next), P)
      BY <1>8, <2>1 DEF Handler, Remembers
    <3> QED  BY <2>1, <3>2, <3>3 DEF Remembers
  <2>4. CASE v # w /\ local[v].sid # l.sid
    BY <1>3, <2>1, <2>4
  <2> QED  BY <2>2, <2>3, <2>4
<1> QED  BY <1>9, <1>10

(* The orders in the stores and in requests' hands were placed, and stay   *)
(* so in every step.                                                       *)
LEMMA PlacedInvKept ==
  ASSUME Inv, PlacedInv, [Next /\ placed' = placed \cup NewlyPlaced]_<<vars, placed>>
  PROVE  PlacedInv'
<1>1. PICK P : P = placed'
  OBVIOUS
<1>2. CASE UNCHANGED <<vars, placed>>
  BY <1>2 DEF vars, storeVars, PlacedInv, StoredPlaced, Known
<1>3. CASE Next /\ placed' = placed \cup NewlyPlaced
  <2>1. placed \subseteq P /\ NewlyPlaced \subseteq P
    BY <1>1, <1>3
  <2>2. PICK w \in Workers : RoomServiceStep(w) \/ GameServiceStep(w) \/ Abort(w)
    BY <1>3 DEF Next
  <2>3. CASE Abort(w)
    <3>1. StoredPlaced(P)'
      BY <2>1, <2>3, StoredKept DEF Abort, storeVars
    <3>2. ASSUME NEW v \in Workers  PROVE Remembers(local'[v], P)
      <4>1. local'[v] \in {local[v], NoLocal}
        BY <2>3 DEF Abort, Leave, Continue, Inv
      <4>2. Remembers(local[v], P)
        BY <2>1, PlacedMore DEF PlacedInv
      <4>3. Remembers(NoLocal, P)
        BY DEF Remembers, NoLocal
      <4> QED  BY <4>1, <4>2, <4>3
    <3> QED  BY <1>1, <3>1, <3>2 DEF PlacedInv, StoredPlaced
  <2>4. CASE PlayWeek(w)
    <3>1. StoredPlaced(P)' /\ \A v \in Workers : Remembers(local'[v], P)
      BY <2>1, <2>4, PlayWeekPlaced
    <3> QED  BY <1>1, <3>1 DEF PlacedInv, StoredPlaced
  <2>5. CASE (RoomServiceStep(w) \/ GameServiceStep(w)) /\ ~PlayWeek(w)
    <3>1. StoredPlaced(P)' /\ Remembers(local'[w], P)
      <4>1. CASE RoomServiceStep(w)
        BY <2>1, <4>1, RoomServicePlaced
      <4>2. CASE GameServiceStep(w)
        BY <2>1, <2>5, <4>2, StartPlaced, ReadingPlaced, SavingPlaced DEF GameServiceStep
      <4> QED  BY <2>5, <4>1, <4>2
    <3>2. \A v \in Workers : Remembers(local'[v], P)
      BY <2>1, <2>5, <3>1, PlacedStep
    <3> QED  BY <1>1, <3>1, <3>2 DEF PlacedInv, StoredPlaced
  <2> QED  BY <2>2, <2>3, <2>4, <2>5
<1> QED  BY <1>2, <1>3

(* Whatever requests overlap, are repeated or stop half way, a session is  *)
(* finished exactly at its last week and every week in its history was     *)
(* played with an order from every role, each one submitted for that very  *)
(* week (game_service.go SubmitOrder, AdvanceWeek).                        *)
THEOREM OnlyPlaced == PlacedSpec => []OnlyPlacedOrdersPlayed
<1>1. Init /\ placed = {} => Inv /\ PlacedInv
  <2> SUFFICES ASSUME Init, placed = {}  PROVE PlacedInv
    BY InitInv
  <2>1. \A w \in Workers : Remembers(local[w], placed)
    BY DEF Init, NoLocal, Remembers
  <2>2. StoredPlaced(placed)
    BY DEF Init, StoresInit, StoredPlaced, Known
  <2> QED  BY <2>1, <2>2 DEF PlacedInv
<1>2. Inv /\ PlacedInv /\ [Next /\ placed' = placed \cup NewlyPlaced]_<<vars, placed>>
        => Inv' /\ PlacedInv'
  BY NextInv, PlacedInvKept
<1>3. Inv /\ PlacedInv => OnlyPlacedOrdersPlayed
  <2> SUFFICES ASSUME Inv, PlacedInv, NEW sid \in SessionIds, sessions[sid] # NoSession
               PROVE  /\ Len(sessions[sid].History) = sessions[sid].CurrentWeek
                      /\ sessions[sid].Status = "finished" <=> sessions[sid].CurrentWeek = MaxWeeks
                      /\ \A week \in DOMAIN sessions[sid].History, r \in Roles :
                           <<week, r, sessions[sid].History[week][r]>> \in placed
    BY DEF OnlyPlacedOrdersPlayed
  <2>1. GoodSession(sessions[sid]) /\ PlacedAll(sessions[sid], placed)
    BY DEF Inv, SessionInv, PlacedInv, StoredPlaced, Known
  <2>2. \A week \in DOMAIN sessions[sid].History : DOMAIN sessions[sid].History[week] = Roles
    BY <2>1 DEF GoodSession, Session
  <2> QED  BY <2>1, <2>2 DEF GoodSession, PlacedAll, PlacedIn
<1> QED  BY <1>1, <1>2, <1>3, PTL DEF PlacedSpec

-----------------------------------------------------------------------------
(* The errors the transport has a status for. *)
KnownErrors ==
  {"RoomNotFound", "SessionNotFound", "NotFound",
   "BadRequest", "InvalidMaxWeeks", "EmptyPlayerName", "PlayerAlreadyIn", "PlayerNotFound",
   "InvalidRole", "NegativeDecision", "PlayerRoleMissing",
   "RoomFull", "CannotJoinStarted", "RoleAlreadyTaken", "RoomNotReady", "GameAlreadyStarted",
   "WeekNotReady", "SessionNotActive", "WeekLimitReached"}

(* As many orders of a week as there are roles are an order of every role. *)
LEMMA ReadyIsComplete ==
  ASSUME NEW orders \in Orders, weekReady(orders)
  PROVE  DOMAIN orders = Roles /\ \A r \in Roles : orders[r] \in Nat
<1>1. PICK S \in SUBSET Roles : orders \in [S -> OrderChoices \cap Nat]
  BY DEF Orders
<1>2. IsFiniteSet(Roles) /\ Cardinality(S) = Cardinality(Roles) /\ S \subseteq Roles
  BY <1>1, RolesCount DEF weekReady
<1>3. S = Roles
  BY <1>2, FS_Subset
<1> QED  BY <1>1, <1>3

(* The week AdvanceWeek plays is one whose orders the stores have. *)
LEMMA PendingFacts ==
  ASSUME Inv
  PROVE  /\ CurrentSession \in Session
         /\ PendingOrders \in Orders \cup {NoDecisions}
<1>1. GoodSession(CurrentSession)
  BY NewSessionGood DEF Inv, SessionInv, Known, CurrentSession
<1>2. currentPlayableWeek(CurrentSession) \in 1..MaxWeeks
  BY <1>1, PlayableWeek
<1> QED  BY <1>1, <1>2 DEF GoodSession, PendingOrders, Inv, StoresTypeOK

(* Every error a request ends with is one the transport has a status for. *)
LEMMA ErrorKnown ==
  ASSUME Inv, NEW q \in Requests
  PROVE  errorOf(q) \in KnownErrors \cup {"none"}
<1> DEFINE E == KnownErrors \cup {"none"}
<1>1. sessionError \in E
  BY DEF sessionError, KnownErrors
<1>2. \A r, name : AddPlayerError(r, name) \in E
  BY DEF AddPlayerError, KnownErrors
<1>3. \A r, id, role : AssignRoleError(r, id, role) \in E
  BY DEF AssignRoleError, KnownErrors
<1>4. \A known : StartGameError(known) \in E
  BY DEF StartGameError, First, scenarioError, StartError, KnownErrors
<1>5. \A id : SubmitOrderError(id) \in E
  BY DEF SubmitOrderError, First, RoleOfPlayerError, sessionError, KnownErrors
<1>6. \A id : StateError(id) \in E
  BY DEF StateError, sessionError, KnownErrors
<1>7. \A maxWeeks : CreateError(maxWeeks) \in E
  BY DEF CreateError, KnownErrors
<1>8. AdvanceError \in E
  <2>1. weekReady(PendingOrders) => Roles \subseteq DOMAIN PendingOrders
    BY PendingFacts, ReadyIsComplete DEF weekReady
  <2>2. weekReady(PendingOrders) => AdvanceWeekError(CurrentSession, PendingOrders) \in E
    BY <2>1 DEF AdvanceWeekError, KnownErrors
  <2> QED  BY <2>2 DEF AdvanceError, First, sessionError, KnownErrors
<1>9. CASE q \in Unserved
  BY <1>9 DEF errorOf, KnownErrors
<1>10. CASE q \notin Unserved /\ q.op = "create"
  BY <1>7, <1>10 DEF errorOf
<1>11. CASE q \notin Unserved /\ q.op = "submit" /\ ~MaySubmit(q.order)
  BY <1>11 DEF errorOf, KnownErrors
<1>12. CASE q \notin Unserved /\ q.op \notin {"create", "submit"} /\ q \in Gets \ {[op |-> "room"]}
  <2>1. errorOf(q) = sessionError
    BY <1>12 DEF errorOf
  <2> QED  BY <1>1, <2>1
<1>13. CASE /\ q \notin Unserved /\ q.op # "create" /\ ~(q.op = "submit" /\ ~MaySubmit(q.order))
            /\ q \notin Gets \ {[op |-> "room"]}
  <2>1. q.op \in {"join", "assign", "start", "submit", "advance", "state", "room"}
    <3>1. CASE q \in Commands \cup States
      BY <3>1 DEF Commands, Joins, Choices, Starts, Submits, Ends, States
    <3>2. CASE q \in Gets
      BY <1>13, <3>2 DEF Gets
    <3>3. CASE q \in Creates
      BY <1>13, <3>3 DEF Creates
    <3> QED  BY <1>13, <3>1, <3>2, <3>3 DEF Requests
  <2>2. room # NoRoom =>
          errorOf(q) = CASE q.op = "join"    -> AddPlayerError(room, q.name)
                         [] q.op = "assign"  -> AssignRoleError(room, q.player, q.role)
                         [] q.op = "start"   -> StartGameError(q.scenarioKnown)
                         [] q.op = "submit"  -> SubmitOrderError(q.player)
                         [] q.op = "advance" -> AdvanceError
                         [] q.op = "state"   -> StateError(q.player)
                         [] q.op = "room"    -> "none"
    BY <1>13 DEF errorOf
  <2>3. room = NoRoom => errorOf(q) = "RoomNotFound"
    BY <1>13 DEF errorOf
  <2>4. "RoomNotFound" \in E /\ "none" \in E
    BY DEF KnownErrors
  <2> HIDE DEF E
  <2>5. errorOf(q) \in E
    BY <1>2, <1>3, <1>4, <1>5, <1>6, <1>8, <2>1, <2>2, <2>3, <2>4
  <2> QED  BY <2>5 DEF E
<1> QED
  <2>1. q \in Gets => q.op \notin {"create", "submit"}
    BY DEF Gets
  <2> QED  BY <1>9, <1>10, <1>11, <1>12, <1>13, <2>1

(* Nor does what others wrote since a request read the stores lead it to   *)
(* an error of another kind, but for the panic of a StartGame.             *)
LEMMA ErrorAheadKnown ==
  ASSUME Inv, NEW w \in Workers, NEW error \in errorsAhead(local[w])
  PROVE  \/ error \in KnownErrors \cup {"none"}
         \/ /\ error = "panic" /\ local[w].at = "writeRoles"
            /\ ~rolesSuffice(local[w].room, local[w].free)
<1> DEFINE E == KnownErrors \cup {"none"}
           l == local[w]
<1>1. Handler(l, kind, Known)
  BY DEF Inv, Handlers
<1>2. \A r, name : AddPlayerError(r, name) \in E
  BY DEF AddPlayerError, KnownErrors
<1>3. \A r, id, role : AssignRoleError(r, id, role) \in E
  BY DEF AssignRoleError, KnownErrors
<1>4. \A r : StartError(r) \in E
  BY DEF StartError, KnownErrors
<1>5. \A sid : sessionErrorOf(l, sid) \in E
  BY DEF sessionErrorOf, KnownErrors
<1>6. l.at = "getDecisions" =>
        (IF ~weekReady(decisions[l.week]) THEN "WeekNotReady"
         ELSE AdvanceWeekError(l.session, decisions[l.week])) \in E
  <2> SUFFICES ASSUME l.at = "getDecisions"
               PROVE  weekReady(decisions[l.week]) =>
                        AdvanceWeekError(l.session, decisions[l.week]) \in E
    BY DEF KnownErrors
  <2>1. decisions[l.week] \in Orders \cup {NoDecisions}
    <3>1. l.week \in 1..MaxWeeks
      BY <1>1, PlayableWeek DEF Handler
    <3> QED  BY <3>1 DEF Inv, StoresTypeOK
  <2>2. weekReady(decisions[l.week]) => Roles \subseteq DOMAIN decisions[l.week]
    BY <2>1, ReadyIsComplete DEF weekReady
  <2> QED  BY <2>2 DEF AdvanceWeekError, KnownErrors
<1>7. l.at = "haveRoom" => l.op \in {"join", "assign", "start"}
  BY <1>1 DEF Handler
<1> HIDE DEF E
<1>8. error \in errorsAhead(l)
  OBVIOUS
<1> HIDE DEF l
<1>9. l.at = "haveRoom" => error \in E
  <2>1. l.at = "haveRoom" /\ l.op = "join" => error \in E
    BY <1>2, <1>8 DEF errorsAhead
  <2>2. l.at = "haveRoom" /\ l.op = "assign" => error \in E
    BY <1>3, <1>8 DEF errorsAhead
  <2>3. l.at = "haveRoom" /\ l.op = "start" => error \in E
    BY <1>4, <1>8 DEF errorsAhead
  <2> QED  BY <1>7, <2>1, <2>2, <2>3
<1>10. l.at = "writeRoles" => error = "panic" /\ ~rolesSuffice(l.room, l.free)
  <2>1. l.at = "writeRoles" =>
          error \in IF rolesSuffice(l.room, l.free) THEN {} ELSE {"panic"}
    BY <1>8 DEF errorsAhead
  <2> QED  BY <2>1
<1>11. l.at \in {"getRoomSession", "getSession"} => error \in E
  BY <1>5, <1>8 DEF errorsAhead
<1>12. l.at = "getDecisions" => error \in E
  <2>1. l.at = "getDecisions" /\ l.op = "advance" => error \in E
    BY <1>6, <1>8 DEF errorsAhead
  <2>2. l.at = "getDecisions" => l.op = "advance"
    BY <1>8 DEF errorsAhead
  <2> QED  BY <2>1, <2>2
<1>13. l.at \in {"haveRoom", "writeRoles", "getRoomSession", "getSession", "getDecisions"}
  BY <1>8 DEF errorsAhead
<1> QED  BY <1>9, <1>10, <1>11, <1>12, <1>13 DEF E, l

(* No request is answered with "internal server error", neither one that   *)
(* comes nor one under way, however requests overlap or stop; the panic of *)
(* a StartGame excepted (game_session.go AdvanceWeek, server.go            *)
(* writeDomainError).                                                      *)
THEOREM NoInternalError == Spec => []NeverInternalError
<1>1. \A error \in KnownErrors : statusOf(error) # 500
  BY DEF KnownErrors, statusOf
<1>2. Inv => NeverInternalError
  <2>1. ASSUME Inv, NEW q \in Requests  PROVE answer(q) # 500
    BY <1>1, <2>1, ErrorKnown DEF answer
  <2>2. ASSUME Inv, NEW w \in Workers, NEW error \in errorsAhead(local[w]) \ {"none", "panic"}
        PROVE  statusOf(error) # 500
    <3>1. error \in KnownErrors
      BY <2>2, ErrorAheadKnown
    <3> QED  BY <1>1, <3>1
  <2> QED  BY <2>1, <2>2 DEF NeverInternalError
<1> QED  BY <1>2, InductiveInvariant, PTL

-----------------------------------------------------------------------------
(* A game is on its way when its session is saved or about to be.          *)
StartsGame(l) == l.op = "start" /\ l.at = "saveSession"

(* A request that saves a started room saves the session next or has found *)
(* one.                                                                    *)
BringsSession(l, sid) ==
  /\ l.at = "writeRole" => l.room.Status = "waiting"
  /\ l.at = "saveRoom" => \/ l.op = "start" \/ l.room.Status = "waiting"
                          \/ l.op = "advance" /\ sid # NoId

BegunInv ==
  /\ room # NoRoom /\ room.Status # "waiting" =>
       roomSession # NoId \/ \E w \in Workers : StartsGame(local[w])
  /\ \A w \in Workers : BringsSession(local[w], roomSession)

(* Nobody else changes the status of a request's copy of the room. *)
LEMMA OthersStatus ==
  ASSUME Inv, NEW w \in Workers, RoomServiceStep(w) \/ GameServiceStep(w),
         NEW v \in Workers, v # w
  PROVE  local'[v].room.Status = local[v].room.Status
<1>1. local \in [Workers -> Local] /\ local[v] \in Local
  BY DEF Inv
<1>2. ASSUME NEW written, NEW l, ChangePlayers(w, written, l)
      PROVE  local'[v].room.Status = local[v].room.Status
  <2>1. local'[v] = [local[v] EXCEPT !.room = roomSeen(@, written)]
    BY <1>2 DEF ChangePlayers
  <2>2. local'[v].room = roomSeen(local[v].room, written)
    BY <1>1, <2>1 DEF Local
  <2>3. local[v].room \in RoomRecord \cup {NoRoom}
    BY <1>1 DEF Local
  <2> QED  BY <2>2, <2>3 DEF roomSeen, RoomRecord
<1>3. ASSUME NEW l, Continue(w, l)  PROVE local'[v] = local[v]
  BY <1>1, <1>3 DEF Continue
<1>4. CASE PlayWeek(w)
  <2>1. \/ local'[v] = local[v]
        \/ \E s : local'[v] = [local[v] EXCEPT !.session = s]
    BY <1>4 DEF PlayWeek
  <2> QED  BY <1>1, <2>1 DEF Local
<1> QED  BY <1>2, <1>3, <1>4, StepForm

(* What a step of a request leaves of a game that is on its way, apart     *)
(* from the steps that save the room.                                      *)
LEMMA BegunStep ==
  ASSUME Inv, BegunInv, NEW w \in Workers, RoomServiceStep(w) \/ GameServiceStep(w),
         roomSession # NoId => roomSession' # NoId,
         BringsSession(local'[w], roomSession'),
         room' # NoRoom /\ room'.Status # "waiting" =>
           \/ roomSession' # NoId \/ StartsGame(local'[w])
           \/ /\ room # NoRoom /\ room.Status # "waiting" /\ ~StartsGame(local[w])
  PROVE  BegunInv'
<1>1. ASSUME NEW v \in Workers  PROVE BringsSession(local'[v], roomSession')
  <2>1. BringsSession(local[v], roomSession)
    BY DEF BegunInv
  <2> QED  BY <2>1, OthersStand, OthersStatus DEF BringsSession
<1>2. ASSUME room' # NoRoom, room'.Status # "waiting", roomSession' = NoId
      PROVE  \E v \in Workers : StartsGame(local'[v])
  <2>1. CASE StartsGame(local'[w])
    BY <2>1
  <2>2. CASE room # NoRoom /\ room.Status # "waiting" /\ ~StartsGame(local[w])
    <3>1. PICK v \in Workers : StartsGame(local[v])
      BY <1>2, <2>2 DEF BegunInv
    <3>2. StartsGame(local'[v])
      BY <2>2, <3>1, OthersStand DEF StartsGame
    <3> QED  BY <3>2
  <2> QED  BY <1>2, <2>1, <2>2
<1> QED  BY <1>1, <1>2 DEF BegunInv

(* The status of a copy whose players change. *)
LEMMA StatusSeen ==
  ASSUME NEW r \in RoomRecord \cup {NoRoom}, NEW written
  PROVE  /\ roomSeen(r, written).Status = r.Status
         /\ roomSeen(r, written) # NoRoom => r # NoRoom
  BY DEF roomSeen, RoomRecord

(* The requests that read and change a room before it is saved. *)
LEMMA ChangingBegun ==
  ASSUME Inv, BegunInv, NEW w \in Workers,
         \/ CreateRoom(w) \/ \E op \in {"join", "assign", "start"} : ReadRoom(w, op)
         \/ RefuseRoom(w) \/ WriteRole(w) \/ \E name \in Names : JoinRoom(w, name)
         \/ \E id \in PlayerIds, role \in Roles \cup {UnknownRole} : RequestRole(w, id, role)
         \/ StartGame(w) \/ EnsureRoles(w) \/ WriteRoles(w)
  PROVE  BegunInv'
<1>1. /\ local \in [Workers -> Local] /\ local[w] \in Local /\ Handler(local[w], kind, Known)
      /\ room \in RoomRecord \cup {NoRoom} /\ kind \in {"redis", "memory"}
      /\ BringsSession(local[w], roomSession)
  BY StoreKindsAssumption DEF Inv, Handlers, StoresTypeOK, BegunInv
<1>2. ASSUME NEW l, Continue(w, l)  PROVE local'[w] = l
  BY <1>1, <1>2 DEF Continue
<1>3. ASSUME NEW written, NEW l, ChangePlayers(w, written, l)  PROVE local'[w] = l
  BY <1>3 DEF ChangePlayers
<1>4. ~StartsGame(local[w])
  BY DEF CreateRoom, ReadRoom, RefuseRoom, WriteRole, JoinRoom, RequestRole, StartGame,
         EnsureRoles, WriteRoles, hasRoom, idle, StartsGame
<1>5. /\ roomSession' = roomSession
      /\ room' = room \/ \E written : room' = roomSeen(room, written)
  BY DEF CreateRoom, ReadRoom, RefuseRoom, WriteRole, JoinRoom, RequestRole, StartGame,
         EnsureRoles, WriteRoles, Starting, ChangePlayers, storeVars
<1>6. room' # NoRoom => room # NoRoom /\ room'.Status = room.Status
  BY <1>1, <1>5, StatusSeen
<1>7. BringsSession(local'[w], roomSession')
  <2>1. CASE \/ CreateRoom(w) \/ RefuseRoom(w) \/ EnsureRoles(w)
             \/ \E op \in {"join", "assign", "start"} : ReadRoom(w, op)
    <3>1. CASE CreateRoom(w)
      <4>1. local'[w] = [NoLocal EXCEPT !.op = "create", !.at = "saveRoom", !.room = NewRoom]
        BY <1>2, <3>1 DEF CreateRoom
      <4>2. local'[w].at = "saveRoom" /\ local'[w].room = NewRoom
        BY <4>1 DEF NoLocal
      <4> QED  BY <4>2 DEF BringsSession, NewRoom
    <3>2. CASE RefuseRoom(w)
      <4>1. local'[w] = NoLocal
        BY <1>2, <3>2 DEF RefuseRoom, Leave
      <4> QED  BY <4>1 DEF BringsSession, NoLocal
    <3>3. CASE EnsureRoles(w)
      <4>1. local'[w] = [local[w] EXCEPT !.at = "writeRoles",
                                         !.free = availableRoles(local[w].room)]
        BY <1>2, <3>3 DEF EnsureRoles
      <4> QED  BY <1>1, <4>1 DEF BringsSession, Local
    <3>4. ASSUME NEW op, ReadRoom(w, op)  PROVE BringsSession(local'[w], roomSession')
      <4>1. local'[w] = [NoLocal EXCEPT !.op = op, !.at = "haveRoom", !.room = room]
        BY <1>2, <3>4 DEF ReadRoom
      <4> QED  BY <4>1 DEF BringsSession, NoLocal
    <3> QED  BY <2>1, <3>1, <3>2, <3>3, <3>4
  <2>2. CASE WriteRole(w)
    <3>1. local[w].room \in RoomRecord /\ local[w].room.Status = "waiting"
      BY <1>1, <2>2 DEF WriteRole, Handler, HoldsRoom, Local, BringsSession
    <3>2. /\ local'[w].at = "saveRoom"
          /\ local'[w].room = WithRoleAt(local[w].room, local[w].seat, local[w].role)
      BY <2>2 DEF WriteRole, ChangePlayers, NoLocal
    <3> QED  BY <3>1, <3>2 DEF BringsSession, WithRoleAt, RoomRecord
  <2>3. ASSUME NEW name \in Names, JoinRoom(w, name)  PROVE BringsSession(local'[w], roomSession')
    <3>1. roomOf(w) \in RoomRecord /\ roomOf(w).Status = "waiting"
      BY <1>1, <2>3 DEF JoinRoom, hasRoom, roomOf, MayAddPlayer, Handler, HoldsRoom, Local
    <3>2. PICK id \in PlayerIds \ issued :
            ChangePlayers(w, AddPlayer(roomOf(w), id, name),
              [NoLocal EXCEPT !.op = "join", !.at = "saveRoom",
                              !.room = AddPlayer(roomOf(w), id, name), !.player = id])
      BY <2>3, Zenon DEF JoinRoom
    <3>3. local'[w] = [NoLocal EXCEPT !.op = "join", !.at = "saveRoom",
                                      !.room = AddPlayer(roomOf(w), id, name), !.player = id]
      BY <1>3, <3>2
    <3>4. local'[w].at = "saveRoom" /\ local'[w].room = AddPlayer(roomOf(w), id, name)
      BY <3>3 DEF NoLocal
    <3> QED  BY <3>1, <3>4 DEF BringsSession, AddPlayer, RoomRecord
  <2>4. ASSUME NEW id \in PlayerIds, NEW role \in Roles \cup {UnknownRole}, RequestRole(w, id, role)
        PROVE  BringsSession(local'[w], roomSession')
    <3>1. CASE kind = "memory"
      <4>1. local[w].room.Status = "waiting"
        BY <2>4, <3>1 DEF RequestRole, roomOf, MayAssignRole
      <4>2. local'[w] = [local[w] EXCEPT !.at = "writeRole", !.role = role,
                                         !.seat = PlayerIndex(roomOf(w), id)]
        BY <1>2, <2>4, <3>1 DEF RequestRole
      <4> QED  BY <1>1, <4>1, <4>2 DEF BringsSession, Local
    <3>2. CASE kind # "memory"
      <4>1. room \in RoomRecord /\ room.Status = "waiting"
        BY <1>1, <2>4, <3>2 DEF RequestRole, hasRoom, roomOf, MayAssignRole
      <4>2. local'[w].at = "saveRoom" /\ local'[w].room = AssignRole(room, id, role)
        BY <1>2, <2>4, <3>2 DEF RequestRole, NoLocal
      <4> QED  BY <4>1, <4>2 DEF BringsSession, AssignRole, WithRoleAt, RoomRecord
    <3> QED  BY <3>1, <3>2
  <2>5. CASE StartGame(w) \/ WriteRoles(w)
    <3>1. ASSUME NEW r, Starting(w, r)  PROVE BringsSession(local'[w], roomSession')
      <4>1. PICK sid \in SessionIds \ issued :
              ChangePlayers(w, r, [NoLocal EXCEPT !.op = "start", !.at = "saveRoom",
                                                  !.room = Started(r), !.sid = sid,
                                                  !.session = NewGameSession])
        BY <3>1 DEF Starting
      <4>2. local'[w] = [NoLocal EXCEPT !.op = "start", !.at = "saveRoom",
                                        !.room = Started(r), !.sid = sid,
                                        !.session = NewGameSession]
        BY <1>3, <4>1
      <4>3. local'[w].at = "saveRoom" /\ local'[w].op = "start"
        BY <4>2 DEF NoLocal
      <4> QED  BY <4>3 DEF BringsSession
    <3>2. \/ \E r : Starting(w, r) \/ ChangePlayers(w, r, NoLocal)
      BY <2>5 DEF StartGame, WriteRoles
    <3>3. ASSUME NEW r, ChangePlayers(w, r, NoLocal)  PROVE BringsSession(local'[w], roomSession')
      BY <1>3, <3>3 DEF BringsSession, NoLocal
    <3> QED  BY <3>1, <3>2, <3>3
  <2> QED  BY <2>1, <2>2, <2>3, <2>4, <2>5
<1> QED  BY <1>4, <1>5, <1>6, <1>7, BegunStep DEF RoomServiceStep, GameServiceStep

(* The requests to a game that read it, or save its orders, leave the room *)
(* and write to it in no next step.                                        *)
Playing(w) ==
  \/ \E id \in PlayerIds, order \in OrderChoices : SubmitOrder(w, id, order)
  \/ AdvanceWeek(w) \/ GetRoomSession(w) \/ GetSession(w)
  \/ SubmitGetDecisions(w) \/ SaveDecisions(w) \/ AdvanceGetDecisions(w)
  \/ PlayWeek(w) \/ DeleteDecisions(w) \/ AnswerRoom(w) \/ AnswerGame(w)
(* Each of those requests, step by step. *)
LEMMA PlayingPlaces ==
  ASSUME Inv, NEW w \in Workers, Playing(w)
  PROVE  room' = room /\ local'[w].at \notin {"writeRole", "writeRoles", "saveRoom"}
<1>1. local \in [Workers -> Local] /\ local[w] \in Local /\ Handler(local[w], kind, Known)
  BY DEF Inv, Handlers
<1>2. ASSUME NEW l, Continue(w, l)  PROVE local'[w] = l
  BY <1>1, <1>2 DEF Continue
<1>3. NoLocal.at = "idle"
  BY DEF NoLocal
<1>4. room' = room
  BY DEF Playing, SubmitOrder, AdvanceWeek, GetRoomSession, GetSession, SubmitGetDecisions,
         SaveDecisions, AdvanceGetDecisions, PlayWeek, DeleteDecisions, AnswerRoom, AnswerGame,
         DecisionStoreSave, DecisionStoreDelete, PublishRoomEvent, storeVars
<1> SUFFICES local'[w].at \notin {"writeRole", "writeRoles", "saveRoom"}
  BY <1>4
<1>5. CASE PlayWeek(w)
  <2>1. local'[w] = AfterWeek(local[w], SessionAdvanceWeek(local[w].session, local[w].orders))
    BY <1>5 DEF PlayWeek
  <2> QED  BY <1>1, <2>1 DEF AfterWeek, Local
<1>6. CASE \/ \E id \in PlayerIds, order \in OrderChoices : SubmitOrder(w, id, order)
           \/ AdvanceWeek(w)
  <2>1. \/ \E role, order : local'[w] = [NoLocal EXCEPT !.op = "submit", !.at = "getRoomSession",
                                                       !.role = role, !.order = order]
        \/ local'[w] = [NoLocal EXCEPT !.op = "advance", !.at = "getRoomSession", !.room = room]
    BY <1>2, <1>6 DEF SubmitOrder, AdvanceWeek
  <2> QED  BY <2>1 DEF NoLocal
<1>7. CASE DeleteDecisions(w) \/ AnswerRoom(w) \/ AnswerGame(w)
  <2>1. \/ local'[w] = [NoLocal EXCEPT !.op = "advance", !.at = "publish"]
        \/ local'[w] = NoLocal
    BY <1>2, <1>7 DEF DeleteDecisions, AnswerRoom, AnswerGame, Leave
  <2>2. [NoLocal EXCEPT !.op = "advance", !.at = "publish"].at = "publish"
    BY DEF NoLocal
  <2> QED  BY <1>3, <2>1, <2>2
<1>8. CASE GetRoomSession(w) \/ GetSession(w)
  <2>1. ASSUME NEW l \in Local, SessionFound(w, l)
        PROVE  local'[w].at \notin {"writeRole", "writeRoles", "saveRoom"}
    <3>1. \/ local'[w] = NoLocal
          \/ local'[w] = [l EXCEPT !.at = "getDecisions", !.session = sessions[l.sid],
                                   !.week = currentPlayableWeek(sessions[l.sid])]
      BY <1>2, <2>1 DEF SessionFound, Leave
    <3>2. [l EXCEPT !.at = "getDecisions", !.session = sessions[l.sid],
                    !.week = currentPlayableWeek(sessions[l.sid])].at = "getDecisions"
      BY DEF Local
    <3> QED  BY <1>3, <3>1, <3>2
  <2>2. [local[w] EXCEPT !.sid = roomSession] \in Local
    BY <1>1 DEF Local, Inv, StoresTypeOK
  <2>3. \/ local'[w] = NoLocal
        \/ SessionFound(w, [local[w] EXCEPT !.sid = roomSession])
        \/ SessionFound(w, local[w])
        \/ local'[w] = [[local[w] EXCEPT !.sid = roomSession] EXCEPT !.at = "getSession"]
    BY <1>2, <1>8 DEF GetRoomSession, GetSession, Leave
  <2>4. [[local[w] EXCEPT !.sid = roomSession] EXCEPT !.at = "getSession"].at = "getSession"
    BY <2>2 DEF Local
  <2> QED  BY <1>1, <1>3, <2>1, <2>2, <2>3, <2>4
<1>9. CASE SubmitGetDecisions(w)
  <2>1. \E orders : local'[w] = [local[w] EXCEPT !.at = "saveDecisions", !.session = NoSession,
                                                !.orders = orders]
    BY <1>2, <1>9 DEF SubmitGetDecisions
  <2> QED  BY <1>1, <2>1 DEF Local
<1>10. CASE SaveDecisions(w)
  <2>1. local'[w] = [local[w] EXCEPT !.at = "publish", !.orders = NoDecisions, !.order = 0]
    BY <1>2, <1>10 DEF SaveDecisions
  <2> QED  BY <1>1, <2>1 DEF Local
<1>11. CASE AdvanceGetDecisions(w)
  <2>1. \/ local'[w] = NoLocal
        \/ \E orders : local'[w] = [local[w] EXCEPT !.at = "playWeek", !.orders = orders]
        \/ \E next : local'[w] = AfterWeek(local[w], next)
    BY <1>2, <1>11 DEF AdvanceGetDecisions, Leave
  <2>2. \A orders : [local[w] EXCEPT !.at = "playWeek", !.orders = orders].at = "playWeek"
    BY <1>1 DEF Local
  <2>3. \A next : AfterWeek(local[w], next).at = "saveSession"
    BY <1>1 DEF AfterWeek, Local
  <2> QED  BY <1>3, <2>1, <2>2, <2>3
<1> QED  BY <1>4, <1>5, <1>6, <1>7, <1>8, <1>9, <1>10, <1>11 DEF Playing

(* Nor do they end a game that is on its way. *)
LEMMA PlayingBegun ==
  ASSUME Inv, BegunInv, NEW w \in Workers, Playing(w)
  PROVE  BegunInv'
<1>1. room' = room /\ local'[w].at \notin {"writeRole", "saveRoom"}
  BY PlayingPlaces
<1>2. roomSession' = roomSession
  BY DEF Playing, SubmitOrder, AdvanceWeek, GetRoomSession, GetSession, SubmitGetDecisions,
         SaveDecisions, AdvanceGetDecisions, PlayWeek, DeleteDecisions, AnswerRoom, AnswerGame,
         DecisionStoreSave, DecisionStoreDelete, PublishRoomEvent, storeVars
<1>3. ~StartsGame(local[w])
  BY DEF Playing, SubmitOrder, AdvanceWeek, GetRoomSession, GetSession, SubmitGetDecisions,
         SaveDecisions, AdvanceGetDecisions, PlayWeek, DeleteDecisions, AnswerRoom, AnswerGame,
         idle, StartsGame
<1>4. RoomServiceStep(w) \/ GameServiceStep(w)
  BY DEF Playing, RoomServiceStep, GameServiceStep
<1> QED  BY <1>1, <1>2, <1>3, <1>4, BegunStep DEF BringsSession

(* The steps that save the room or the session. *)
LEMMA SavingBegun ==
  ASSUME Inv, BegunInv, NEW w \in Workers,
         \/ SaveRoom(w) \/ StartSaveRoom(w) \/ StartSaveSession(w)
         \/ AdvanceSaveSession(w) \/ AdvanceSaveRoom(w)
  PROVE  BegunInv'
<1>1. /\ local \in [Workers -> Local] /\ local[w] \in Local
      /\ Handler(local[w], kind, Known) /\ BringsSession(local[w], roomSession)
  BY DEF Inv, Handlers, BegunInv
<1>2. ASSUME NEW l, Continue(w, l)  PROVE local'[w] = l
  BY <1>1, <1>2 DEF Continue
<1>3. CASE SaveRoom(w)
  <2>1. /\ local'[w] = [local[w] EXCEPT !.at = "publish", !.room = NoRoom]
        /\ room' = local[w].room /\ roomSession' = roomSession
    BY <1>2, <1>3 DEF SaveRoom, RoomStoreSave
  <2>2. room'.Status = "waiting"
    BY <1>1, <1>3, <2>1 DEF SaveRoom, BringsSession
  <2>3. BringsSession(local'[w], roomSession')
    BY <1>1, <2>1 DEF BringsSession, Local
  <2> QED  BY <1>3, <2>1, <2>2, <2>3, BegunStep DEF RoomServiceStep
<1>4. CASE StartSaveRoom(w)
  <2>1. /\ local'[w] = [local[w] EXCEPT !.at = "saveSession", !.room = NoRoom]
        /\ local[w].op = "start" /\ roomSession' = roomSession
    BY <1>2, <1>4 DEF StartSaveRoom, RoomStoreSave
  <2>2. StartsGame(local'[w]) /\ BringsSession(local'[w], roomSession')
    BY <1>1, <2>1 DEF StartsGame, BringsSession, Local
  <2> QED  BY <1>4, <2>1, <2>2, BegunStep DEF GameServiceStep
<1>5. CASE StartSaveSession(w) \/ AdvanceSaveSession(w)
  <2>1. roomSession' = local[w].sid /\ local[w].sid \in SessionIds
    BY <1>1, <1>5 DEF StartSaveSession, AdvanceSaveSession, SessionStoreSave, Handler
  <2>2. roomSession' # NoId
    BY <2>1, NullAssumption
  <2>3. \/ local'[w] = [NoLocal EXCEPT !.op = "start", !.at = "publish"]
        \/ /\ local'[w] = [local[w] EXCEPT !.at = "saveRoom", !.session = NoSession]
           /\ local[w].op = "advance"
    BY <1>2, <1>5 DEF StartSaveSession, AdvanceSaveSession
  <2>4. BringsSession(local'[w], roomSession')
    BY <1>1, <2>2, <2>3 DEF BringsSession, NoLocal, Local
  <2> QED  BY <1>5, <2>2, <2>4, BegunStep DEF GameServiceStep
<1>6. CASE AdvanceSaveRoom(w)
  <2>1. /\ local'[w] = [local[w] EXCEPT !.at = "deleteDecisions", !.room = NoRoom]
        /\ room' = local[w].room /\ roomSession' = roomSession
    BY <1>2, <1>6 DEF AdvanceSaveRoom, RoomStoreSave
  <2>2. room'.Status = "waiting" \/ roomSession' # NoId
    BY <1>1, <1>6, <2>1 DEF AdvanceSaveRoom, BringsSession
  <2>3. BringsSession(local'[w], roomSession')
    BY <1>1, <2>1 DEF BringsSession, Local
  <2> QED  BY <1>6, <2>1, <2>2, <2>3, BegunStep DEF GameServiceStep
<1> QED  BY <1>3, <1>4, <1>5, <1>6

(* As long as no request stops half way, a started room has a session or   *)
(* is about to have one.                                                   *)
LEMMA BegunKept ==
  ASSUME ~Failures
  PROVE  /\ Init => BegunInv
         /\ Inv /\ BegunInv /\ [Next]_vars => BegunInv'
<1>1. Init => BegunInv
  BY DEF Init, StoresInit, BegunInv, BringsSession, NoLocal
<1>2. ASSUME Inv, BegunInv, UNCHANGED vars  PROVE BegunInv'
  BY <1>2 DEF BegunInv, vars, storeVars
<1>3. ASSUME Inv, BegunInv, NEW w \in Workers, RoomServiceStep(w) \/ GameServiceStep(w)
      PROVE  BegunInv'
  BY <1>3, ChangingBegun, PlayingBegun, SavingBegun DEF Playing, RoomServiceStep, GameServiceStep
<1> QED  BY <1>1, <1>2, <1>3 DEF Next, Abort

(* The names players type do not run out before the seats do. *)
EnoughNames ==
  \A used : IsFiniteSet(used) /\ Cardinality(used) < Len(AllRoles) =>
    \E name \in Names : name # EmptyName /\ name \notin used

(* Somebody is left to join a room with a free seat. *)
LEMMA NameLeft ==
  ASSUME EnoughNames, NEW r \in RoomRecord, Len(r.Players) < Len(AllRoles)
  PROVE  \E name \in Names : name # EmptyName /\ \A i \in DOMAIN r.Players : r.Players[i].Name # name
<1> DEFINE n == Len(r.Players)
           f == [i \in 1..n |-> r.Players[i].Name]
           used == {r.Players[i].Name : i \in 1..n}
<1>1. n \in Nat /\ DOMAIN r.Players = 1..n /\ Len(AllRoles) \in Nat
  BY RolesAssumption DEF RoomRecord
<1>2. IsFiniteSet(1..n) /\ Cardinality(1..n) = n
  BY <1>1, PositionsFinite
<1>3. f \in Surjection(1..n, used)
  BY DEF Surjection
<1>4. IsFiniteSet(used) /\ Cardinality(used) <= n
  BY <1>2, <1>3, FS_Surjection
<1>5. Cardinality(used) \in Nat /\ n < Len(AllRoles)
  BY <1>4, FS_CardinalityType
<1>6. Cardinality(used) < Len(AllRoles)
  BY <1>1, <1>4, <1>5
<1>7. PICK name \in Names : name # EmptyName /\ name \notin used
  BY <1>4, <1>6 DEF EnoughNames
<1> QED  BY <1>1, <1>7

(* In a full room either every role is somebody's own, or one is free. *)
LEMMA RoleLeft ==
  ASSUME NEW r \in RoomRecord, Len(r.Players) = Len(AllRoles), ~RolesDistinct(r)
  PROVE  \E role \in Roles : \A i \in DOMAIN r.Players : r.Players[i].Role # role
<1> SUFFICES ASSUME \A role \in Roles : \E i \in DOMAIN r.Players : r.Players[i].Role = role
             PROVE  FALSE
  OBVIOUS
<1> DEFINE n == Len(r.Players)
           f == [i \in 1..n |-> r.Players[i].Role]
           T == {r.Players[i].Role : i \in 1..n}
<1>1. n \in Nat /\ DOMAIN r.Players = 1..n
  BY DEF RoomRecord
<1>2. IsFiniteSet(1..n) /\ Cardinality(1..n) = n
  BY <1>1, PositionsFinite
<1>3. IsFiniteSet(Roles) /\ Cardinality(Roles) = n
  BY RolesCount
<1>4. T = Roles \/ T = Roles \cup {NoRole}
  <2>1. \A i \in 1..n : r.Players[i].Role \in Roles \cup {NoRole}
    <3>1. \A i \in 1..n : r.Players[i] \in Player
      BY <1>1 DEF RoomRecord
    <3> QED  BY <3>1 DEF Player
  <2> QED  BY <1>1, <2>1
<1>5. f \in Surjection(1..n, T)
  BY DEF Surjection
<1>6. Cardinality(T) <= n
  BY <1>2, <1>5, FS_Surjection
<1>7. T = Roles
  <2>1. NoRole \notin Roles
    BY RolesAssumption
  <2>2. Cardinality(Roles \cup {NoRole}) = n + 1
    BY <1>3, <2>1, FS_AddElement
  <2>3. T # Roles \cup {NoRole}
    <3> HIDE DEF T
    <3> SUFFICES ASSUME T = Roles \cup {NoRole}  PROVE FALSE
      OBVIOUS
    <3>1. Cardinality(T) = n + 1
      BY <2>2
    <3> HIDE DEF n
    <3> QED  BY <1>1, <1>6, <3>1
  <2> QED  BY <1>4, <2>3
<1>8. f \in Injection(1..n, T)
  BY <1>2, <1>3, <1>5, <1>7, FS_Surjection
<1>9. \A i, j \in 1..n : f[i] = f[j] => i = j
  BY <1>8 DEF Injection, IsInjective
<1> QED  BY <1>1, <1>9 DEF RolesDistinct

(* A request that meets no error is answered with success. *)
LEMMA NoErrorAccepted ==
  ASSUME NEW q, errorOf(q) = "none"  PROVE accepted(q)
  BY DEF accepted, answer

(* The errors of the five commands. *)
LEMMA CommandErrors ==
  ASSUME room # NoRoom
  PROVE  /\ \A name : errorOf([op |-> "join", name |-> name]) = AddPlayerError(room, name)
         /\ \A id, role : errorOf([op |-> "assign", player |-> id, role |-> role])
                            = AssignRoleError(room, id, role)
         /\ \A known : errorOf([op |-> "start", scenarioKnown |-> known]) = StartGameError(known)
         /\ \A id, order : MaySubmit(order) =>
              errorOf([op |-> "submit", player |-> id, order |-> order]) = SubmitOrderError(id)
         /\ errorOf([op |-> "advance"]) = AdvanceError
<1>1. ASSUME NEW q, q.op \in {"join", "assign", "start", "submit", "advance"}
      PROVE  q \notin Unserved /\ q \notin Gets
  BY <1>1 DEF Unserved, Gets
<1>2. ASSUME NEW q, q.op \in {"join", "assign", "start", "submit", "advance"},
             q.op = "submit" => MaySubmit(q.order)
      PROVE  errorOf(q) = CASE q.op = "join"    -> AddPlayerError(room, q.name)
                            [] q.op = "assign"  -> AssignRoleError(room, q.player, q.role)
                            [] q.op = "start"   -> StartGameError(q.scenarioKnown)
                            [] q.op = "submit"  -> SubmitOrderError(q.player)
                            [] q.op = "advance" -> AdvanceError
                            [] q.op = "state"   -> StateError(q.player)
                            [] q.op = "room"    -> "none"
  BY <1>1, <1>2 DEF errorOf
<1>3. ASSUME NEW name  PROVE errorOf([op |-> "join", name |-> name]) = AddPlayerError(room, name)
  <2> DEFINE q == [op |-> "join", name |-> name]
  <2>1. q.op = "join" /\ q.name = name
    OBVIOUS
  <2> HIDE DEF q
  <2>2. errorOf(q) = AddPlayerError(room, name)
    BY <1>2, <2>1
  <2> QED  BY <2>2 DEF q
<1>4. ASSUME NEW id, NEW role
      PROVE  errorOf([op |-> "assign", player |-> id, role |-> role]) = AssignRoleError(room, id, role)
  <2> DEFINE q == [op |-> "assign", player |-> id, role |-> role]
  <2>1. q.op = "assign" /\ q.player = id /\ q.role = role
    OBVIOUS
  <2> HIDE DEF q
  <2>2. errorOf(q) = AssignRoleError(room, id, role)
    BY <1>2, <2>1
  <2> QED  BY <2>2 DEF q
<1>5. ASSUME NEW known
      PROVE  errorOf([op |-> "start", scenarioKnown |-> known]) = StartGameError(known)
  <2> DEFINE q == [op |-> "start", scenarioKnown |-> known]
  <2>1. q.op = "start" /\ q.scenarioKnown = known
    OBVIOUS
  <2> HIDE DEF q
  <2>2. errorOf(q) = StartGameError(known)
    BY <1>2, <2>1
  <2> QED  BY <2>2 DEF q
<1>6. ASSUME NEW id, NEW order, MaySubmit(order)
      PROVE  errorOf([op |-> "submit", player |-> id, order |-> order]) = SubmitOrderError(id)
  <2> DEFINE q == [op |-> "submit", player |-> id, order |-> order]
  <2>1. q.op = "submit" /\ q.player = id /\ q.order = order
    OBVIOUS
  <2> HIDE DEF q
  <2>2. errorOf(q) = SubmitOrderError(id)
    BY <1>2, <1>6, <2>1
  <2> QED  BY <2>2 DEF q
<1>7. errorOf([op |-> "advance"]) = AdvanceError
  <2> DEFINE q == [op |-> "advance"]
  <2>1. q.op = "advance"
    OBVIOUS
  <2> HIDE DEF q
  <2>2. errorOf(q) = AdvanceError
    BY <1>2, <2>1
  <2> QED  BY <2>2 DEF q
<1> QED  BY <1>3, <1>4, <1>5, <1>6, <1>7

(* Complete orders let an active session play its week. *)
LEMMA CompleteAdvances ==
  ASSUME Inv, roomSession # NoId, CurrentSession.Status = "active",
         PendingOrders # NoDecisions, Roles \subseteq DOMAIN PendingOrders
  PROVE  AdvanceError = "none"
<1>1. CurrentSession = sessions[roomSession] /\ GoodSession(CurrentSession)
  BY DEF CurrentSession, Inv, SessionInv
<1>2. CurrentSession.CurrentWeek \in Nat /\ CurrentSession.CurrentWeek < MaxWeeks
  BY <1>1, MaxWeeksAssumption DEF GoodSession, Session
<1>3. PICK S \in SUBSET Roles : PendingOrders \in [S -> OrderChoices \cap Nat]
  BY PendingFacts DEF Orders
<1>4. S = Roles
  BY <1>3
<1>5. weekReady(PendingOrders)
  BY <1>3, <1>4, RolesCount DEF weekReady
<1>6. AdvanceWeekError(CurrentSession, PendingOrders) = "none"
  BY <1>2, <1>3, <1>4, MaxWeeksAssumption DEF AdvanceWeekError
<1> QED  BY <1>5, <1>6 DEF AdvanceError, First, sessionError

(* The role of a player of a legal room. *)
LEMMA RoleFound ==
  ASSUME NEW r, Legal(r), NEW i \in DOMAIN r.Players
  PROVE  RoleOfPlayer(r, r.Players[i].ID) = r.Players[i].Role
  BY PlayerIndexFacts DEF RoleOfPlayer

(* When a game is not over, somebody can do something for it. *)
LEMMA GoesOn ==
  ASSUME Inv, BegunInv, EnoughNames, Roles # {}, OrderChoices \cap Nat # {}
  PROVE  GameGoesOn
<1> SUFFICES ASSUME Quiet, room # NoRoom, room.Status # "waiting" => UsedRoles(room) = Roles,
                    CurrentSession.Status # "finished"
             PROVE  \E q \in Commands : accepted(q) /\ bringsFurther(q)
  BY DEF GameGoesOn
<1>1. /\ room \in RoomRecord /\ Legal(room) /\ Len(room.Players) <= Len(AllRoles)
      /\ DOMAIN room.Players = 1..Len(room.Players) /\ Len(room.Players) \in Nat
      /\ Len(AllRoles) \in Nat
      /\ \A i \in DOMAIN room.Players : room.Players[i] \in Player
  <2>1. room \in RoomRecord /\ Legal(room)
    BY CopyFacts DEF Legal
  <2> QED  BY <2>1, RolesAssumption DEF Legal, WellFormed, RoomRecord
<1>2. CASE room.Status = "waiting" /\ Len(room.Players) < Len(AllRoles)
  <2>1. PICK name \in Names : name # EmptyName /\ \A i \in DOMAIN room.Players : room.Players[i].Name # name
    BY <1>1, <1>2, NameLeft
  <2>2. AddPlayerError(room, name) = "none"
    BY <1>1, <1>2, <2>1 DEF AddPlayerError
  <2>3. accepted([op |-> "join", name |-> name])
    BY <2>2, CommandErrors, NoErrorAccepted
  <2>4. [op |-> "join", name |-> name] \in Commands
    BY DEF Commands, Joins
  <2>5. bringsFurther([op |-> "join", name |-> name])
    BY DEF bringsFurther
  <2> QED  BY <2>3, <2>4, <2>5
<1>3. CASE /\ room.Status = "waiting" /\ Len(room.Players) = Len(AllRoles)
           /\ RolesDistinct(room)
  <2>1. StartGameError(TRUE) = "none"
    BY <1>3 DEF StartGameError, First, scenarioError, StartError
  <2>2. accepted([op |-> "start", scenarioKnown |-> TRUE])
    BY <2>1, CommandErrors, NoErrorAccepted
  <2>3. [op |-> "start", scenarioKnown |-> TRUE] \in Commands
    BY DEF Commands, Starts
  <2>4. bringsFurther([op |-> "start", scenarioKnown |-> TRUE])
    BY DEF bringsFurther
  <2> QED  BY <2>2, <2>3, <2>4
<1>4. CASE /\ room.Status = "waiting" /\ Len(room.Players) = Len(AllRoles)
           /\ ~RolesDistinct(room)
  <2>1. PICK role \in Roles : \A i \in DOMAIN room.Players : room.Players[i].Role # role
    BY <1>1, <1>4, RoleLeft
  <2>2. PICK i \in DOMAIN room.Players : TRUE
    BY <1>4 DEF RolesDistinct
  <2> DEFINE id == room.Players[i].ID
             q == [op |-> "assign", player |-> id, role |-> role]
  <2>3. id \in PlayerIds
    BY <1>1, <2>2 DEF Player
  <2>4. AssignRoleError(room, id, role) = "none"
    BY <1>4, <2>1, <2>2 DEF AssignRoleError, InRoom
  <2>5. accepted(q)
    BY <2>4, CommandErrors, NoErrorAccepted
  <2>6. q \in Commands
    BY <2>3 DEF Commands, Choices
  <2>7. role \notin taken(room)
    BY <2>1 DEF taken, UsedRoles
  <2>8. bringsFurther(q)
    BY <2>7 DEF bringsFurther
  <2> QED  BY <2>5, <2>6, <2>8
<1>5. CASE room.Status # "waiting"
  <2>1. roomSession # NoId
    BY <1>5 DEF BegunInv, StartsGame, Quiet, idle
  <2>2. CurrentSession.Status = "active"
    BY PendingFacts DEF Session
  <2>3. CASE PendingOrders # NoDecisions /\ Roles \subseteq DOMAIN PendingOrders
    <3>1. AdvanceError = "none"
      BY <2>1, <2>2, <2>3, CompleteAdvances
    <3>2. accepted([op |-> "advance"])
      BY <3>1, CommandErrors, NoErrorAccepted
    <3>3. [op |-> "advance"] \in Commands /\ bringsFurther([op |-> "advance"])
      BY DEF Commands, Ends, bringsFurther
    <3> QED  BY <3>2, <3>3
  <2>4. CASE PendingOrders = NoDecisions \/ ~(Roles \subseteq DOMAIN PendingOrders)
    <3>1. PICK role \in Roles : PendingOrders # NoDecisions => role \notin DOMAIN PendingOrders
      BY <2>4
    <3>2. PICK i \in DOMAIN room.Players : room.Players[i].Role = role
      BY <1>5 DEF UsedRoles
    <3>3. PICK order \in OrderChoices : order \in Nat
      OBVIOUS
    <3> DEFINE id == room.Players[i].ID
               q == [op |-> "submit", player |-> id, order |-> order]
    <3>4. id \in PlayerIds
      BY <1>1, <3>2 DEF Player
    <3>5. RoleOfPlayer(room, id) = role /\ role # NoRole /\ InRoom(room, id)
      BY <1>1, <3>2, RoleFound, RolesAssumption DEF InRoom
    <3>6. SubmitOrderError(id) = "none"
      BY <2>1, <2>2, <3>5 DEF SubmitOrderError, First, RoleOfPlayerError, sessionError
    <3>7. MaySubmit(order)
      BY <3>3 DEF MaySubmit
    <3>8. accepted(q)
      BY <3>6, <3>7, CommandErrors, NoErrorAccepted
    <3>9. q \in Commands
      BY <3>4 DEF Commands, Submits
    <3>10. bringsFurther(q)
      <4>1. q.op = "submit" /\ q.player = id
        OBVIOUS
      <4> QED  BY <3>1, <3>5, <4>1 DEF bringsFurther
    <3> QED  BY <3>8, <3>9, <3>10
  <2> QED  BY <2>3, <2>4
<1> QED  BY <1>1, <1>2, <1>3, <1>4, <1>5

(* As long as no request stops half way, however requests overlap, nobody  *)
(* waits for ever: as long as the game is not over, a request that brings  *)
(* it further is answered with success.                                    *)
THEOREM NobodyStuck ==
  ASSUME ~Failures, EnoughNames, Roles # {}, OrderChoices \cap Nat # {}
  PROVE  Spec => []GameGoesOn
  BY InductiveInvariant, BegunKept, GoesOn, PTL DEF Spec
=============================================================================
