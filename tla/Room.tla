-------------------------------- MODULE Room --------------------------------
(***************************************************************************)
(* The room of internal/domain/room.go as operators on room records: for   *)
(* every method one operator for the checks that must pass (a failed check *)
(* is an error and changes nothing) and one for the record it leaves.      *)
(* Four roles are fixed in the code, where every test compares with        *)
(* len(AllRoles); here AllRoles is a parameter, so that small rooms can be *)
(* model-checked.  Identifier, timestamps, Connected and MaxWeeks, which   *)
(* never change what a method does, are left out.                          *)
(***************************************************************************)
EXTENDS Integers, Sequences, FiniteSets

CONSTANTS AllRoles,     \* the roles, as a sequence
          NoRole,       \* the empty role of a player who has not chosen
          UnknownRole,  \* any text that names no role
          PlayerIds,    \* the identifiers NewID can produce for players
          Names,        \* the names players type, EmptyName among them
          EmptyName

Roles == {AllRoles[i] : i \in 1..Len(AllRoles)}

ASSUME RolesAssumption ==
  /\ AllRoles \in Seq(Roles)
  /\ \A i, j \in 1..Len(AllRoles) : AllRoles[i] = AllRoles[j] => i = j
  /\ NoRole \notin Roles /\ UnknownRole \notin Roles \cup {NoRole}

Player == [ID : PlayerIds, Name : Names, Role : Roles \cup {NoRole}]
RoomRecord == [Status : {"waiting", "active", "finished"},
               CurrentWeek : Nat,
               Players : Seq(Player)]

-----------------------------------------------------------------------------
NewRoom == [Status |-> "waiting", CurrentWeek |-> 0, Players |-> <<>>]

MayAddPlayer(r, name) ==
  /\ name # EmptyName
  /\ r.Status = "waiting"
  /\ Len(r.Players) < Len(AllRoles)
  /\ \A i \in DOMAIN r.Players : r.Players[i].Name # name

AddPlayer(r, id, name) ==
  [r EXCEPT !.Players = Append(@, [ID |-> id, Name |-> name, Role |-> NoRole])]

M_mayTakeAnyRole(r, id, role) ==
  /\ r.Status = "waiting" /\ role \in Roles
  /\ \E i \in DOMAIN r.Players : r.Players[i].ID = id
MayAssignRole(r, id, role) ==
  /\ r.Status = "waiting"
  /\ role \in Roles
  /\ \A i \in DOMAIN r.Players :
       r.Players[i].ID # id => r.Players[i].Role # role
  /\ \E i \in DOMAIN r.Players : r.Players[i].ID = id

PlayerIndex(r, id) == CHOOSE i \in DOMAIN r.Players : r.Players[i].ID = id
WithRoleAt(r, i, role) == [r EXCEPT !.Players[i].Role = role]
AssignRole(r, id, role) == WithRoleAt(r, PlayerIndex(r, id), role)

(* EnsureRolesAssigned: the players without a role, in the order they      *)
(* joined, get the roles nobody took, in the order of AllRoles.            *)
UsedRoles(r) == {r.Players[i].Role : i \in DOMAIN r.Players} \ {NoRole}
NthOf(S, n) == CHOOSE i \in S : Cardinality({j \in S : j <= i}) = n
M_rolesAfterTaken(r) ==
  LET free == {i \in 1..Len(AllRoles) :
                 \A j \in i..Len(AllRoles) : AllRoles[j] \notin UsedRoles(r)}
  IN  [n \in 1..Cardinality(free) |-> AllRoles[NthOf(free, n)]]
availableRoles(r) ==
  LET free == {i \in 1..Len(AllRoles) : AllRoles[i] \notin UsedRoles(r)}
  IN  [n \in 1..Cardinality(free) |-> AllRoles[NthOf(free, n)]]
RankWithoutRole(r, i) == Cardinality({j \in 1..i : r.Players[j].Role = NoRole})

WithRoles(r, free) ==
  [r EXCEPT !.Players =
     [i \in DOMAIN @ |->
        IF @[i].Role = NoRole /\ RankWithoutRole(r, i) <= Len(free)
          THEN [@[i] EXCEPT !.Role = free[RankWithoutRole(r, i)]]
          ELSE @[i]]]
EnsureRolesAssigned(r) == WithRoles(r, availableRoles(r))

RolesDistinct(r) ==
  \A i, j \in DOMAIN r.Players :
    i # j /\ r.Players[i].Role = r.Players[j].Role => r.Players[i].Role = NoRole

M_mayStartAgain(r) == Len(r.Players) = Len(AllRoles) /\ RolesDistinct(r)
MayStart(r) ==
  /\ r.Status = "waiting"
  /\ Len(r.Players) = Len(AllRoles)
  /\ RolesDistinct(r)

Started(r) == [r EXCEPT !.Status = "active", !.CurrentWeek = 1]
Start(r) == Started(EnsureRolesAssigned(r))

(* RoleOfPlayer: NoRole stands for both of its errors. *)
RoleOfPlayer(r, id) ==
  IF \E i \in DOMAIN r.Players : r.Players[i].ID = id
    THEN r.Players[PlayerIndex(r, id)].Role
    ELSE NoRole
=============================================================================
