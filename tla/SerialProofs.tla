---------------------------- MODULE SerialProofs ----------------------------
(***************************************************************************)
(* Proofs about the server when requests come one after the other, refused *)
(* or cut short anywhere, on both kinds of stores.                         *)
(***************************************************************************)
EXTENDS ServerProofs, PlayerReads

(* One request at a time. *)
OneAtATime == \A v, w \in Workers : v = w

(* Room q has the players of room r, in their places. *)
Keeps(r, q) == /\ DOMAIN r.Players \subseteq DOMAIN q.Players
               /\ \A i \in DOMAIN r.Players : q.Players[i].ID = r.Players[i].ID

(* What the stores then agree on at every step.  A game that was never     *)
(* started has no session and no orders; there are orders for the weeks    *)
(* played and the next one only; the room is not ahead of its session.     *)
StoresInStep ==
  /\ room = NoRoom \/ room.Status = "waiting" => roomSession = NoId
  /\ \A week \in 1..MaxWeeks : decisions[week] # NoDecisions =>
       roomSession # NoId /\ week <= sessions[roomSession].CurrentWeek + 1
  /\ roomSession # NoId =>
       /\ room.CurrentWeek <= currentPlayableWeek(sessions[roomSession])
       /\ room.Status = "finished" => sessions[roomSession].Status = "finished"

(* On the memory stores the queues move one step before the week is saved. *)
Moving(w, sid) == /\ kind = "memory" /\ local[w].sid = sid
                  /\ local[w].op = "advance" /\ local[w].at = "saveSession"
Moved == \A sid \in Known :
           \/ sessions[sid].moved = sessions[sid].CurrentWeek
           \/ \E w \in Workers : Moving(w, sid)

(* What a request of the room service knows of the stored room,            *)
RoomKnown(l) ==
  /\ l.at \in {"haveRoom", "writeRole", "writeRoles"} => l.room = room
  /\ l.at \in {"writeRole", "writeRoles"} => room.Status = "waiting"
  /\ l.at = "saveRoom" /\ l.op = "create" => room = NoRoom /\ l.room = NewRoom
  /\ l.at = "saveRoom" /\ l.op \in {"join", "assign", "start"} =>
       room # NoRoom /\ room.Status = "waiting" /\ Keeps(room, l.room)
  /\ l.at = "saveRoom" /\ l.op \in {"join", "assign"} => l.room.Status = "waiting"
  /\ l.at = "saveRoom" /\ l.op = "join" => InRoom(l.room, l.player)
  /\ l.at = "publish" /\ l.op = "join" => room # NoRoom /\ InRoom(room, l.player)

(* one that starts the game of its session,                                *)
StartKnown(l) ==
  l.op = "start" =>
    /\ l.at = "saveRoom" => l.room.Status = "active" /\ l.room.CurrentWeek = 1
    /\ l.at = "saveSession" => /\ room # NoRoom /\ room.Status = "active" /\ room.CurrentWeek = 1
                               /\ roomSession = NoId
    /\ l.at \in {"saveRoom", "saveSession"} => l.session = NewGameSession

(* one that reads the session and the orders of its week,                  *)
HasSession(l) == \/ l.at \in {"getSession", "getDecisions", "saveDecisions", "playWeek"}
                 \/ l.op = "advance" /\ l.at \in {"saveSession", "saveRoom", "deleteDecisions"}
SessionKnown(l) ==
  /\ HasSession(l) => roomSession # NoId /\ l.sid = roomSession
  /\ l.at = "deleteDecisions" => l.op = "advance"
  /\ l.at \in {"getDecisions", "playWeek"} => l.session = sessions[l.sid]
  /\ l.at = "getDecisions" /\ l.op = "submit" => l.session.Status = "active"
  /\ l.at = "saveDecisions" =>
       /\ sessions[l.sid].Status = "active" /\ l.week = sessions[l.sid].CurrentWeek + 1
       /\ l.role \in Roles /\ l.order \in OrderChoices \cap Nat
       /\ l.orders = withOrder(decisions[l.week], l.role, l.order)

(* and one that plays the week.                                            *)
WeekKnown(l) ==
  l.op = "advance" =>
    /\ l.at \in {"getRoomSession", "getSession", "getDecisions", "playWeek"} => l.room = room
    /\ l.at = "playWeek" => l.orders = decisions[l.week]
    /\ l.at = "saveSession" =>
         /\ sessions[l.sid].Status = "active"
         /\ decisions[l.week] \in Orders /\ DOMAIN decisions[l.week] = Roles
         /\ l.week = sessions[l.sid].CurrentWeek + 1
         /\ l.session.CurrentWeek = l.week /\ l.session.moved = l.week
         /\ l.session.History = Append(sessions[l.sid].History, decisions[l.week])
         /\ l.room.Status = l.session.Status
         /\ l.room.CurrentWeek = currentPlayableWeek(l.session)
    /\ l.at = "saveRoom" =>
         /\ l.room.Status = sessions[l.sid].Status
         /\ l.room.CurrentWeek = currentPlayableWeek(sessions[l.sid])
    /\ l.at \in {"saveSession", "saveRoom"} => l.room.Players = room.Players
    /\ l.at \in {"saveRoom", "deleteDecisions"} => l.week = sessions[l.sid].CurrentWeek

Knows(l) == RoomKnown(l) /\ StartKnown(l) /\ SessionKnown(l) /\ WeekKnown(l)

SerialInv == StoresInStep /\ Moved /\ \A w \in Workers : Knows(local[w])

-----------------------------------------------------------------------------
(* What the invariants say of the stores and of the one request. *)
LEMMA SoloFacts ==
  ASSUME Inv, SerialInv, OneAtATime, NEW w \in Workers
  PROVE  /\ local \in [Workers -> Local] /\ local[w] \in Local
         /\ Handler(local[w], kind, Known) /\ Knows(local[w])
         /\ \A v \in Workers : v = w
         /\ kind \in {"redis", "memory"}
         /\ room # NoRoom => Legal(room) /\ room \in RoomRecord
         /\ local[w].room # NoRoom => Legal(local[w].room) /\ local[w].room \in RoomRecord
         /\ roomSession # NoId => /\ roomSession \in SessionIds
                                  /\ GoodSession(sessions[roomSession])
                                  /\ room # NoRoom /\ room.Status # "waiting"
<1>1. \A r \in Copies : Legal(r) /\ r \in RoomRecord
  BY DEF Inv, RoomInv, Legal
<1>2. {room, local[w].room} \subseteq Copies \cup {NoRoom}
  BY DEF Copies
<1>3. kind \in {"redis", "memory"}
  BY StoreKindsAssumption DEF Inv, StoresTypeOK
<1> QED  BY <1>1, <1>2, <1>3 DEF Inv, SessionInv, Known, Handlers, SerialInv, StoresInStep, OneAtATime

(* When no week is being saved, every session's queues are in step. *)
LEMMA Settled ==
  ASSUME SerialInv, OneAtATime, NEW w \in Workers, \A sid : ~Moving(w, sid)
  PROVE  \A sid \in Known : sessions[sid].moved = sessions[sid].CurrentWeek
  BY DEF SerialInv, Moved, OneAtATime

(* There is nobody else to know anything. *)
LEMMA SoloStep ==
  ASSUME OneAtATime, NEW w \in Workers, NEW l, local'[w] = l, Knows(l)',
         StoresInStep', Moved'
  PROVE  SerialInv'
<1>1. ASSUME NEW v \in Workers  PROVE Knows(local[v])'
  <2>1. local'[v] = l
    BY DEF OneAtATime
  <2>2. RoomKnown(local[v])'
    BY <2>1 DEF Knows, RoomKnown
  <2>3. StartKnown(local[v])'
    BY <2>1 DEF Knows, StartKnown
  <2>4. SessionKnown(local[v])'
    BY <2>1 DEF Knows, SessionKnown, HasSession
  <2>5. WeekKnown(local[v])'
    BY <2>1 DEF Knows, WeekKnown
  <2> QED  BY <2>2, <2>3, <2>4, <2>5 DEF Knows
<1> QED  BY <1>1 DEF SerialInv

(* Steps that change no store. *)
LEMMA StoresStand ==
  ASSUME Inv, SerialInv, OneAtATime, NEW w \in Workers, NEW l, local'[w] = l,
         UNCHANGED storeVars, \A sid : ~Moving(w, sid), Knows(l)
  PROVE  SerialInv'
<1>1. /\ room' = room /\ sessions' = sessions /\ roomSession' = roomSession
      /\ decisions' = decisions /\ kind' = kind
  BY DEF storeVars
<1>2. Knows(l)' /\ StoresInStep'
  BY <1>1, SMTT(30) DEF SerialInv, StoresInStep, Knows, RoomKnown, StartKnown, SessionKnown, WeekKnown
<1>3. Moved'
  BY <1>1, Settled DEF Moved, Known
<1> QED  BY <1>2, <1>3, SoloStep

(* A request that is over knows nothing. *)
LEMMA KnowsNothing ==
  ASSUME NEW l, l.at = "idle"
  PROVE  Knows(l) /\ Knows(l)'
  BY DEF Knows, RoomKnown, StartKnown, SessionKnown, HasSession, WeekKnown

(* A request leaves without a store call. *)
LEMMA LeaveKnown ==
  ASSUME Inv, SerialInv, OneAtATime, NEW w \in Workers, Leave(w),
         UNCHANGED storeVars, \A sid : ~Moving(w, sid)
  PROVE  SerialInv'
<1>1. local'[w] = NoLocal /\ NoLocal.at = "idle"
  BY DEF Leave, Continue, NoLocal, Inv
<1> QED  BY <1>1, KnowsNothing, StoresStand

-----------------------------------------------------------------------------
(* No step takes a player out of the room, and none changes the players of *)
(* a room that has been started or calls the game off.                     *)
RoomStep ==
  room # NoRoom =>
    /\ room' # NoRoom /\ Keeps(room, room')
    /\ room.Status # "waiting" => room'.Players = room.Players /\ room'.Status # "waiting"

(* Most steps do not touch it. *)
LEMMA RoomStands == ASSUME room' = room  PROVE RoomStep
  BY DEF RoomStep, Keeps

(* A copy sees the players of another that has all of its own. *)
LEMMA SeenKeeps ==
  ASSUME NEW r, Legal(r), NEW written \in RoomRecord, Keeps(r, written)
  PROVE  LET s == roomSeen(r, written)
         IN  /\ s # NoRoom /\ s.Status = r.Status /\ s.CurrentWeek = r.CurrentWeek
             /\ Keeps(r, s) /\ Keeps(s, written)
<1> DEFINE s == roomSeen(r, written)
<1>1. r \in RoomRecord /\ r.Players \in Seq(Player) /\ written.Players \in Seq(Player)
  BY DEF Legal, RoomRecord
<1>2. r # NoRoom
  BY <1>1, NullAssumption
<1>3. CASE kind = "redis"
  <2>1. s = r
    BY <1>3 DEF roomSeen
  <2> QED  BY <1>2, <2>1 DEF Keeps
<1>4. CASE kind # "redis"
  <2> DEFINE seen == slotsSeen(r.Players, written.Players)
  <2>1. s = [r EXCEPT !.Players = seen]
    BY <1>2, <1>4 DEF roomSeen
  <2>2. /\ DOMAIN seen = DOMAIN r.Players
        /\ \A i \in DOMAIN r.Players : seen[i] = written.Players[i]
    BY DEF slotsSeen, Keeps
  <2> HIDE DEF seen
  <2>3. s.Players = seen /\ s.Status = r.Status /\ s.CurrentWeek = r.CurrentWeek
    BY <1>1, <2>1 DEF RoomRecord
  <2>4. seen \in Seq(Player)
    <3>1. seen \in [1..Len(r.Players) -> Player] /\ Len(r.Players) \in Nat
      <4>1. DOMAIN r.Players = 1..Len(r.Players) /\ Len(r.Players) \in Nat
        BY <1>1
      <4>2. \A i \in DOMAIN r.Players : seen[i] \in Player
        BY <1>1, <2>2 DEF Keeps
      <4>3. seen = [i \in DOMAIN seen |-> seen[i]]
        BY DEF seen, slotsSeen
      <4> QED  BY <2>2, <4>1, <4>2, <4>3
    <3> QED  BY <3>1
  <2>5. s \in RoomRecord
    BY <1>1, <2>1, <2>4 DEF RoomRecord
  <2> HIDE DEF s
  <2>6. s # NoRoom /\ Keeps(r, s) /\ Keeps(s, written)
    BY <2>2, <2>3, <2>5, NullAssumption DEF Keeps
  <2> QED  BY <2>3, <2>6 DEF s
<1> QED  BY <1>3, <1>4

(* Steps that change the players of the copy a request has of a room that  *)
(* waits for its game, and leave it about to save that copy, or done.      *)
LEMMA PlayersWritten ==
  ASSUME Inv, SerialInv, OneAtATime, NEW w \in Workers, local[w].at # "saveSession",
         NEW written \in RoomRecord, NEW l, ChangePlayers(w, written, l),
         room # NoRoom, room.Status = "waiting", Keeps(room, written),
         l.at = "idle" \/ l.at = "saveRoom",
         l.at = "saveRoom" =>
           /\ l.room.Players = written.Players
           /\ \/ l.op = "assign" /\ l.room.Status = "waiting"
              \/ l.op = "join" /\ l.room.Status = "waiting" /\ InRoom(written, l.player)
              \/ /\ l.op = "start" /\ l.room.Status = "active" /\ l.room.CurrentWeek = 1
                 /\ l.session = NewGameSession
  PROVE  SerialInv' /\ RoomStep
<1>1. /\ room' = roomSeen(room, written) /\ local'[w] = l
      /\ sessions' = sessions /\ roomSession' = roomSession /\ decisions' = decisions /\ kind' = kind
  BY DEF ChangePlayers
<1>2. Legal(room)
  BY SoloFacts
<1>3. /\ room' # NoRoom /\ room'.Status = room.Status /\ room'.CurrentWeek = room.CurrentWeek
      /\ Keeps(room, room') /\ Keeps(room', written)
  BY <1>1, <1>2, SeenKeeps
<1>4. roomSession = NoId
  BY DEF SerialInv, StoresInStep
<1>5. StoresInStep'
  BY <1>1, <1>4 DEF SerialInv, StoresInStep
<1>6. Moved'
  BY <1>1, Settled DEF Moving, Moved, Known
<1>7. Knows(l)'
  <2>1. CASE l.at = "idle"
    BY <2>1, KnowsNothing
  <2>2. CASE l.at = "saveRoom"
    <3>1. Keeps(room', l.room)
      BY <1>3, <2>2 DEF Keeps
    <3>2. l.op = "join" => InRoom(l.room, l.player)
      BY <2>2 DEF InRoom
    <3>3. RoomKnown(l)'
      BY <1>3, <2>2, <3>1, <3>2 DEF RoomKnown
    <3>4. StartKnown(l)' /\ SessionKnown(l)' /\ WeekKnown(l)'
      BY <2>2 DEF StartKnown, SessionKnown, HasSession, WeekKnown
    <3> QED  BY <3>3, <3>4 DEF Knows
  <2> QED  BY <2>1, <2>2
<1>8. SerialInv'
  BY <1>1, <1>5, <1>6, <1>7, SoloStep
<1> QED  BY <1>3, <1>8 DEF RoomStep

-----------------------------------------------------------------------------
(* CreateRoom. *)
LEMMA CreateRoomSerial ==
  ASSUME Inv, SerialInv, OneAtATime, NEW w \in Workers, CreateRoom(w)
  PROVE  SerialInv' /\ RoomStep
<1>1. PICK l : l = [NoLocal EXCEPT !.op = "create", !.at = "saveRoom", !.room = NewRoom]
  OBVIOUS
<1>2. l.at = "saveRoom" /\ l.op = "create" /\ l.room = NewRoom
  BY <1>1 DEF NoLocal
<1>3. local'[w] = l /\ UNCHANGED storeVars /\ room = NoRoom /\ local[w].at = "idle"
  BY <1>1 DEF CreateRoom, Continue, Inv, idle
<1>4. Knows(l)
  BY <1>2, <1>3 DEF Knows, RoomKnown, StartKnown, SessionKnown, HasSession, WeekKnown
<1> QED  BY <1>3, <1>4, StoresStand, RoomStands DEF Moving, storeVars

(* The read of the room that begins a request on the memory stores. *)
LEMMA ReadRoomSerial ==
  ASSUME Inv, SerialInv, OneAtATime, NEW w \in Workers, NEW op \in {"join", "assign", "start"},
         ReadRoom(w, op)
  PROVE  SerialInv' /\ RoomStep
<1>1. PICK l : l = [NoLocal EXCEPT !.op = op, !.at = "haveRoom", !.room = room]
  OBVIOUS
<1>2. l.at = "haveRoom" /\ l.op = op /\ l.room = room
  BY <1>1 DEF NoLocal
<1>3. local'[w] = l /\ UNCHANGED storeVars /\ local[w].at = "idle"
  BY <1>1 DEF ReadRoom, Continue, Inv, idle
<1>4. Knows(l)
  BY <1>2, <1>3 DEF Knows, RoomKnown, StartKnown, SessionKnown, HasSession, WeekKnown
<1> QED  BY <1>3, <1>4, StoresStand, RoomStands DEF Moving, storeVars

(* A request whose checks fail. *)
LEMMA RefuseRoomSerial ==
  ASSUME Inv, SerialInv, OneAtATime, NEW w \in Workers, RefuseRoom(w)
  PROVE  SerialInv' /\ RoomStep
  BY LeaveKnown, RoomStands DEF RefuseRoom, Moving, storeVars

(* The room a request holds on the memory stores is the stored one. *)
LEMMA RoomHeld ==
  ASSUME Inv, SerialInv, OneAtATime, NEW w \in Workers,
         NEW op \in {"join", "assign", "start"}, hasRoom(w, op)
  PROVE  /\ roomOf(w) = room /\ room # NoRoom /\ Legal(room) /\ room \in RoomRecord
         /\ local[w].at \in {"idle", "haveRoom"}
<1>1. kind = "memory" => local[w].at = "haveRoom" /\ local[w].room = room /\ local[w].room # NoRoom
  BY SoloFacts DEF hasRoom, Knows, RoomKnown, Handler, HoldsRoom
<1>2. kind # "memory" => idle(w) /\ room # NoRoom
  BY DEF hasRoom
<1> QED  BY <1>1, <1>2, SoloFacts DEF roomOf, idle

(* JoinRoom adds the player to the copy. *)
LEMMA JoinRoomSerial ==
  ASSUME Inv, SerialInv, OneAtATime, NEW w \in Workers, NEW name \in Names, JoinRoom(w, name)
  PROVE  SerialInv' /\ RoomStep
<1>1. /\ roomOf(w) = room /\ room # NoRoom /\ Legal(room) /\ room \in RoomRecord
      /\ local[w].at \in {"idle", "haveRoom"}
  BY RoomHeld DEF JoinRoom
<1>2. PICK id \in PlayerIds \ issued :
        ChangePlayers(w, AddPlayer(room, id, name),
          [NoLocal EXCEPT !.op = "join", !.at = "saveRoom",
                          !.room = AddPlayer(room, id, name), !.player = id])
  BY <1>1 DEF JoinRoom
<1>3. MayAddPlayer(room, name)
  BY <1>1 DEF JoinRoom
<1>4. PICK written : written = AddPlayer(room, id, name)
  OBVIOUS
<1>5. PICK l : l = [NoLocal EXCEPT !.op = "join", !.at = "saveRoom", !.room = written, !.player = id]
  OBVIOUS
<1>6. ChangePlayers(w, written, l)
  BY <1>2, <1>4, <1>5
<1>7. l.at = "saveRoom" /\ l.op = "join" /\ l.room = written /\ l.player = id
  BY <1>5 DEF NoLocal
<1>8. PICK p : p = [ID |-> id, Name |-> name, Role |-> NoRole]
  OBVIOUS
<1>9. written \in RoomRecord /\ written.Players = Append(room.Players, p) /\ p.ID = id
  BY <1>1, <1>3, <1>4, <1>8, AddPlayerLegal
<1>10. written.Status = room.Status /\ room.Status = "waiting"
  BY <1>1, <1>3, <1>4 DEF AddPlayer, MayAddPlayer, RoomRecord
<1>11. Keeps(room, written) /\ InRoom(written, id)
  <2>1. room.Players \in Seq(Player) /\ p \in Player
    BY <1>1, <1>8 DEF RoomRecord, Player
  <2>2. PICK n \in Nat : n = Len(room.Players) /\ DOMAIN room.Players = 1..n
    BY <2>1
  <2>3. /\ DOMAIN written.Players = 1..(n + 1) /\ written.Players[n + 1] = p
        /\ \A i \in 1..n : written.Players[i] = room.Players[i]
    BY <1>9, <2>1, <2>2
  <2>4. 1..n \subseteq 1..(n + 1) /\ n + 1 \in 1..(n + 1)
    BY <2>2
  <2> QED  BY <1>9, <2>2, <2>3, <2>4 DEF Keeps, InRoom
<1> QED  BY <1>1, <1>6, <1>7, <1>9, <1>10, <1>11, PlayersWritten

(* A role is written at the seat of a player: nobody moves. *)
LEMMA WithRoleKeeps ==
  ASSUME NEW n, NEW role \in Roles, room # NoRoom, Legal(room), room \in RoomRecord,
         kind = "redis" => \A i \in DOMAIN room.Players : i # n => room.Players[i].Role # role
  PROVE  LET q == WithRoleAt(room, n, role)
         IN  q \in RoomRecord /\ Keeps(room, q) /\ q.Status = room.Status
<1> DEFINE q == WithRoleAt(room, n, role)
<1>1. /\ Legal(q) /\ Len(q.Players) = Len(room.Players)
      /\ \A i \in DOMAIN room.Players : q.Players[i].ID = room.Players[i].ID
  BY WithRoleAtLegal
<1>2. q \in RoomRecord
  BY <1>1 DEF Legal
<1>3. q.Status = room.Status
  BY DEF WithRoleAt, RoomRecord
<1> HIDE DEF q
<1>4. DOMAIN q.Players = 1..Len(q.Players) /\ DOMAIN room.Players = 1..Len(room.Players)
  BY <1>2 DEF RoomRecord
<1>5. Keeps(room, q)
  BY <1>1, <1>4 DEF Keeps
<1> QED  BY <1>2, <1>3, <1>5 DEF q

(* AssignRole checks the role, and on Redis writes it to its copy. *)
LEMMA RequestRoleSerial ==
  ASSUME Inv, SerialInv, OneAtATime, NEW w \in Workers, NEW id \in PlayerIds,
         NEW role \in Roles \cup {UnknownRole}, RequestRole(w, id, role)
  PROVE  SerialInv' /\ RoomStep
<1>1. /\ roomOf(w) = room /\ room # NoRoom /\ Legal(room) /\ room \in RoomRecord
      /\ local[w].at \in {"idle", "haveRoom"}
  BY RoomHeld DEF RequestRole
<1>2. MayAssignRole(room, id, role) /\ UNCHANGED storeVars
  BY <1>1 DEF RequestRole
<1>3. role \in Roles /\ room.Status = "waiting"
  BY <1>2 DEF MayAssignRole
<1>4. \A sid : ~Moving(w, sid)
  BY <1>1 DEF Moving
<1>5. CASE kind = "memory"
  <2>1. PICK l : l = [local[w] EXCEPT !.at = "writeRole", !.role = role,
                                      !.seat = PlayerIndex(roomOf(w), id)]
    OBVIOUS
  <2>2. local'[w] = l
    BY <1>5, <2>1 DEF RequestRole, Continue, Inv
  <2>3. local[w].op = "assign" /\ local[w].room = room /\ local[w] \in Local
    BY <1>1, <1>5, SoloFacts DEF RequestRole, hasRoom, roomOf
  <2>4. l.at = "writeRole" /\ l.op = "assign" /\ l.room = room
    BY <2>1, <2>3 DEF Local
  <2>5. Knows(l)
    BY <1>3, <2>4 DEF Knows, RoomKnown, StartKnown, SessionKnown, HasSession, WeekKnown
  <2> QED  BY <1>2, <1>4, <2>2, <2>5, StoresStand, RoomStands DEF storeVars
<1>6. CASE kind # "memory"
  <2>1. PICK q : q = AssignRole(room, id, role)
    OBVIOUS
  <2>2. PICK l : l = [NoLocal EXCEPT !.op = "assign", !.at = "saveRoom", !.room = q]
    OBVIOUS
  <2>3. local'[w] = l
    BY <1>6, <2>1, <2>2 DEF RequestRole, Continue, Inv
  <2>4. l.at = "saveRoom" /\ l.op = "assign" /\ l.room = q
    BY <2>2 DEF NoLocal
  <2>5. q \in RoomRecord /\ Keeps(room, q) /\ q.Status = room.Status
    <3>1. /\ PlayerIndex(room, id) \in DOMAIN room.Players
          /\ room.Players[PlayerIndex(room, id)].ID = id
      BY <1>2 DEF MayAssignRole, PlayerIndex
    <3>2. \A i \in DOMAIN room.Players : i # PlayerIndex(room, id) => room.Players[i].Role # role
      BY <1>1, <1>2, <3>1 DEF MayAssignRole, Legal, WellFormed
    <3> QED  BY <1>1, <1>3, <2>1, <3>2, WithRoleKeeps DEF AssignRole
  <2>6. Knows(l)
    BY <1>1, <1>3, <2>4, <2>5 DEF Knows, RoomKnown, StartKnown, SessionKnown, HasSession, WeekKnown
  <2> QED  BY <1>2, <1>4, <2>3, <2>6, StoresStand, RoomStands DEF storeVars
<1> QED  BY <1>5, <1>6

(* On the memory stores it writes the role in a step of its own. *)
LEMMA WriteRoleSerial ==
  ASSUME Inv, SerialInv, OneAtATime, NEW w \in Workers, WriteRole(w)
  PROVE  SerialInv' /\ RoomStep
<1>1. local[w].at = "writeRole"
  BY DEF WriteRole
<1>2. /\ kind = "memory" /\ local[w].role \in Roles /\ local[w].room = room /\ room # NoRoom
      /\ room.Status = "waiting" /\ Legal(room) /\ room \in RoomRecord
  BY <1>1, SoloFacts DEF Handler, HoldsRoom, Knows, RoomKnown
<1>3. PICK written : written = WithRoleAt(local[w].room, local[w].seat, local[w].role)
  OBVIOUS
<1>4. PICK l : l = [NoLocal EXCEPT !.op = "assign", !.at = "saveRoom", !.room = written]
  OBVIOUS
<1>5. ChangePlayers(w, written, l)
  BY <1>3, <1>4 DEF WriteRole
<1>6. l.at = "saveRoom" /\ l.op = "assign" /\ l.room = written
  BY <1>4 DEF NoLocal
<1>7. written \in RoomRecord /\ Keeps(room, written) /\ written.Status = "waiting"
  BY <1>2, <1>3, WithRoleKeeps
<1> QED  BY <1>1, <1>2, <1>5, <1>6, <1>7, PlayersWritten

(* The room is saved. *)
LEMMA SaveRoomSerial ==
  ASSUME Inv, SerialInv, OneAtATime, NEW w \in Workers, SaveRoom(w)
  PROVE  SerialInv' /\ RoomStep
<1>1. PICK m : m = local[w]
  OBVIOUS
<1>2. PICK l : l = [m EXCEPT !.at = "publish", !.room = NoRoom]
  OBVIOUS
<1>3. /\ m.at = "saveRoom" /\ m.op \in {"create", "join", "assign"} /\ m \in Local
      /\ Knows(m) /\ Handler(m, kind, Known) /\ local'[w] = l
      /\ room' = m.room /\ sessions' = sessions /\ roomSession' = roomSession
      /\ decisions' = decisions /\ kind' = kind
  BY <1>1, <1>2, SoloFacts DEF SaveRoom, RoomStoreSave, Continue
<1>4. l.at = "publish" /\ l.op = m.op /\ l.player = m.player
  BY <1>2, <1>3 DEF Local
<1>5. m.room # NoRoom /\ (m.op = "create" => room = NoRoom) /\ m.room.Status = "waiting"
      /\ (m.op # "create" => room # NoRoom /\ room.Status = "waiting" /\ Keeps(room, m.room))
      /\ (m.op = "join" => InRoom(m.room, m.player))
  BY <1>3 DEF Knows, RoomKnown, Handler, HoldsRoom, NewRoom
<1>6. roomSession = NoId
  BY <1>3, <1>5 DEF SerialInv, StoresInStep
<1>7. StoresInStep'
  BY <1>3, <1>6 DEF SerialInv, StoresInStep
<1>8. Moved'
  BY <1>1, <1>3, Settled DEF Moved, Moving, Known
<1>9. Knows(l)'
  BY <1>3, <1>4, <1>5 DEF Knows, RoomKnown, StartKnown, SessionKnown, HasSession, WeekKnown
<1>10. SerialInv'
  BY <1>3, <1>7, <1>8, <1>9, SoloStep
<1>11. RoomStep
  BY <1>3, <1>5 DEF RoomStep
<1> QED  BY <1>10, <1>11

(* The event is published, and the request answered. *)
LEMMA AnswerSerial ==
  ASSUME Inv, SerialInv, OneAtATime, NEW w \in Workers, AnswerRoom(w) \/ AnswerGame(w)
  PROVE  SerialInv' /\ RoomStep
<1>1. /\ local'[w] = NoLocal /\ local[w].at = "publish" /\ room' = room /\ sessions' = sessions
      /\ roomSession' = roomSession /\ decisions' = decisions /\ kind' = kind
  BY DEF AnswerRoom, AnswerGame, PublishRoomEvent, Leave, Continue, Inv
<1>2. Knows(NoLocal)'
  BY KnowsNothing DEF NoLocal
<1>3. StoresInStep'
  BY <1>1 DEF SerialInv, StoresInStep
<1>4. Moved'
  BY <1>1, Settled DEF Moved, Moving, Known
<1> QED  BY <1>1, <1>2, <1>3, <1>4, SoloStep, RoomStands

(* Every step of the room service. *)
LEMMA RoomServiceSerial ==
  ASSUME Inv, SerialInv, OneAtATime, NEW w \in Workers, RoomServiceStep(w)
  PROVE  SerialInv' /\ RoomStep
<1>1. CASE CreateRoom(w) \/ RefuseRoom(w) \/ WriteRole(w) \/ SaveRoom(w) \/ AnswerRoom(w)
  BY <1>1, CreateRoomSerial, RefuseRoomSerial, WriteRoleSerial, SaveRoomSerial, AnswerSerial
<1>2. CASE \E op \in {"join", "assign", "start"} : ReadRoom(w, op)
  BY <1>2, ReadRoomSerial
<1>3. CASE \E name \in Names : JoinRoom(w, name)
  BY <1>3, JoinRoomSerial
<1>4. CASE \E id \in PlayerIds, role \in Roles \cup {UnknownRole} : RequestRole(w, id, role)
  BY <1>4, RequestRoleSerial
<1> QED  BY <1>1, <1>2, <1>3, <1>4 DEF RoomServiceStep

-----------------------------------------------------------------------------
(* StartGame, once the roles are given. *)
LEMMA StartingSerial ==
  ASSUME Inv, SerialInv, OneAtATime, NEW w \in Workers, local[w].at # "saveSession",
         room # NoRoom, room.Status = "waiting",
         NEW r \in RoomRecord, Keeps(room, r), Starting(w, r)
  PROVE  SerialInv' /\ RoomStep
<1>1. PICK sid : ChangePlayers(w, r, [NoLocal EXCEPT !.op = "start", !.at = "saveRoom",
                                        !.room = Started(r), !.sid = sid,
                                        !.session = NewGameSession])
  BY DEF Starting
<1>2. PICK started : started = Started(r)
  OBVIOUS
<1>3. PICK l : l = [NoLocal EXCEPT !.op = "start", !.at = "saveRoom", !.room = started,
                                   !.sid = sid, !.session = NewGameSession]
  OBVIOUS
<1>4. started.Players = r.Players /\ started.Status = "active" /\ started.CurrentWeek = 1
  BY <1>2 DEF Started, RoomRecord
<1>5. l.at = "saveRoom" /\ l.op = "start" /\ l.room = started /\ l.session = NewGameSession
  BY <1>3 DEF NoLocal
<1>6. ChangePlayers(w, r, l)
  BY <1>1, <1>2, <1>3
<1> QED  BY <1>4, <1>5, <1>6, PlayersWritten

(* Giving everybody a role moves nobody. *)
LEMMA WithRolesKeeps ==
  ASSUME NEW r, Legal(r), NEW free \in Seq(Roles)
  PROVE  WithRoles(r, free) \in RoomRecord /\ Keeps(r, WithRoles(r, free))
  BY WithRolesFacts DEF Keeps

(* StartGame on Redis. *)
LEMMA StartGameSerial ==
  ASSUME Inv, SerialInv, OneAtATime, NEW w \in Workers, StartGame(w)
  PROVE  SerialInv' /\ RoomStep
<1>1. room # NoRoom /\ Legal(room) /\ local[w].at \in {"idle", "haveRoom"}
  BY RoomHeld DEF StartGame
<1>2. PICK r : r = EnsureRolesAssigned(room)
  OBVIOUS
<1>3. r \in RoomRecord /\ Keeps(room, r)
  BY <1>1, <1>2, AvailableFacts, WithRolesKeeps DEF EnsureRolesAssigned
<1>4. Starting(w, r) /\ room.Status = "waiting"
  BY <1>2 DEF StartGame, MayStart
<1> QED  BY <1>1, <1>3, <1>4, StartingSerial

(* StartGame on the memory stores: the roles are looked up *)
LEMMA EnsureRolesSerial ==
  ASSUME Inv, SerialInv, OneAtATime, NEW w \in Workers, EnsureRoles(w)
  PROVE  SerialInv' /\ RoomStep
<1>1. PICK l : l = [local[w] EXCEPT !.at = "writeRoles", !.free = availableRoles(local[w].room)]
  OBVIOUS
<1>2. /\ local[w].at = "haveRoom" /\ local[w].op = "start" /\ local[w].room = room
      /\ local[w] \in Local /\ room.Status = "waiting"
  BY SoloFacts DEF EnsureRoles, hasRoom, MayStart, Knows, RoomKnown
<1>3. l.at = "writeRoles" /\ l.op = "start" /\ l.room = room
  BY <1>1, <1>2 DEF Local
<1>4. local'[w] = l /\ UNCHANGED storeVars
  BY <1>1 DEF EnsureRoles, Continue, Inv
<1>5. Knows(l)
  BY <1>2, <1>3 DEF Knows, RoomKnown, StartKnown, SessionKnown, HasSession, WeekKnown
<1> QED  BY <1>2, <1>4, <1>5, StoresStand, RoomStands DEF Moving, storeVars

(* and written. *)
LEMMA WriteRolesSerial ==
  ASSUME Inv, SerialInv, OneAtATime, NEW w \in Workers, WriteRoles(w)
  PROVE  SerialInv' /\ RoomStep
<1>1. /\ local[w].at = "writeRoles" /\ local[w].room = room /\ room # NoRoom /\ Legal(room)
      /\ room.Status = "waiting" /\ local[w].free \in Seq(Roles)
  BY SoloFacts DEF WriteRoles, Handler, HoldsRoom, Knows, RoomKnown, Local
<1>2. PICK filled : filled = WithRoles(room, local[w].free)
  OBVIOUS
<1>3. filled \in RoomRecord /\ Keeps(room, filled)
  BY <1>1, <1>2, WithRolesKeeps
<1>4. Starting(w, filled) \/ ChangePlayers(w, filled, NoLocal)
  BY <1>1, <1>2 DEF WriteRoles
<1>5. NoLocal.at = "idle"
  BY DEF NoLocal
<1> QED  BY <1>1, <1>3, <1>4, <1>5, StartingSerial, PlayersWritten

(* The started room is saved first, *)
LEMMA StartSaveRoomSerial ==
  ASSUME Inv, SerialInv, OneAtATime, NEW w \in Workers, StartSaveRoom(w)
  PROVE  SerialInv' /\ RoomStep
<1>1. PICK m : m = local[w]
  OBVIOUS
<1>2. PICK l : l = [m EXCEPT !.at = "saveSession", !.room = NoRoom]
  OBVIOUS
<1>3. /\ m.at = "saveRoom" /\ m.op = "start" /\ m \in Local
      /\ Knows(m) /\ Handler(m, kind, Known) /\ local'[w] = l
      /\ room' = m.room /\ sessions' = sessions /\ roomSession' = roomSession
      /\ decisions' = decisions /\ kind' = kind
  BY <1>1, <1>2, SoloFacts DEF StartSaveRoom, RoomStoreSave, Continue
<1>4. l.at = "saveSession" /\ l.op = "start" /\ l.session = m.session
  BY <1>2, <1>3 DEF Local
<1>5. /\ m.room # NoRoom /\ m.room.Status = "active" /\ m.room.CurrentWeek = 1
      /\ room # NoRoom /\ room.Status = "waiting" /\ Keeps(room, m.room)
      /\ m.session = NewGameSession
  BY <1>3 DEF Knows, RoomKnown, StartKnown, Handler, HoldsRoom
<1>6. roomSession = NoId
  BY <1>5 DEF SerialInv, StoresInStep
<1>7. StoresInStep'
  BY <1>3, <1>6 DEF SerialInv, StoresInStep
<1>8. Moved'
  BY <1>1, <1>3, Settled DEF Moved, Moving, Known
<1>9. Knows(l)'
  BY <1>3, <1>4, <1>5, <1>6 DEF Knows, RoomKnown, StartKnown, SessionKnown, HasSession, WeekKnown
<1>10. SerialInv'
  BY <1>3, <1>7, <1>8, <1>9, SoloStep
<1>11. RoomStep
  BY <1>3, <1>5 DEF RoomStep
<1> QED  BY <1>10, <1>11

(* the session second. *)
LEMMA StartSaveSessionSerial ==
  ASSUME Inv, SerialInv, OneAtATime, NEW w \in Workers, StartSaveSession(w)
  PROVE  SerialInv' /\ RoomStep
<1>1. PICK m : m = local[w]
  OBVIOUS
<1>2. PICK l : l = [NoLocal EXCEPT !.op = "start", !.at = "publish"]
  OBVIOUS
<1>3. /\ m.at = "saveSession" /\ m.op = "start" /\ Knows(m) /\ Handler(m, kind, Known)
      /\ local'[w] = l /\ room' = room /\ sessions' = [sessions EXCEPT ![m.sid] = m.session]
      /\ roomSession' = m.sid /\ decisions' = decisions /\ kind' = kind
  BY <1>1, <1>2, SoloFacts DEF StartSaveSession, SessionStoreSave, Continue
<1>4. l.at = "publish" /\ l.op = "start"
  BY <1>2 DEF NoLocal
<1>5. /\ m.sid \in SessionIds /\ m.session = NewGameSession /\ roomSession = NoId
      /\ room # NoRoom /\ room.Status = "active" /\ room.CurrentWeek = 1
  BY <1>3 DEF Knows, StartKnown, Handler
<1>6. \A sid \in SessionIds : sessions'[sid] = IF sid = m.sid THEN NewGameSession ELSE sessions[sid]
  BY <1>3, <1>5 DEF Inv, StoresTypeOK
<1>7. /\ NewGameSession.CurrentWeek = 0 /\ NewGameSession.moved = 0
      /\ NewGameSession.Status = "active" /\ currentPlayableWeek(NewGameSession) = 1
  BY DEF NewGameSession, currentPlayableWeek
<1>8. \A week \in 1..MaxWeeks : decisions[week] = NoDecisions
  BY <1>5 DEF SerialInv, StoresInStep
<1>9. StoresInStep'
  BY <1>3, <1>5, <1>6, <1>7, <1>8 DEF StoresInStep
<1>10. Moved'
  <2>1. \A sid \in Known : sessions[sid].moved = sessions[sid].CurrentWeek
    BY <1>1, <1>3, Settled DEF Moving
  <2> QED  BY <1>6, <1>7, <2>1 DEF Moved, Known
<1>11. Knows(l)'
  BY <1>4 DEF Knows, RoomKnown, StartKnown, SessionKnown, HasSession, WeekKnown
<1>12. SerialInv'
  BY <1>3, <1>9, <1>10, <1>11, SoloStep
<1> QED  BY <1>3, <1>12, RoomStands

-----------------------------------------------------------------------------
(* SubmitOrder and AdvanceWeek read the room. *)
LEMMA BeginTurnSerial ==
  ASSUME Inv, SerialInv, OneAtATime, NEW w \in Workers,
         \/ \E id \in PlayerIds, order \in OrderChoices : SubmitOrder(w, id, order)
         \/ AdvanceWeek(w)
  PROVE  SerialInv' /\ RoomStep
<1>1. UNCHANGED storeVars /\ local[w].at = "idle"
  BY DEF SubmitOrder, AdvanceWeek, idle
<1>2. PICK l : local'[w] = l /\ l.at = "getRoomSession"
               /\ (l.op = "submit" \/ (l.op = "advance" /\ l.room = room))
  <2>1. CASE AdvanceWeek(w)
    <3>1. PICK l : l = [NoLocal EXCEPT !.op = "advance", !.at = "getRoomSession", !.room = room]
      OBVIOUS
    <3>2. l.op = "advance" /\ l.at = "getRoomSession" /\ l.room = room
      BY <3>1 DEF NoLocal
    <3> QED  BY <2>1, <3>1, <3>2 DEF AdvanceWeek, Continue, Inv
  <2>2. ASSUME NEW id \in PlayerIds, NEW order \in OrderChoices, SubmitOrder(w, id, order)
        PROVE  \E l : local'[w] = l /\ l.at = "getRoomSession" /\ l.op = "submit"
    <3>1. PICK l : l = [NoLocal EXCEPT !.op = "submit", !.at = "getRoomSession",
                                       !.role = RoleOfPlayer(room, id), !.order = order]
      OBVIOUS
    <3>2. l.op = "submit" /\ l.at = "getRoomSession"
      BY <3>1 DEF NoLocal
    <3> QED  BY <2>2, <3>1, <3>2 DEF SubmitOrder, Continue, Inv
  <2> QED  BY <2>1, <2>2
<1>3. Knows(l)
  BY <1>2 DEF Knows, RoomKnown, StartKnown, SessionKnown, HasSession, WeekKnown
<1> QED  BY <1>1, <1>2, <1>3, StoresStand, RoomStands DEF Moving, storeVars

(* The session they read is the room's. *)
LEMMA SessionFoundSerial ==
  ASSUME Inv, SerialInv, OneAtATime, NEW w \in Workers, NEW l \in Local, SessionFound(w, l),
         UNCHANGED storeVars, local[w].at # "saveSession",
         l.sid = roomSession, roomSession # NoId, l.op \in {"submit", "advance"},
         l.op = "advance" => l.room = room
  PROVE  SerialInv' /\ RoomStep
<1>1. PICK q : q = [l EXCEPT !.at = "getDecisions", !.session = sessions[l.sid],
                             !.week = currentPlayableWeek(sessions[l.sid])]
  OBVIOUS
<1>2. /\ q.at = "getDecisions" /\ q.op = l.op /\ q.sid = l.sid /\ q.room = l.room
      /\ q.session = sessions[l.sid]
  BY <1>1 DEF Local
<1>3. \A sid : ~Moving(w, sid)
  BY DEF Moving
<1>4. CASE Leave(w)
  BY <1>3, <1>4, LeaveKnown, RoomStands DEF storeVars
<1>5. CASE ~(l.op = "submit" /\ sessions[l.sid].Status # "active") /\ Continue(w, q)
  <2>1. local'[w] = q
    BY <1>5 DEF Continue, Inv
  <2>2. Knows(q)
    BY <1>2, <1>5 DEF Knows, RoomKnown, StartKnown, SessionKnown, HasSession, WeekKnown
  <2> QED  BY <1>3, <2>1, <2>2, StoresStand, RoomStands DEF storeVars
<1> QED  BY <1>1, <1>4, <1>5 DEF SessionFound

(* GetByRoomID, in one read or in two. *)
LEMMA GetSessionSerial ==
  ASSUME Inv, SerialInv, OneAtATime, NEW w \in Workers, GetRoomSession(w) \/ GetSession(w)
  PROVE  SerialInv' /\ RoomStep
<1>1. PICK m : m = local[w]
  OBVIOUS
<1>2. /\ m \in Local /\ m.at \in {"getRoomSession", "getSession"} /\ m.op \in {"submit", "advance"}
      /\ m.op = "advance" => m.room = room
      /\ m.at = "getSession" => m.sid = roomSession /\ roomSession # NoId
      /\ UNCHANGED storeVars
  BY <1>1, SoloFacts
     DEF GetRoomSession, GetSession, Handler, Knows, SessionKnown, HasSession, WeekKnown
<1>3. CASE GetSession(w)
  BY <1>1, <1>2, <1>3, SessionFoundSerial DEF GetSession
<1>4. CASE GetRoomSession(w)
  <2>1. PICK l : l = [m EXCEPT !.sid = roomSession]
    OBVIOUS
  <2>2. l \in Local /\ l.sid = roomSession /\ l.op = m.op /\ l.room = m.room /\ l.at = m.at
    BY <1>2, <2>1 DEF Local, Inv, StoresTypeOK
  <2>3. m.at = "getRoomSession"
    BY <1>1, <1>4 DEF GetRoomSession
  <2>4. CASE Leave(w)
    BY <1>1, <1>2, <2>4, LeaveKnown, RoomStands DEF Moving, storeVars
  <2>5. CASE roomSession # NoId /\ SessionFound(w, l)
    BY <1>1, <1>2, <2>2, <2>5, SessionFoundSerial
  <2>6. CASE roomSession # NoId /\ Continue(w, [l EXCEPT !.at = "getSession"])
    <3>1. PICK q : q = [l EXCEPT !.at = "getSession"]
      OBVIOUS
    <3>2. q.at = "getSession" /\ q.sid = roomSession /\ q.op = l.op /\ q.room = l.room
      BY <2>2, <3>1 DEF Local
    <3>3. Knows(q)
      BY <1>2, <2>2, <2>6, <3>2
         DEF Knows, RoomKnown, StartKnown, SessionKnown, HasSession, WeekKnown
    <3>4. local'[w] = q
      BY <2>6, <3>1 DEF Continue, Inv
    <3> QED  BY <1>1, <1>2, <3>3, <3>4, StoresStand, RoomStands DEF Moving, storeVars
  <2> QED  BY <1>1, <1>4, <2>1, <2>4, <2>5, <2>6 DEF GetRoomSession
<1> QED  BY <1>3, <1>4

-----------------------------------------------------------------------------
(* SubmitOrder reads the orders of the week, *)
LEMMA SubmitGetDecisionsSerial ==
  ASSUME Inv, SerialInv, OneAtATime, NEW w \in Workers, SubmitGetDecisions(w)
  PROVE  SerialInv' /\ RoomStep
<1>1. PICK m : m = local[w]
  OBVIOUS
<1>2. PICK l : l = [m EXCEPT !.at = "saveDecisions", !.session = NoSession,
                             !.orders = withOrder(decisions[m.week], m.role, m.order)]
  OBVIOUS
<1>3. /\ m.at = "getDecisions" /\ m.op = "submit" /\ m \in Local /\ Knows(m)
      /\ Handler(m, kind, Known) /\ local'[w] = l /\ UNCHANGED storeVars
  BY <1>1, <1>2, SoloFacts DEF SubmitGetDecisions, Continue
<1>4. /\ l.at = "saveDecisions" /\ l.op = "submit" /\ l.sid = m.sid /\ l.week = m.week
      /\ l.role = m.role /\ l.order = m.order
      /\ l.orders = withOrder(decisions[m.week], m.role, m.order)
  BY <1>2, <1>3 DEF Local
<1>5. /\ roomSession # NoId /\ m.sid = roomSession /\ m.session = sessions[m.sid]
      /\ m.session.Status = "active" /\ m.week = currentPlayableWeek(m.session)
      /\ m.role \in Roles /\ m.order \in OrderChoices \cap Nat
  BY <1>3 DEF Knows, SessionKnown, HasSession, Handler, HoldsOrder
<1>6. m.week = sessions[m.sid].CurrentWeek + 1
  BY <1>5 DEF currentPlayableWeek
<1>7. Knows(l)
  BY <1>4, <1>5, <1>6 DEF Knows, RoomKnown, StartKnown, SessionKnown, HasSession, WeekKnown
<1> QED  BY <1>1, <1>3, <1>7, StoresStand, RoomStands DEF Moving, storeVars

(* and saves them. *)
LEMMA SaveDecisionsSerial ==
  ASSUME Inv, SerialInv, OneAtATime, NEW w \in Workers, SaveDecisions(w)
  PROVE  SerialInv' /\ RoomStep
<1>1. PICK m : m = local[w]
  OBVIOUS
<1>2. PICK l : l = [m EXCEPT !.at = "publish", !.orders = NoDecisions, !.order = 0]
  OBVIOUS
<1>3. /\ m.at = "saveDecisions" /\ m \in Local /\ Knows(m) /\ Handler(m, kind, Known)
      /\ local'[w] = l /\ room' = room /\ sessions' = sessions /\ roomSession' = roomSession
      /\ decisions' = [decisions EXCEPT ![m.week] = m.orders] /\ kind' = kind
  BY <1>1, <1>2, SoloFacts DEF SaveDecisions, DecisionStoreSave, Continue
<1>4. l.at = "publish" /\ l.op = "submit"
  BY <1>2, <1>3 DEF Local, Handler
<1>5. roomSession # NoId /\ m.sid = roomSession /\ m.week = sessions[m.sid].CurrentWeek + 1
  BY <1>3 DEF Knows, SessionKnown, HasSession
<1>6. \A week \in 1..MaxWeeks : decisions'[week] = IF week = m.week THEN m.orders ELSE decisions[week]
  BY <1>3 DEF Inv, StoresTypeOK
<1>7. StoresInStep'
  <2>1. ASSUME NEW week \in 1..MaxWeeks, decisions'[week] # NoDecisions
        PROVE  week <= sessions[roomSession].CurrentWeek + 1
    <3>1. CASE week = m.week
      BY <1>5, <3>1
    <3>2. CASE week # m.week
      BY <1>6, <2>1, <3>2 DEF SerialInv, StoresInStep
    <3> QED  BY <3>1, <3>2
  <2> QED  BY <1>3, <1>5, <2>1 DEF SerialInv, StoresInStep
<1>8. Moved'
  BY <1>1, <1>3, Settled DEF Moved, Moving, Known
<1>9. Knows(l)'
  BY <1>4 DEF Knows, RoomKnown, StartKnown, SessionKnown, HasSession, WeekKnown
<1>10. SerialInv'
  BY <1>3, <1>7, <1>8, <1>9, SoloStep
<1> QED  BY <1>3, <1>10, RoomStands

-----------------------------------------------------------------------------
(* What AdvanceWeek holds once it has played the week, next being its copy *)
(* of the session.                                                         *)
LEMMA PlayedKnown ==
  ASSUME NEW m \in Local, NEW s, GoodSession(s), NEW orders \in Orders, MayAdvance(s, orders),
         s.moved = s.CurrentWeek, m.op = "advance", m.room \in RoomRecord,
         NEW next, next = SessionAdvanceWeek(s, orders), NEW l, l = AfterWeek(m, next)
  PROVE  /\ GoodSession(next) /\ s.Status = "active" /\ currentPlayableWeek(s) = s.CurrentWeek + 1
         /\ next.CurrentWeek = s.CurrentWeek + 1 /\ next.moved = s.CurrentWeek + 1
         /\ next.History = Append(s.History, orders)
         /\ l.at = "saveSession" /\ l.op = "advance" /\ l.sid = m.sid /\ l.week = m.week
         /\ l.session = next /\ l.room.Players = m.room.Players
         /\ l.room.Status = next.Status /\ l.room.CurrentWeek = currentPlayableWeek(next)
<1>1. GoodSession(next)
  BY AdvanceGood
<1>2. s.Status = "active" /\ currentPlayableWeek(s) = s.CurrentWeek + 1
  BY DEF MayAdvance, currentPlayableWeek
<1>3. /\ next.CurrentWeek = s.CurrentWeek + 1 /\ next.moved = s.CurrentWeek + 1
      /\ next.History = Append(s.History, orders)
  BY DEF SessionAdvanceWeek
<1>4. PICK r : r = roomAfterWeek(m.room, next)
  OBVIOUS
<1>5. /\ r.Players = m.room.Players /\ r.Status = next.Status
      /\ r.CurrentWeek = currentPlayableWeek(next)
  BY <1>4 DEF roomAfterWeek, RoomRecord
<1>6. l = [m EXCEPT !.at = "saveSession", !.session = next, !.orders = NoDecisions, !.room = r]
  BY <1>4 DEF AfterWeek
<1>7. /\ l.at = "saveSession" /\ l.op = "advance" /\ l.sid = m.sid /\ l.week = m.week
      /\ l.session = next /\ l.room = r
  BY <1>6 DEF Local
<1> QED  BY <1>1, <1>2, <1>3, <1>5, <1>7

(* AdvanceWeek reads the orders and, on Redis, plays the week. *)
LEMMA AdvanceGetDecisionsSerial ==
  ASSUME Inv, SerialInv, OneAtATime, NEW w \in Workers, AdvanceGetDecisions(w)
  PROVE  SerialInv' /\ RoomStep
<1>1. PICK m : m = local[w]
  OBVIOUS
<1>2. PICK orders : orders = decisions[m.week]
  OBVIOUS
<1>3. /\ m.at = "getDecisions" /\ m.op = "advance" /\ m \in Local /\ Knows(m)
      /\ Handler(m, kind, Known) /\ UNCHANGED storeVars
      /\ \/ Leave(w)
         \/ /\ weekReady(orders) /\ MayAdvance(m.session, orders)
            /\ \/ local'[w] = [m EXCEPT !.at = "playWeek", !.orders = orders]
               \/ local'[w] = AfterWeek(m, SessionAdvanceWeek(m.session, orders))
  BY <1>1, <1>2, SoloFacts DEF AdvanceGetDecisions, Continue
<1>4. /\ roomSession # NoId /\ m.sid = roomSession /\ m.session = sessions[m.sid]
      /\ GoodSession(m.session) /\ m.week = currentPlayableWeek(m.session) /\ m.room = room
  BY <1>3 DEF Knows, SessionKnown, HasSession, WeekKnown, Handler
<1>5. \A sid : ~Moving(w, sid)
  BY <1>1, <1>3 DEF Moving
<1>6. CASE Leave(w)
  BY <1>3, <1>5, <1>6, LeaveKnown, RoomStands DEF storeVars
<1>7. CASE weekReady(orders) /\ MayAdvance(m.session, orders)
           /\ local'[w] = [m EXCEPT !.at = "playWeek", !.orders = orders]
  <2>1. PICK l : l = [m EXCEPT !.at = "playWeek", !.orders = orders]
    OBVIOUS
  <2>2. /\ l.at = "playWeek" /\ l.op = "advance" /\ l.sid = m.sid /\ l.session = m.session
        /\ l.week = m.week /\ l.room = m.room /\ l.orders = orders
    BY <1>3, <2>1 DEF Local
  <2>3. Knows(l)
    BY <1>2, <1>4, <2>2 DEF Knows, RoomKnown, StartKnown, SessionKnown, HasSession, WeekKnown
  <2> QED  BY <1>3, <1>5, <1>7, <2>1, <2>3, StoresStand, RoomStands DEF storeVars
<1>8. CASE weekReady(orders) /\ MayAdvance(m.session, orders)
           /\ local'[w] = AfterWeek(m, SessionAdvanceWeek(m.session, orders))
  <2>1. PICK next : next = SessionAdvanceWeek(m.session, orders)
    OBVIOUS
  <2>2. PICK l : l = AfterWeek(m, next)
    OBVIOUS
  <2>3. orders \in Orders /\ DOMAIN orders = Roles
    BY <1>2, <1>4, <1>8, PlayableWeek DEF weekReady, Inv, StoresTypeOK, MayAdvance
  <2>4. m.session.moved = m.session.CurrentWeek
    BY <1>4, <1>5, Settled DEF Inv, SessionInv
  <2>5. room # NoRoom /\ room \in RoomRecord
    BY <1>4, SoloFacts
  <2>6. /\ m.session.Status = "active" /\ m.week = m.session.CurrentWeek + 1
        /\ next.CurrentWeek = m.week /\ next.moved = m.week
        /\ next.History = Append(m.session.History, orders)
        /\ l.at = "saveSession" /\ l.op = "advance" /\ l.sid = m.sid /\ l.week = m.week
        /\ l.session = next /\ l.room.Players = room.Players
        /\ l.room.Status = next.Status /\ l.room.CurrentWeek = currentPlayableWeek(next)
    BY <1>3, <1>4, <1>8, <2>1, <2>2, <2>3, <2>4, <2>5, PlayedKnown
  <2>7. Knows(l)
    BY <1>2, <1>4, <2>3, <2>6 DEF Knows, RoomKnown, StartKnown, SessionKnown, HasSession, WeekKnown
  <2> QED  BY <1>3, <1>5, <1>8, <2>1, <2>2, <2>7, StoresStand, RoomStands DEF storeVars
<1> QED  BY <1>3, <1>6, <1>7, <1>8

(* A session seen by the copy that was played differs in its queues only. *)
LEMMA SeenPlayed ==
  ASSUME NEW s, GoodSession(s), NEW orders, NEW next, next = SessionAdvanceWeek(s, orders)
  PROVE  LET t == sessionSeen(s, next)
         IN  /\ t.Status = s.Status /\ t.CurrentWeek = s.CurrentWeek /\ t.History = s.History
             /\ t # NoSession
<1>1. s \in Session /\ s.History \in Seq([Roles -> OrderChoices \cap Nat]) /\ s # NoSession
  BY NullAssumption DEF GoodSession, Session
<1>2. next.History = Append(s.History, orders)
  BY DEF SessionAdvanceWeek
<1>3. slotsSeen(s.History, next.History) = s.History
  <2>1. PICK n \in Nat : n = Len(s.History) /\ DOMAIN s.History = 1..n
    BY <1>1
  <2>2. /\ DOMAIN next.History = 1..(n + 1)
        /\ \A i \in 1..n : i \in 1..(n + 1) /\ next.History[i] = s.History[i]
    BY <1>1, <1>2, <2>1
  <2>3. slotsSeen(s.History, next.History) = [i \in 1..n |-> s.History[i]]
    BY <2>1, <2>2 DEF slotsSeen
  <2>4. s.History = [i \in 1..n |-> s.History[i]]
    BY <1>1, <2>1
  <2> QED  BY <2>3, <2>4
<1>4. CASE kind = "redis"
  BY <1>1, <1>4 DEF sessionSeen
<1>5. CASE kind # "redis"
  <2>1. sessionSeen(s, next) = [s EXCEPT !.History = s.History, !.moved = next.moved]
    BY <1>1, <1>3, <1>5 DEF sessionSeen
  <2>2. /\ sessionSeen(s, next).Status = s.Status /\ sessionSeen(s, next).History = s.History
        /\ sessionSeen(s, next).CurrentWeek = s.CurrentWeek
    BY <1>1, <2>1 DEF Session
  <2>3. sessionSeen(s, next) \in Session
    <3>1. next.moved \in Nat
      BY <1>1 DEF SessionAdvanceWeek, Session
    <3> QED  BY <1>1, <2>1, <3>1 DEF Session
  <2> QED  BY <2>2, <2>3, NullAssumption
<1> QED  BY <1>4, <1>5

(* On the memory stores AdvanceWeek plays the week under the stored        *)
(* session's hands.                                                        *)
LEMMA PlayWeekSerial ==
  ASSUME Inv, SerialInv, OneAtATime, NEW w \in Workers, PlayWeek(w)
  PROVE  SerialInv' /\ RoomStep
<1>1. PICK m : m = local[w]
  OBVIOUS
<1>2. PICK s : s = sessions[m.sid]
  OBVIOUS
<1>3. PICK next : next = SessionAdvanceWeek(m.session, m.orders)
  OBVIOUS
<1>4. PICK l : l = AfterWeek(m, next)
  OBVIOUS
<1>5. /\ m.at = "playWeek" /\ m \in Local /\ Knows(m) /\ Handler(m, kind, Known) /\ local'[w] = l
      /\ sessions' = [sessions EXCEPT ![m.sid] = sessionSeen(s, next)]
      /\ room' = room /\ roomSession' = roomSession /\ decisions' = decisions /\ kind' = kind
  BY <1>1, <1>2, <1>3, <1>4, SoloFacts DEF PlayWeek
<1>6. /\ m.op = "advance" /\ kind = "memory" /\ m.orders \in Orders /\ MayAdvance(m.session, m.orders)
      /\ GoodSession(m.session) /\ m.week = currentPlayableWeek(m.session)
      /\ roomSession # NoId /\ m.sid = roomSession /\ m.session = s
      /\ m.room = room /\ m.orders = decisions[m.week]
  BY <1>2, <1>5 DEF Handler, Knows, SessionKnown, HasSession, WeekKnown
<1>7. m.sid \in SessionIds /\ s # NoSession /\ room # NoRoom /\ room \in RoomRecord
  BY <1>6, SoloFacts, NullAssumption DEF GoodSession
<1>8. \A sid \in Known : sessions[sid].moved = sessions[sid].CurrentWeek
  BY <1>1, <1>5, Settled DEF Moving
<1>9. s.moved = s.CurrentWeek
  BY <1>2, <1>7, <1>8 DEF Known
<1>10. /\ GoodSession(next) /\ s.Status = "active" /\ m.week = s.CurrentWeek + 1
       /\ next.CurrentWeek = m.week /\ next.moved = m.week
       /\ next.History = Append(s.History, m.orders)
       /\ l.at = "saveSession" /\ l.op = "advance" /\ l.sid = m.sid /\ l.week = m.week
       /\ l.session = next /\ l.room.Players = room.Players
       /\ l.room.Status = next.Status /\ l.room.CurrentWeek = currentPlayableWeek(next)
  BY <1>3, <1>4, <1>5, <1>6, <1>7, <1>9, PlayedKnown
<1>11. PICK t : t = sessionSeen(s, next)
  OBVIOUS
<1>12. t.Status = s.Status /\ t.CurrentWeek = s.CurrentWeek /\ t.History = s.History /\ t # NoSession
  BY <1>3, <1>6, <1>11, SeenPlayed
<1>13. \A sid \in SessionIds : sessions'[sid] = IF sid = m.sid THEN t ELSE sessions[sid]
  BY <1>5, <1>7, <1>11 DEF Inv, StoresTypeOK
<1>14. StoresInStep'
  BY <1>2, <1>5, <1>6, <1>7, <1>12, <1>13 DEF SerialInv, StoresInStep, currentPlayableWeek
<1>15. Moved'
  <2>1. Moving(w, m.sid)'
    BY <1>5, <1>6, <1>10 DEF Moving
  <2> QED  BY <1>8, <1>12, <1>13, <2>1 DEF Moved, Known
<1>16. Knows(l)'
  <2>1. RoomKnown(l)' /\ StartKnown(l)'
    BY <1>10 DEF RoomKnown, StartKnown
  <2>2. SessionKnown(l)'
    BY <1>5, <1>6, <1>10 DEF SessionKnown, HasSession
  <2>3. DOMAIN m.orders = Roles
    BY <1>6 DEF MayAdvance
  <2>4. WeekKnown(l)'
    BY <1>2, <1>5, <1>6, <1>7, <1>10, <1>12, <1>13, <2>3 DEF WeekKnown
  <2> QED  BY <2>1, <2>2, <2>4 DEF Knows
<1>17. SerialInv'
  BY <1>5, <1>14, <1>15, <1>16, SoloStep
<1> QED  BY <1>5, <1>17, RoomStands

(* AdvanceWeek saves the session, *)
LEMMA AdvanceSaveSessionSerial ==
  ASSUME Inv, SerialInv, OneAtATime, NEW w \in Workers, AdvanceSaveSession(w)
  PROVE  SerialInv' /\ RoomStep
<1>1. PICK m : m = local[w]
  OBVIOUS
<1>2. PICK l : l = [m EXCEPT !.at = "saveRoom", !.session = NoSession]
  OBVIOUS
<1>3. PICK s : s = sessions[m.sid]
  OBVIOUS
<1>4. /\ m.at = "saveSession" /\ m.op = "advance" /\ m \in Local /\ Knows(m)
      /\ Handler(m, kind, Known) /\ local'[w] = l
      /\ sessions' = [sessions EXCEPT ![m.sid] = m.session] /\ roomSession' = m.sid
      /\ room' = room /\ decisions' = decisions /\ kind' = kind
  BY <1>1, <1>2, SoloFacts DEF AdvanceSaveSession, SessionStoreSave, Continue
<1>5. /\ l.at = "saveRoom" /\ l.op = "advance" /\ l.sid = m.sid /\ l.week = m.week
      /\ l.room = m.room
  BY <1>2, <1>4 DEF Local
<1>6. /\ roomSession # NoId /\ m.sid = roomSession
      /\ s.Status = "active" /\ m.week = s.CurrentWeek + 1
      /\ m.session.CurrentWeek = m.week /\ m.session.moved = m.week
      /\ m.room.Status = m.session.Status
      /\ m.room.CurrentWeek = currentPlayableWeek(m.session)
      /\ m.room.Players = room.Players
  BY <1>3, <1>4 DEF Knows, SessionKnown, HasSession, WeekKnown
<1>7. /\ m.sid \in SessionIds /\ GoodSession(s) /\ GoodSession(m.session)
      /\ room # NoRoom /\ room.Status # "waiting"
  BY <1>3, <1>4, <1>6, SoloFacts DEF Handler
<1>8. \A sid \in SessionIds : sessions'[sid] = IF sid = m.sid THEN m.session ELSE sessions[sid]
  BY <1>4, <1>7 DEF Inv, StoresTypeOK
<1>9. s.CurrentWeek \in Nat /\ m.session.CurrentWeek \in Nat
  BY <1>7 DEF GoodSession, Session
<1>10. StoresInStep'
  <2>1. room.CurrentWeek <= s.CurrentWeek + 1 /\ room.Status # "finished"
    BY <1>3, <1>6 DEF SerialInv, StoresInStep, currentPlayableWeek
  <2>2. room.CurrentWeek \in Nat
    BY <1>7, SoloFacts DEF RoomRecord
  <2>3. room.CurrentWeek <= currentPlayableWeek(m.session)
    BY <1>6, <1>9, <2>1, <2>2 DEF currentPlayableWeek
  <2>4. ASSUME NEW week \in 1..MaxWeeks, decisions[week] # NoDecisions
        PROVE  week <= m.session.CurrentWeek + 1
    <3>1. week <= s.CurrentWeek + 1
      BY <1>3, <1>6, <2>4 DEF SerialInv, StoresInStep
    <3> QED  BY <1>6, <1>9, <3>1
  <2>5. sessions'[roomSession'] = m.session /\ roomSession' # NoId
    BY <1>4, <1>6, <1>7, <1>8
  <2> QED  BY <1>4, <1>7, <2>1, <2>3, <2>4, <2>5 DEF StoresInStep
<1>11. Moved'
  <2>1. \A sid \in Known : sid # m.sid => sessions[sid].moved = sessions[sid].CurrentWeek
    BY <1>1 DEF SerialInv, Moved, Moving, OneAtATime
  <2> QED  BY <1>6, <1>8, <2>1 DEF Moved, Known
<1>12. Knows(l)'
  <2>1. RoomKnown(l)' /\ StartKnown(l)'
    BY <1>5 DEF RoomKnown, StartKnown
  <2>2. SessionKnown(l)'
    BY <1>4, <1>5, <1>6 DEF SessionKnown, HasSession
  <2>3. WeekKnown(l)'
    BY <1>4, <1>5, <1>6, <1>7, <1>8 DEF WeekKnown
  <2> QED  BY <2>1, <2>2, <2>3 DEF Knows
<1>13. SerialInv'
  BY <1>4, <1>10, <1>11, <1>12, SoloStep
<1> QED  BY <1>4, <1>13, RoomStands

(* then the room, *)
LEMMA AdvanceSaveRoomSerial ==
  ASSUME Inv, SerialInv, OneAtATime, NEW w \in Workers, AdvanceSaveRoom(w)
  PROVE  SerialInv' /\ RoomStep
<1>1. PICK m : m = local[w]
  OBVIOUS
<1>2. PICK l : l = [m EXCEPT !.at = "deleteDecisions", !.room = NoRoom]
  OBVIOUS
<1>3. PICK s : s = sessions[m.sid]
  OBVIOUS
<1>4. /\ m.at = "saveRoom" /\ m.op = "advance" /\ m \in Local /\ Knows(m)
      /\ Handler(m, kind, Known) /\ local'[w] = l
      /\ room' = m.room /\ roomSession' = roomSession /\ sessions' = sessions
      /\ decisions' = decisions /\ kind' = kind
  BY <1>1, <1>2, SoloFacts DEF AdvanceSaveRoom, RoomStoreSave, Continue
<1>5. l.at = "deleteDecisions" /\ l.op = "advance" /\ l.sid = m.sid /\ l.week = m.week
  BY <1>2, <1>4 DEF Local
<1>6. /\ roomSession # NoId /\ m.sid = roomSession /\ m.room # NoRoom
      /\ m.room.Status = s.Status /\ m.room.CurrentWeek = currentPlayableWeek(s)
      /\ m.room.Players = room.Players /\ m.week = s.CurrentWeek
  BY <1>3, <1>4 DEF Knows, SessionKnown, HasSession, WeekKnown, Handler, HoldsRoom
<1>7. GoodSession(s) /\ room # NoRoom /\ room.Status # "waiting"
  BY <1>3, <1>6, SoloFacts
<1>8. m.room.Status # "waiting" /\ currentPlayableWeek(s) \in Nat
  BY <1>6, <1>7, PlayableWeek, MaxWeeksAssumption DEF GoodSession, Session
<1>9. StoresInStep'
  BY <1>3, <1>4, <1>6, <1>8 DEF SerialInv, StoresInStep
<1>10. Moved'
  BY <1>1, <1>4, Settled DEF Moved, Moving, Known
<1>11. Knows(l)'
  <2>1. RoomKnown(l)' /\ StartKnown(l)'
    BY <1>5 DEF RoomKnown, StartKnown
  <2>2. SessionKnown(l)' /\ WeekKnown(l)'
    BY <1>3, <1>4, <1>5, <1>6 DEF SessionKnown, HasSession, WeekKnown
  <2> QED  BY <2>1, <2>2 DEF Knows
<1>12. SerialInv'
  BY <1>4, <1>9, <1>10, <1>11, SoloStep
<1>13. RoomStep
  BY <1>4, <1>6, <1>8 DEF RoomStep, Keeps
<1> QED  BY <1>12, <1>13

(* and deletes the orders of the week. *)
LEMMA DeleteDecisionsSerial ==
  ASSUME Inv, SerialInv, OneAtATime, NEW w \in Workers, DeleteDecisions(w)
  PROVE  SerialInv' /\ RoomStep
<1>1. PICK m : m = local[w]
  OBVIOUS
<1>2. PICK l : l = [NoLocal EXCEPT !.op = "advance", !.at = "publish"]
  OBVIOUS
<1>3. /\ m.at = "deleteDecisions" /\ local'[w] = l
      /\ decisions' = [decisions EXCEPT ![m.week] = NoDecisions]
      /\ room' = room /\ roomSession' = roomSession /\ sessions' = sessions /\ kind' = kind
  BY <1>1, <1>2 DEF DeleteDecisions, DecisionStoreDelete, Continue, Inv
<1>4. l.at = "publish" /\ l.op = "advance"
  BY <1>2 DEF NoLocal
<1>5. \A week \in 1..MaxWeeks : decisions'[week] \in {decisions[week], NoDecisions}
  BY <1>3 DEF Inv, StoresTypeOK
<1>6. StoresInStep'
  BY <1>3, <1>5 DEF SerialInv, StoresInStep
<1>7. Moved'
  BY <1>1, <1>3, Settled DEF Moved, Moving, Known
<1>8. Knows(l)'
  BY <1>4 DEF Knows, RoomKnown, StartKnown, SessionKnown, HasSession, WeekKnown
<1>9. SerialInv'
  BY <1>3, <1>6, <1>7, <1>8, SoloStep
<1> QED  BY <1>3, <1>9, RoomStands

-----------------------------------------------------------------------------
(* Every step, of either service or of a request cut short, keeps the      *)
(* invariant and the players.                                              *)
LEMMA NextSerial ==
  ASSUME Inv, SerialInv, OneAtATime, [Next]_vars
  PROVE  SerialInv' /\ RoomStep
<1>1. CASE UNCHANGED vars
  <2>1. SerialInv'
    BY <1>1 DEF vars, storeVars, SerialInv, StoresInStep, Moved, Moving, Known,
                Knows, RoomKnown, StartKnown, SessionKnown, HasSession, WeekKnown
  <2> QED  BY <1>1, <2>1, RoomStands DEF vars, storeVars
<1>2. ASSUME NEW w \in Workers, GameServiceStep(w)  PROVE SerialInv' /\ RoomStep
  <2>1. CASE \/ StartGame(w) \/ EnsureRoles(w) \/ WriteRoles(w)
             \/ StartSaveRoom(w) \/ StartSaveSession(w)
    BY <2>1, StartGameSerial, EnsureRolesSerial, WriteRolesSerial, StartSaveRoomSerial,
       StartSaveSessionSerial
  <2>2. CASE \/ \E id \in PlayerIds, order \in OrderChoices : SubmitOrder(w, id, order)
             \/ AdvanceWeek(w)
    BY <2>2, BeginTurnSerial
  <2>3. CASE \/ GetRoomSession(w) \/ GetSession(w) \/ SubmitGetDecisions(w) \/ SaveDecisions(w)
             \/ AnswerGame(w)
    BY <2>3, GetSessionSerial, SubmitGetDecisionsSerial, SaveDecisionsSerial, AnswerSerial
  <2>4. CASE \/ AdvanceGetDecisions(w) \/ PlayWeek(w) \/ AdvanceSaveSession(w)
             \/ AdvanceSaveRoom(w) \/ DeleteDecisions(w)
    BY <2>4, AdvanceGetDecisionsSerial, PlayWeekSerial, AdvanceSaveSessionSerial,
       AdvanceSaveRoomSerial, DeleteDecisionsSerial
  <2> QED  BY <1>2, <2>1, <2>2, <2>3, <2>4 DEF GameServiceStep
<1>3. ASSUME NEW w \in Workers, Abort(w)  PROVE SerialInv' /\ RoomStep
  BY <1>3, LeaveKnown, RoomStands DEF Abort, Moving, storeVars
<1> QED  BY <1>1, <1>2, <1>3, RoomServiceSerial DEF Next

(* A server that just started satisfies it. *)
LEMMA InitSerial == Init => SerialInv
<1> SUFFICES ASSUME Init  PROVE SerialInv
  OBVIOUS
<1>1. /\ room = NoRoom /\ sessions = [sid \in SessionIds |-> NoSession] /\ roomSession = NoId
      /\ decisions = [week \in 1..MaxWeeks |-> NoDecisions]
      /\ local = [w \in Workers |-> NoLocal]
  BY DEF Init, StoresInit
<1>2. StoresInStep /\ Moved
  BY <1>1 DEF StoresInStep, Moved, Known
<1>3. \A w \in Workers : Knows(local[w])
  BY <1>1, KnowsNothing DEF NoLocal
<1> QED  BY <1>2, <1>3 DEF SerialInv

(* The inductive invariant of the server with one request at a time. *)
THEOREM SerialInvariant == ASSUME OneAtATime PROVE Spec => [](Inv /\ SerialInv)
  BY InitInv, NextInv, InitSerial, NextSerial, PTL DEF Spec

(* With one request at a time, cut short or not, the room never runs ahead *)
(* of its session (AdvanceWeek saves the session before the room).         *)
THEOREM RoomFollowsSession == ASSUME OneAtATime PROVE Spec => []RoomNotAheadOfSession
<1>1. SerialInv => RoomNotAheadOfSession
  BY DEF SerialInv, StoresInStep, RoomNotAheadOfSession
<1> QED  BY <1>1, SerialInvariant, PTL

(* With one request at a time, a session's queues have been moved on once  *)
(* for every week it has played, on the memory stores too.                 *)
THEOREM QueuesMoveWithWeeks == ASSUME OneAtATime PROVE Spec => []QueuesInStep
<1>1. SerialInv => QueuesInStep
  BY DEF SerialInv, Moved, Moving, QueuesInStep, Quiet, idle, Known
<1> QED  BY <1>1, SerialInvariant, PTL

(* With one request at a time, once the game has started nobody joins,     *)
(* leaves or changes role, and the game is not called off.                 *)
THEOREM RoomFrozen == ASSUME OneAtATime PROVE Spec => StartedRoomFrozen
<1>1. Inv /\ SerialInv /\ [Next]_vars =>
        [room # NoRoom /\ room.Status # "waiting" =>
           room'.Players = room.Players /\ room'.Status # "waiting"]_vars
  BY NextSerial DEF RoomStep
<1> QED  BY <1>1, SerialInvariant, PTL DEF Spec, StartedRoomFrozen

(* With one request at a time, a player whose join is about to be answered *)
(* is in the stored room, and no player ever leaves it.                    *)
THEOREM PlayersStay == ASSUME OneAtATime PROVE Spec => JoinedPlayersStay
<1>1. SerialInv => \A w \in Workers : local[w].op = "join" /\ local[w].at = "publish" =>
                                        InRoom(room, local[w].player)
  BY DEF SerialInv, Knows, RoomKnown
<1>2. Inv /\ SerialInv /\ [Next]_vars =>
        [room # NoRoom => \A id \in PlayerIds : InRoom(room, id) => InRoom(room', id)]_vars
  BY NextSerial DEF RoomStep, Keeps, InRoom
<1> QED  BY <1>1, <1>2, SerialInvariant, PTL DEF Spec, JoinedPlayersStay

-----------------------------------------------------------------------------
(* The stores as the players of Turns see them. *)
Phase == IF roomSession = NoId THEN "waiting" ELSE CurrentSession.Status
Played == CurrentSession.History
Standing ==
  LET orders == decisions[currentPlayableWeek(CurrentSession)]
  IN  IF orders = NoDecisions \/ CurrentSession.Status = "finished"
        THEN [r \in {} |-> 0] ELSE orders

(* A change of the queues of goods only is none to them. *)
LEMMA SameTurn ==
  ASSUME roomSession' = roomSession, decisions' = decisions,
         NEW s, s = CurrentSession, NEW t, t = CurrentSession',
         t.Status = s.Status, t.CurrentWeek = s.CurrentWeek, t.History = s.History
  PROVE  UNCHANGED PlayersTurns!vars
<1>1. currentPlayableWeek(t) = currentPlayableWeek(s)
  BY DEF currentPlayableWeek
<1>2. Phase' = Phase /\ Played' = Played /\ Standing' = Standing
  BY <1>1 DEF Phase, Played, Standing
<1> QED  BY <1>2 DEF PlayersTurns!vars, Phase, Played, Standing

(* Nor is a step that touches neither the session nor the orders. *)
LEMMA NoTurn ==
  ASSUME sessions' = sessions, roomSession' = roomSession, decisions' = decisions
  PROVE  UNCHANGED PlayersTurns!vars
<1>1. CurrentSession' = CurrentSession
  BY DEF CurrentSession
<1>2. Phase' = Phase /\ Played' = Played /\ Standing' = Standing
  BY <1>1 DEF Phase, Played, Standing
<1> QED  BY <1>2 DEF PlayersTurns!vars, Phase, Played, Standing

(* StartGame starts the game when it saves the session. *)
LEMMA StartTurn ==
  ASSUME Inv, SerialInv, OneAtATime, NEW w \in Workers, StartSaveSession(w)
  PROVE  PlayersTurns!Start
<1>1. PICK m : m = local[w]
  OBVIOUS
<1>2. /\ m.at = "saveSession" /\ m.op = "start" /\ Knows(m) /\ Handler(m, kind, Known)
      /\ sessions' = [sessions EXCEPT ![m.sid] = m.session]
      /\ roomSession' = m.sid /\ decisions' = decisions
  BY <1>1, SoloFacts DEF StartSaveSession, SessionStoreSave
<1>3. m.sid \in SessionIds /\ m.session = NewGameSession /\ roomSession = NoId
  BY <1>2 DEF Knows, StartKnown, Handler
<1>4. roomSession' # NoId /\ sessions'[m.sid] = NewGameSession
  BY <1>2, <1>3, NullAssumption DEF Inv, StoresTypeOK
<1>5. CurrentSession = NewGameSession /\ CurrentSession' = NewGameSession
  BY <1>2, <1>3, <1>4 DEF CurrentSession
<1>6. NewGameSession.Status = "active"
  BY DEF NewGameSession
<1>7. Phase = "waiting" /\ Phase' = "active" /\ Played' = Played /\ Standing' = Standing
  BY <1>2, <1>3, <1>4, <1>5, <1>6 DEF Phase, Played, Standing
<1> QED  BY <1>7 DEF PlayersTurns!Start, Phase, Played, Standing

(* SubmitOrder takes the order when it saves the orders of the week. *)
LEMMA OrderTurn ==
  ASSUME Inv, SerialInv, OneAtATime, NEW w \in Workers, SaveDecisions(w)
  PROVE  \E r \in Roles, q \in OrderChoices \cap Nat : PlayersTurns!TakeOrder(r, q)
<1>1. PICK m : m = local[w]
  OBVIOUS
<1>2. /\ m.at = "saveDecisions" /\ Knows(m) /\ Handler(m, kind, Known)
      /\ sessions' = sessions /\ roomSession' = roomSession
      /\ decisions' = [decisions EXCEPT ![m.week] = m.orders]
  BY <1>1, SoloFacts DEF SaveDecisions, DecisionStoreSave
<1>3. PICK s : s = CurrentSession
  OBVIOUS
<1>4. /\ roomSession # NoId /\ m.sid = roomSession /\ s = sessions[m.sid]
      /\ s.Status = "active" /\ m.week = s.CurrentWeek + 1
      /\ m.role \in Roles /\ m.order \in OrderChoices \cap Nat
      /\ m.orders = withOrder(decisions[m.week], m.role, m.order)
      /\ m.week \in 1..MaxWeeks /\ m.orders \in Orders
  BY <1>2, <1>3 DEF Knows, SessionKnown, HasSession, Handler, CurrentSession
<1>5. CurrentSession' = s /\ currentPlayableWeek(s) = m.week
  BY <1>2, <1>3, <1>4 DEF CurrentSession, currentPlayableWeek
<1>6. decisions'[m.week] = m.orders /\ m.orders # NoDecisions
  BY <1>2, <1>4, NullAssumption DEF Inv, StoresTypeOK
<1>7. Phase = "active" /\ Phase' = Phase /\ Played' = Played
  BY <1>2, <1>3, <1>4, <1>5 DEF Phase, Played
<1>8. Standing' = m.orders
  BY <1>4, <1>5, <1>6 DEF Standing
<1>9. Standing = IF decisions[m.week] = NoDecisions THEN [r \in {} |-> 0] ELSE decisions[m.week]
  BY <1>3, <1>4, <1>5 DEF Standing
<1>10. Standing' = [r \in DOMAIN Standing \cup {m.role} |->
                      IF r = m.role THEN m.order ELSE Standing[r]]
  <2>1. CASE decisions[m.week] = NoDecisions
    <3>1. m.orders = [r \in {m.role} |-> m.order]
      BY <1>4, <2>1 DEF withOrder
    <3>2. DOMAIN Standing = {}
      BY <1>9, <2>1
    <3> QED  BY <1>8, <3>1, <3>2
  <2>2. CASE decisions[m.week] # NoDecisions
    BY <1>4, <1>8, <1>9, <2>2 DEF withOrder
  <2> QED  BY <2>1, <2>2
<1>11. PlayersTurns!TakeOrder(m.role, m.order)
  BY <1>7, <1>10 DEF PlayersTurns!TakeOrder, Phase, Played, Standing
<1> QED  BY <1>4, <1>11

(* AdvanceWeek plays the week when it saves the session. *)
LEMMA WeekTurn ==
  ASSUME Inv, SerialInv, OneAtATime, NEW w \in Workers, AdvanceSaveSession(w)
  PROVE  PlayersTurns!PlayWeek
<1>1. PICK m : m = local[w]
  OBVIOUS
<1>2. /\ m.at = "saveSession" /\ m.op = "advance" /\ Knows(m) /\ Handler(m, kind, Known)
      /\ sessions' = [sessions EXCEPT ![m.sid] = m.session]
      /\ roomSession' = m.sid /\ decisions' = decisions
  BY <1>1, SoloFacts DEF AdvanceSaveSession, SessionStoreSave
<1>3. PICK s : s = CurrentSession
  OBVIOUS
<1>4. /\ roomSession # NoId /\ m.sid = roomSession /\ s = sessions[m.sid]
      /\ s.Status = "active" /\ m.week = s.CurrentWeek + 1
      /\ decisions[m.week] \in Orders /\ DOMAIN decisions[m.week] = Roles
      /\ m.session.CurrentWeek = m.week
      /\ m.session.History = Append(s.History, decisions[m.week])
  BY <1>2, <1>3 DEF Knows, SessionKnown, HasSession, WeekKnown, CurrentSession
<1>5. m.sid \in SessionIds /\ GoodSession(s) /\ GoodSession(m.session)
  BY <1>2, <1>4, SoloFacts DEF Handler
<1>6. roomSession' # NoId /\ CurrentSession' = m.session
  BY <1>2, <1>4, <1>5 DEF CurrentSession, Inv, StoresTypeOK
<1>7. currentPlayableWeek(s) = m.week /\ decisions[m.week] # NoDecisions
  BY <1>4, NullAssumption DEF currentPlayableWeek
<1>8. Standing = decisions[m.week]
  BY <1>3, <1>4, <1>7 DEF Standing
<1>9. Phase = "active" /\ Played = s.History /\ Played' = Append(Played, Standing)
  BY <1>3, <1>4, <1>6, <1>8 DEF Phase, Played
<1>10. Phase' = IF Len(Played) + 1 = MaxWeeks THEN "finished" ELSE "active"
  <2>1. Len(Played) = s.CurrentWeek /\ m.session.Status \in {"active", "finished"}
    BY <1>5, <1>9 DEF GoodSession, Session
  <2>2. m.session.Status = "finished" <=> s.CurrentWeek + 1 = MaxWeeks
    BY <1>4, <1>5 DEF GoodSession
  <2>3. Phase' = m.session.Status
    BY <1>6 DEF Phase
  <2> QED  BY <2>1, <2>2, <2>3
<1>11. Standing' = [r \in {} |-> 0]
  <2>1. CASE m.session.Status = "finished"
    BY <1>6, <2>1 DEF Standing
  <2>2. CASE m.session.Status # "finished"
    <3>1. currentPlayableWeek(m.session) = s.CurrentWeek + 2 /\ s.CurrentWeek \in Nat
      BY <1>4, <1>5, <2>2 DEF currentPlayableWeek, GoodSession, Session
    <3>2. currentPlayableWeek(m.session) \in 1..MaxWeeks
      BY <1>5, PlayableWeek
    <3>3. decisions[currentPlayableWeek(m.session)] = NoDecisions
      BY <1>4, <3>1, <3>2 DEF SerialInv, StoresInStep
    <3> QED  BY <1>2, <1>6, <3>3 DEF Standing
  <2> QED  BY <2>1, <2>2
<1>12. DOMAIN Standing = Roles
  BY <1>4, <1>8
<1> QED  BY <1>9, <1>10, <1>11, <1>12
         DEF PlayersTurns!PlayWeek, PlayersTurns!NoOrders, Phase, Played, Standing

(* The orders AdvanceWeek deletes last are those of a week that was played. *)
LEMMA DeleteTurn ==
  ASSUME Inv, SerialInv, OneAtATime, NEW w \in Workers, DeleteDecisions(w)
  PROVE  UNCHANGED PlayersTurns!vars
<1>1. PICK m : m = local[w]
  OBVIOUS
<1>2. /\ m.at = "deleteDecisions" /\ Knows(m) /\ Handler(m, kind, Known)
      /\ decisions' = [decisions EXCEPT ![m.week] = NoDecisions]
      /\ sessions' = sessions /\ roomSession' = roomSession
  BY <1>1, SoloFacts DEF DeleteDecisions, DecisionStoreDelete
<1>3. PICK s : s = CurrentSession
  OBVIOUS
<1>4. CurrentSession' = s
  BY <1>2, <1>3 DEF CurrentSession
<1>5. roomSession # NoId /\ m.sid = roomSession /\ s = sessions[m.sid] /\ GoodSession(s)
  <2>1. m.op = "advance"
    BY <1>2 DEF Knows, SessionKnown
  <2>2. roomSession # NoId /\ m.sid = roomSession
    BY <1>2, <2>1 DEF Knows, SessionKnown, HasSession
  <2> QED  BY <1>3, <2>2, SoloFacts DEF CurrentSession
<1>6. s.Status # "finished" => decisions'[currentPlayableWeek(s)] = decisions[currentPlayableWeek(s)]
  <2>1. m.op = "advance" /\ m.week = s.CurrentWeek
    BY <1>2, <1>5 DEF Knows, SessionKnown, WeekKnown
  <2>2. s.CurrentWeek \in Nat
    BY <1>5 DEF GoodSession, Session
  <2>3. s.Status # "finished" => currentPlayableWeek(s) = s.CurrentWeek + 1
    BY DEF currentPlayableWeek
  <2>4. s.Status # "finished" => currentPlayableWeek(s) # m.week
    BY <2>1, <2>2, <2>3
  <2> QED  BY <1>2, <2>4, <1>5, PlayableWeek DEF Inv, StoresTypeOK
<1>7. Phase' = Phase /\ Played' = Played /\ Standing' = Standing
  BY <1>2, <1>3, <1>4, <1>6 DEF Phase, Played, Standing
<1> QED  BY <1>7 DEF PlayersTurns!vars, Phase, Played, Standing

(* The queues moved on the memory stores before the week is saved are none *)
(* of the players' business.                                               *)
LEMMA PlayWeekTurn ==
  ASSUME Inv, SerialInv, OneAtATime, NEW w \in Workers, PlayWeek(w)
  PROVE  UNCHANGED PlayersTurns!vars
<1>1. PICK m : m = local[w]
  OBVIOUS
<1>2. PICK s : s = CurrentSession
  OBVIOUS
<1>3. PICK next : next = SessionAdvanceWeek(m.session, m.orders)
  OBVIOUS
<1>4. /\ m.at = "playWeek" /\ Knows(m) /\ Handler(m, kind, Known)
      /\ sessions' = [sessions EXCEPT ![m.sid] = sessionSeen(@, next)]
      /\ roomSession' = roomSession /\ decisions' = decisions
  BY <1>1, <1>3, SoloFacts DEF PlayWeek
<1>5. /\ roomSession # NoId /\ m.sid = roomSession /\ m.session = sessions[m.sid]
      /\ s = m.session /\ GoodSession(s)
  BY <1>2, <1>4 DEF Knows, SessionKnown, HasSession, Handler, CurrentSession
<1>6. PICK t : t = sessionSeen(s, next)
  OBVIOUS
<1>7. CurrentSession' = t
  BY <1>4, <1>5, <1>6, SoloFacts DEF CurrentSession, Inv, StoresTypeOK
<1>8. t.Status = s.Status /\ t.CurrentWeek = s.CurrentWeek /\ t.History = s.History
  BY <1>3, <1>5, <1>6, SeenPlayed
<1> QED  BY <1>2, <1>4, <1>7, <1>8, SameTurn

(* With one request at a time, cut short anywhere, the stores behave as    *)
(* the game of Turns, in which every request is one indivisible step: no   *)
(* order is lost, applied twice or applied to another week.                *)
THEOREM StoresImplementTurns == ASSUME OneAtATime PROVE Spec => ImplementsTurns
<1>1. Init => PlayersTurns!Init
  <2> SUFFICES ASSUME Init  PROVE PlayersTurns!Init
    OBVIOUS
  <2>1. roomSession = NoId /\ \A week \in 1..MaxWeeks : decisions[week] = NoDecisions
    BY DEF Init, StoresInit
  <2>2. CurrentSession = NewGameSession /\ currentPlayableWeek(NewGameSession) \in 1..MaxWeeks
    BY <2>1, NewSessionGood, PlayableWeek DEF CurrentSession
  <2>3. NewGameSession.History = <<>>
    BY DEF NewGameSession
  <2>4. Phase = "waiting" /\ Played = <<>> /\ Standing = [r \in {} |-> 0]
    BY <2>1, <2>2, <2>3 DEF Phase, Played, Standing
  <2> QED  BY <2>4 DEF PlayersTurns!Init, PlayersTurns!NoOrders, Phase, Played, Standing
<1>2. Inv /\ SerialInv /\ [Next]_vars => [PlayersTurns!Next]_(PlayersTurns!vars)
  <2> SUFFICES ASSUME Inv, SerialInv, [Next]_vars
               PROVE  [PlayersTurns!Next]_(PlayersTurns!vars)
    OBVIOUS
  <2>1. CASE UNCHANGED vars
    BY <2>1, NoTurn DEF vars, storeVars
  <2>2. ASSUME NEW w \in Workers, RoomServiceStep(w) \/ Abort(w)
        PROVE  UNCHANGED PlayersTurns!vars
    <3>1. sessions' = sessions /\ roomSession' = roomSession /\ decisions' = decisions
      BY <2>2 DEF RoomServiceStep, CreateRoom, ReadRoom, RefuseRoom, WriteRole, JoinRoom,
                  RequestRole, SaveRoom, AnswerRoom, ChangePlayers, RoomStoreSave,
                  PublishRoomEvent, storeVars, Abort
    <3> QED  BY <3>1, NoTurn
  <2>3. ASSUME NEW w \in Workers, GameServiceStep(w)
        PROVE  [PlayersTurns!Next]_(PlayersTurns!vars)
    <3>1. CASE \/ StartGame(w) \/ EnsureRoles(w) \/ WriteRoles(w) \/ StartSaveRoom(w)
               \/ \E id \in PlayerIds, order \in OrderChoices : SubmitOrder(w, id, order)
               \/ SubmitGetDecisions(w) \/ AdvanceWeek(w) \/ GetRoomSession(w) \/ GetSession(w)
               \/ AdvanceGetDecisions(w) \/ AdvanceSaveRoom(w) \/ AnswerGame(w)
      <4>1. sessions' = sessions /\ roomSession' = roomSession /\ decisions' = decisions
        BY <3>1 DEF StartGame, EnsureRoles, WriteRoles, Starting, StartSaveRoom, SubmitOrder,
                    SubmitGetDecisions, AdvanceWeek, GetRoomSession, GetSession,
                    AdvanceGetDecisions, AdvanceSaveRoom, AnswerGame, ChangePlayers,
                    RoomStoreSave, PublishRoomEvent, storeVars
      <4> QED  BY <4>1, NoTurn
    <3>2. CASE StartSaveSession(w)
      BY <3>2, StartTurn DEF PlayersTurns!Next
    <3>3. CASE SaveDecisions(w)
      BY <3>3, OrderTurn DEF PlayersTurns!Next
    <3>4. CASE AdvanceSaveSession(w)
      BY <3>4, WeekTurn DEF PlayersTurns!Next
    <3>5. CASE DeleteDecisions(w) \/ PlayWeek(w)
      BY <3>5, DeleteTurn, PlayWeekTurn
    <3> QED  BY <2>3, <3>1, <3>2, <3>3, <3>4, <3>5 DEF GameServiceStep
  <2> QED  BY <2>1, <2>2, <2>3 DEF Next
<1> QED  BY <1>1, <1>2, SerialInvariant, PTL DEF Spec, ImplementsTurns, PlayersTurns!Spec
-----------------------------------------------------------------------------
(* One request at a time gives no role twice, on the memory stores either, *)
(* and everybody in a started room has one.                                *)
Seated(r) ==
  /\ RolesDistinct(r)
  /\ r.Status # "waiting" => \A i \in DOMAIN r.Players : r.Players[i].Role # NoRole

(* What a request that is going to write roles knows of them. *)
SeatKnown(l) ==
  /\ l.at = "saveRoom" /\ l.op # "advance" => Seated(l.room)
  /\ l.at = "writeRole" => \A i \in DOMAIN room.Players : i # l.seat => room.Players[i].Role # l.role
  /\ l.at = "writeRoles" =>
       l.free = availableRoles(room) /\ Len(room.Players) = Len(AllRoles)

SeatsInv == /\ room # NoRoom => Seated(room)
            /\ \A w \in Workers : SeatKnown(local[w])

(* There is nobody else to know anything. *)
LEMMA SeatStep ==
  ASSUME OneAtATime, NEW w \in Workers, NEW l, local'[w] = l, SeatKnown(l)',
         room' # NoRoom => Seated(room')
  PROVE  SeatsInv'
<1>1. ASSUME NEW v \in Workers  PROVE SeatKnown(local[v])'
  <2>1. local'[v] = l
    BY DEF OneAtATime
  <2> QED  BY <2>1 DEF SeatKnown
<1> QED  BY <1>1 DEF SeatsInv, Seated, RolesDistinct

(* Steps that leave the room and are not going to write to it. *)
LEMMA SeatsStand ==
  ASSUME SeatsInv, OneAtATime, NEW w \in Workers, room' = room,
         local'[w].at \notin {"writeRole", "writeRoles"},
         local'[w].at = "saveRoom" => local'[w].op = "advance"
  PROVE  SeatsInv'
<1>1. PICK l : l = local'[w]
  OBVIOUS
<1>2. /\ l.at \notin {"writeRole", "writeRoles"}
      /\ l.at = "saveRoom" => l.op = "advance"
  BY <1>1
<1>3. SeatKnown(l)'
  BY <1>2 DEF SeatKnown
<1> QED  BY <1>1, <1>3, SeatStep DEF SeatsInv

(* What the request knows. *)
LEMMA SeatFacts ==
  ASSUME SeatsInv, NEW w \in Workers
  PROVE  SeatKnown(local[w]) /\ (room # NoRoom => Seated(room))
  BY DEF SeatsInv

(* A role that is nobody else's leaves the roles distinct. *)
LEMMA WithRoleDistinct ==
  ASSUME NEW r, Legal(r), RolesDistinct(r), NEW n, NEW role \in Roles,
         \A i \in DOMAIN r.Players : i # n => r.Players[i].Role # role
  PROVE  RolesDistinct(WithRoleAt(r, n, role))
<1> DEFINE q == WithRoleAt(r, n, role)
           changed == [r.Players EXCEPT ![n] = [r.Players[n] EXCEPT !.Role = role]]
<1>1. r \in RoomRecord /\ \A i \in DOMAIN r.Players : r.Players[i] \in Player
  <2>1. r \in RoomRecord /\ r.Players \in Seq(Player)
    BY DEF Legal, RoomRecord
  <2> QED  BY <2>1
<1>2. q.Players = changed
  <2>1. q = [r EXCEPT !.Players = changed]
    BY DEF WithRoleAt
  <2> HIDE DEF changed
  <2> QED  BY <1>1, <2>1 DEF RoomRecord
<1>3. /\ DOMAIN changed = DOMAIN r.Players
      /\ \A i \in DOMAIN r.Players : changed[i].Role = IF i = n THEN role ELSE r.Players[i].Role
  BY <1>1 DEF Player
<1> HIDE DEF changed, q
<1>4. RolesDistinct(q)
  BY <1>2, <1>3 DEF RolesDistinct
<1> QED  BY <1>4 DEF q

(* What a copy of the memory stores sees of roles that are distinct. *)
LEMMA SeenSeated ==
  ASSUME NEW r, Legal(r), Seated(r), r.Status = "waiting",
         NEW written \in RoomRecord, Keeps(r, written), RolesDistinct(written)
  PROVE  Seated(roomSeen(r, written))
<1> DEFINE s == roomSeen(r, written)
<1>1. s.Status = "waiting"
  BY SeenKeeps
<1>2. CASE kind = "redis"
  BY <1>2 DEF roomSeen
<1>3. CASE kind # "redis"
  <2> DEFINE seen == slotsSeen(r.Players, written.Players)
  <2>1. r # NoRoom /\ r \in RoomRecord
    BY NullAssumption DEF Legal
  <2>2. s = [r EXCEPT !.Players = seen]
    BY <1>3, <2>1 DEF roomSeen
  <2>3. /\ DOMAIN seen = DOMAIN r.Players /\ DOMAIN r.Players \subseteq DOMAIN written.Players
        /\ \A i \in DOMAIN r.Players : seen[i] = written.Players[i]
    BY DEF slotsSeen, Keeps
  <2> HIDE DEF seen
  <2>4. s.Players = seen
    BY <2>1, <2>2 DEF RoomRecord
  <2> HIDE DEF s
  <2>5. RolesDistinct(s)
    BY <2>3, <2>4 DEF RolesDistinct
  <2> QED  BY <1>1, <2>5 DEF Seated, s
<1> QED  BY <1>2, <1>3

(* Steps that change the players of the copy of a room that waits for its  *)
(* game.                                                                   *)
LEMMA ChangedSeats ==
  ASSUME Inv, SerialInv, SeatsInv, OneAtATime, NEW w \in Workers,
         room # NoRoom, room.Status = "waiting", NEW written \in RoomRecord,
         Keeps(room, written), RolesDistinct(written), NEW l, ChangePlayers(w, written, l),
         l.at \in {"idle", "saveRoom"}, l.at = "saveRoom" => Seated(l.room)
  PROVE  SeatsInv'
<1>1. room' = roomSeen(room, written) /\ local'[w] = l
  BY DEF ChangePlayers
<1>2. Seated(room')
  BY <1>1, SoloFacts, SeatFacts, SeenSeated
<1>3. SeatKnown(l)'
  BY DEF SeatKnown, Seated, RolesDistinct
<1> QED  BY <1>1, <1>2, <1>3, SeatStep

(* A player who joins has no role yet. *)
LEMMA JoinSeats ==
  ASSUME Inv, SerialInv, SeatsInv, OneAtATime, NEW w \in Workers, NEW name \in Names,
         JoinRoom(w, name)
  PROVE  SeatsInv'
<1>1. roomOf(w) = room /\ room # NoRoom /\ Legal(room) /\ room \in RoomRecord
  BY RoomHeld DEF JoinRoom
<1>2. PICK id \in PlayerIds \ issued :
        ChangePlayers(w, AddPlayer(room, id, name),
          [NoLocal EXCEPT !.op = "join", !.at = "saveRoom",
                          !.room = AddPlayer(room, id, name), !.player = id])
  BY <1>1 DEF JoinRoom
<1>3. MayAddPlayer(room, name)
  BY <1>1 DEF JoinRoom
<1>4. PICK written : written = AddPlayer(room, id, name)
  OBVIOUS
<1>5. PICK l : l = [NoLocal EXCEPT !.op = "join", !.at = "saveRoom", !.room = written, !.player = id]
  OBVIOUS
<1>6. ChangePlayers(w, written, l)
  BY <1>2, <1>4, <1>5
<1>7. l.at = "saveRoom" /\ l.room = written
  BY <1>5 DEF NoLocal
<1>8. PICK p : p = [ID |-> id, Name |-> name, Role |-> NoRole]
  OBVIOUS
<1>9. written \in RoomRecord /\ written.Players = Append(room.Players, p) /\ p.Role = NoRole
  BY <1>1, <1>3, <1>4, <1>8, AddPlayerLegal
<1>10. written.Status = "waiting" /\ room.Status = "waiting"
  BY <1>1, <1>3, <1>4 DEF AddPlayer, MayAddPlayer, RoomRecord
<1>11. PICK n \in Nat : /\ DOMAIN room.Players = 1..n /\ DOMAIN written.Players = 1..(n + 1)
                        /\ written.Players[n + 1] = p
                        /\ \A i \in 1..n : written.Players[i] = room.Players[i]
  <2>1. room.Players \in Seq(Player) /\ p \in Player
    BY <1>1, <1>8 DEF RoomRecord, Player
  <2>2. Len(room.Players) \in Nat /\ DOMAIN room.Players = 1..Len(room.Players)
    BY <2>1
  <2> QED  BY <1>9, <2>1, <2>2
<1>12. Keeps(room, written)
  <2>1. room.Players \in Seq(Player) /\ p \in Player
    BY <1>1, <1>8 DEF RoomRecord, Player
  <2> QED  BY <1>11 DEF Keeps
<1>13. RolesDistinct(written)
  <2>1. ASSUME NEW i \in 1..(n + 1), NEW j \in 1..(n + 1), i # j,
               written.Players[i].Role = written.Players[j].Role
        PROVE  written.Players[i].Role = NoRole
    <3>1. CASE i \in 1..n /\ j \in 1..n
      <4>1. RolesDistinct(room)
        BY <1>1, SeatFacts DEF Seated
      <4> QED  BY <1>11, <2>1, <3>1, <4>1 DEF RolesDistinct
    <3>2. CASE i = n + 1 \/ j = n + 1
      BY <1>9, <1>11, <2>1, <3>2
    <3> QED  BY <3>1, <3>2
  <2> QED  BY <1>11, <2>1 DEF RolesDistinct
<1>14. Seated(l.room)
  BY <1>7, <1>10, <1>13 DEF Seated
<1> QED  BY <1>1, <1>6, <1>7, <1>9, <1>10, <1>12, <1>13, <1>14, ChangedSeats

(* AssignRole has checked that the role is nobody else's. *)
LEMMA RequestRoleSeats ==
  ASSUME Inv, SerialInv, SeatsInv, OneAtATime, NEW w \in Workers, NEW id \in PlayerIds,
         NEW role \in Roles \cup {UnknownRole}, RequestRole(w, id, role)
  PROVE  SeatsInv'
<1>1. /\ roomOf(w) = room /\ room # NoRoom /\ Legal(room) /\ room \in RoomRecord
      /\ RolesDistinct(room)
  BY RoomHeld, SeatFacts DEF RequestRole, Seated
<1>2. MayAssignRole(room, id, role) /\ room' = room
  BY <1>1 DEF RequestRole, storeVars
<1>3. role \in Roles /\ room.Status = "waiting"
  BY <1>2 DEF MayAssignRole
<1>4. PICK n : n = PlayerIndex(room, id)
  OBVIOUS
<1>5. \A i \in DOMAIN room.Players : i # n => room.Players[i].Role # role
  <2>1. n \in DOMAIN room.Players /\ room.Players[n].ID = id
    BY <1>2, <1>4 DEF MayAssignRole, PlayerIndex
  <2> QED  BY <1>1, <1>2, <2>1 DEF MayAssignRole, Legal, WellFormed
<1>6. CASE kind = "memory"
  <2>1. PICK l : l = [local[w] EXCEPT !.at = "writeRole", !.role = role, !.seat = n]
    OBVIOUS
  <2>2. local'[w] = l
    BY <1>1, <1>4, <1>6, <2>1 DEF RequestRole, Continue, Inv
  <2>3. l.at = "writeRole" /\ l.role = role /\ l.seat = n
    BY <2>1, SoloFacts DEF Local
  <2>4. SeatKnown(l)'
    BY <1>2, <1>5, <2>3 DEF SeatKnown
  <2> QED  BY <1>2, <2>2, <2>4, SeatFacts, SeatStep
<1>7. CASE kind # "memory"
  <2>1. PICK q : q = AssignRole(room, id, role)
    OBVIOUS
  <2>2. PICK l : l = [NoLocal EXCEPT !.op = "assign", !.at = "saveRoom", !.room = q]
    OBVIOUS
  <2>3. local'[w] = l
    BY <1>7, <2>1, <2>2 DEF RequestRole, Continue, Inv
  <2>4. l.at = "saveRoom" /\ l.op = "assign" /\ l.room = q
    BY <2>2 DEF NoLocal
  <2>5. RolesDistinct(q)
    BY <1>1, <1>3, <1>4, <1>5, <2>1, WithRoleDistinct DEF AssignRole
  <2>6. q.Status = "waiting"
    BY <1>1, <1>3, <2>1 DEF AssignRole, WithRoleAt, RoomRecord
  <2>7. SeatKnown(l)'
    BY <2>4, <2>5, <2>6 DEF SeatKnown, Seated, RolesDistinct
  <2> QED  BY <1>2, <2>3, <2>7, SeatFacts, SeatStep
<1> QED  BY <1>6, <1>7

(* On the memory stores it still is when the role is written. *)
LEMMA WriteRoleSeats ==
  ASSUME Inv, SerialInv, SeatsInv, OneAtATime, NEW w \in Workers, WriteRole(w)
  PROVE  SeatsInv'
<1>1. local[w].at = "writeRole"
  BY DEF WriteRole
<1>2. /\ kind = "memory" /\ local[w].role \in Roles /\ local[w].room = room /\ room # NoRoom
      /\ room.Status = "waiting" /\ Legal(room) /\ room \in RoomRecord
  BY <1>1, SoloFacts DEF Handler, HoldsRoom, Knows, RoomKnown
<1>3. /\ RolesDistinct(room)
      /\ \A i \in DOMAIN room.Players : i # local[w].seat => room.Players[i].Role # local[w].role
  BY <1>1, <1>2, SeatFacts DEF SeatKnown, Seated
<1>4. PICK written : written = WithRoleAt(local[w].room, local[w].seat, local[w].role)
  OBVIOUS
<1>5. PICK l : l = [NoLocal EXCEPT !.op = "assign", !.at = "saveRoom", !.room = written]
  OBVIOUS
<1>6. ChangePlayers(w, written, l)
  BY <1>4, <1>5 DEF WriteRole
<1>7. l.at = "saveRoom" /\ l.room = written
  BY <1>5 DEF NoLocal
<1>8. written \in RoomRecord /\ Keeps(room, written) /\ written.Status = "waiting"
  BY <1>2, <1>4, WithRoleKeeps
<1>9. RolesDistinct(written)
  BY <1>2, <1>3, <1>4, WithRoleDistinct
<1>10. Seated(l.room)
  BY <1>7, <1>8, <1>9 DEF Seated
<1> QED  BY <1>2, <1>6, <1>7, <1>8, <1>9, <1>10, ChangedSeats

(* StartGame, once everybody has a role of his own. *)
LEMMA StartingSeats ==
  ASSUME Inv, SerialInv, SeatsInv, OneAtATime, NEW w \in Workers,
         room # NoRoom, room.Status = "waiting", NEW r \in RoomRecord, Keeps(room, r),
         RolesDistinct(r), \A i \in DOMAIN r.Players : r.Players[i].Role # NoRole,
         Starting(w, r)
  PROVE  SeatsInv'
<1>1. PICK sid : ChangePlayers(w, r, [NoLocal EXCEPT !.op = "start", !.at = "saveRoom",
                                        !.room = Started(r), !.sid = sid,
                                        !.session = NewGameSession])
  BY DEF Starting
<1>2. PICK started : started = Started(r)
  OBVIOUS
<1>3. PICK l : l = [NoLocal EXCEPT !.op = "start", !.at = "saveRoom", !.room = started,
                                   !.sid = sid, !.session = NewGameSession]
  OBVIOUS
<1>4. started.Players = r.Players
  BY <1>2 DEF Started, RoomRecord
<1>5. l.at = "saveRoom" /\ l.room = started
  BY <1>3 DEF NoLocal
<1>6. ChangePlayers(w, r, l)
  BY <1>1, <1>2, <1>3
<1>7. Seated(l.room)
  BY <1>4, <1>5 DEF Seated, RolesDistinct
<1> QED  BY <1>5, <1>6, <1>7, ChangedSeats

(* On Redis it gives the players without a role the roles that are left. *)
LEMMA StartGameSeats ==
  ASSUME Inv, SerialInv, SeatsInv, OneAtATime, NEW w \in Workers, StartGame(w)
  PROVE  SeatsInv'
<1>1. room # NoRoom /\ Legal(room)
  BY RoomHeld DEF StartGame
<1>2. MayStart(room) /\ Starting(w, EnsureRolesAssigned(room))
  BY DEF StartGame
<1>3. room.Status = "waiting" /\ RolesDistinct(room) /\ Len(room.Players) = Len(AllRoles)
  BY <1>2 DEF MayStart
<1>4. PICK r : r = EnsureRolesAssigned(room)
  OBVIOUS
<1>5. r \in RoomRecord /\ Keeps(room, r) /\ DOMAIN r.Players = DOMAIN room.Players
  BY <1>1, <1>4, AvailableFacts, WithRolesKeeps, WithRolesFacts DEF EnsureRolesAssigned
<1>6. RolesDistinct(r)
  BY <1>1, <1>3, <1>4, WithRolesDistinct DEF EnsureRolesAssigned
<1>7. \A i \in DOMAIN r.Players : r.Players[i].Role # NoRole
  BY <1>1, <1>3, <1>4, <1>5, EverybodySeated, RolesAssumption
<1> QED  BY <1>1, <1>2, <1>3, <1>4, <1>5, <1>6, <1>7, StartingSeats

(* On the memory stores it looks them up first, *)
LEMMA EnsureRolesSeats ==
  ASSUME Inv, SerialInv, SeatsInv, OneAtATime, NEW w \in Workers, EnsureRoles(w)
  PROVE  SeatsInv'
<1>1. PICK l : l = [local[w] EXCEPT !.at = "writeRoles", !.free = availableRoles(local[w].room)]
  OBVIOUS
<1>2. local[w].at = "haveRoom" /\ local[w].room = room /\ local[w] \in Local
  BY SoloFacts DEF EnsureRoles, hasRoom, Knows, RoomKnown
<1>3. l.at = "writeRoles" /\ l.free = availableRoles(room) /\ Len(room.Players) = Len(AllRoles)
  BY <1>1, <1>2 DEF Local, EnsureRoles, MayStart
<1>4. local'[w] = l /\ room' = room
  BY <1>1 DEF EnsureRoles, Continue, Inv, storeVars
<1>5. SeatKnown(l)'
  BY <1>3, <1>4 DEF SeatKnown
<1> QED  BY <1>4, <1>5, SeatFacts, SeatStep

(* and they still are what is left when it writes them. *)
LEMMA WriteRolesSeats ==
  ASSUME Inv, SerialInv, SeatsInv, OneAtATime, NEW w \in Workers, WriteRoles(w)
  PROVE  SeatsInv'
<1>1. /\ local[w].at = "writeRoles" /\ local[w].room = room /\ room # NoRoom /\ Legal(room)
      /\ room.Status = "waiting" /\ local[w].free \in Seq(Roles)
  BY SoloFacts DEF WriteRoles, Handler, HoldsRoom, Knows, RoomKnown, Local
<1>2. local[w].free = availableRoles(room) /\ RolesDistinct(room)
  BY <1>1, SeatFacts DEF SeatKnown, Seated
<1>3. PICK filled : filled = WithRoles(room, local[w].free)
  OBVIOUS
<1>4. filled \in RoomRecord /\ Keeps(room, filled)
  BY <1>1, <1>3, WithRolesKeeps
<1>5. RolesDistinct(filled)
  BY <1>1, <1>2, <1>3, WithRolesDistinct
<1>6. CASE /\ \A i \in DOMAIN filled.Players : filled.Players[i].Role # NoRole
           /\ Starting(w, filled)
  BY <1>1, <1>4, <1>5, <1>6, StartingSeats
<1>7. CASE ChangePlayers(w, filled, NoLocal)
  <2>1. NoLocal.at = "idle"
    BY DEF NoLocal
  <2> QED  BY <1>1, <1>4, <1>5, <1>7, <2>1, ChangedSeats
<1> QED  BY <1>1, <1>3, <1>6, <1>7 DEF WriteRoles, rolesSuffice

(* Every copy of the room that is saved is in order. *)
LEMMA SavingSeats ==
  ASSUME Inv, SerialInv, SeatsInv, OneAtATime, NEW w \in Workers,
         SaveRoom(w) \/ StartSaveRoom(w) \/ AdvanceSaveRoom(w)
  PROVE  SeatsInv'
<1>1. PICK m : m = local[w]
  OBVIOUS
<1>2. /\ m.at = "saveRoom" /\ m \in Local /\ Knows(m) /\ SeatKnown(m)
      /\ room' = m.room
      /\ \E place \in {"publish", "saveSession", "deleteDecisions"} :
           local'[w] = [m EXCEPT !.at = place, !.room = NoRoom]
      /\ m.op \in {"create", "join", "assign", "start", "advance"}
  BY <1>1, SoloFacts, SeatFacts
     DEF SaveRoom, StartSaveRoom, AdvanceSaveRoom, RoomStoreSave, Continue
<1>3. PICK l : /\ local'[w] = l
               /\ l.at \in {"publish", "saveSession", "deleteDecisions"}
  BY <1>2, ZenonT(40) DEF Local
<1>4. SeatKnown(l)'
  BY <1>3 DEF SeatKnown
<1>5. Seated(room')
  <2>1. CASE m.op # "advance"
    BY <1>2, <2>1 DEF SeatKnown
  <2>2. CASE m.op = "advance"
    <3>1. m.room.Players = room.Players /\ roomSession # NoId
      BY <1>2, <2>2 DEF Knows, WeekKnown, SessionKnown, HasSession
    <3>2. room # NoRoom /\ room.Status # "waiting" /\ Seated(room)
      BY <3>1, SoloFacts, SeatFacts
    <3> QED  BY <1>2, <3>1, <3>2 DEF Seated, RolesDistinct
  <2> QED  BY <2>1, <2>2
<1> QED  BY <1>3, <1>4, <1>5, SeatStep

(* The other steps of the room service, of StartGame and of AdvanceWeek. *)
LEMMA OtherSeats ==
  ASSUME Inv, SeatsInv, OneAtATime, NEW w \in Workers,
         \/ RefuseRoom(w) \/ Abort(w) \/ StartSaveSession(w) \/ AdvanceSaveSession(w)
         \/ \E op \in {"join", "assign", "start"} : ReadRoom(w, op)
  PROVE  SeatsInv'
<1>1. room' = room
  BY DEF RefuseRoom, Abort, StartSaveSession, AdvanceSaveSession, ReadRoom, SessionStoreSave,
         storeVars
<1>2. PICK l : local'[w] = l /\ \/ l = NoLocal
                                \/ l = [NoLocal EXCEPT !.op = "start", !.at = "publish"]
                                \/ /\ local[w].op = "advance"
                                   /\ l = [local[w] EXCEPT !.at = "saveRoom", !.session = NoSession]
                                \/ \E op : l = [NoLocal EXCEPT !.op = op, !.at = "haveRoom", !.room = room]
  BY DEF RefuseRoom, Abort, StartSaveSession, AdvanceSaveSession, ReadRoom, Leave, Continue, Inv
<1>3. l.at \notin {"writeRole", "writeRoles"} /\ (l.at = "saveRoom" => l.op = "advance")
  <2>1. local[w] \in Local
    BY DEF Inv
  <2>2. CASE l = [local[w] EXCEPT !.at = "saveRoom", !.session = NoSession] /\ local[w].op = "advance"
    BY <2>1, <2>2 DEF Local
  <2>3. CASE l = NoLocal
    BY <2>3 DEF NoLocal
  <2>4. CASE l = [NoLocal EXCEPT !.op = "start", !.at = "publish"]
    BY <2>4 DEF NoLocal
  <2>5. ASSUME NEW op, l = [NoLocal EXCEPT !.op = op, !.at = "haveRoom", !.room = room]
        PROVE  l.at = "haveRoom"
    BY <2>5 DEF NoLocal
  <2> QED  BY <1>2, <2>2, <2>3, <2>4, <2>5
<1> QED  BY <1>1, <1>2, <1>3, SeatsStand

(* A room that was just created is empty. *)
LEMMA CreateSeats ==
  ASSUME Inv, SeatsInv, OneAtATime, NEW w \in Workers, CreateRoom(w)
  PROVE  SeatsInv'
<1>1. PICK l : l = [NoLocal EXCEPT !.op = "create", !.at = "saveRoom", !.room = NewRoom]
  OBVIOUS
<1>2. l.at = "saveRoom" /\ l.room = NewRoom
  BY <1>1 DEF NoLocal
<1>3. local'[w] = l /\ room' = room
  BY <1>1 DEF CreateRoom, Continue, Inv, storeVars
<1>4. NewRoom.Players = <<>> /\ NewRoom.Status = "waiting"
  BY DEF NewRoom
<1>5. Seated(NewRoom)
  BY <1>4 DEF Seated, RolesDistinct
<1>6. SeatKnown(l)'
  BY <1>2, <1>5 DEF SeatKnown, Seated, RolesDistinct
<1> QED  BY <1>3, <1>6, SeatFacts, SeatStep

(* Every step keeps the seats. *)
LEMMA NextSeats ==
  ASSUME Inv, SerialInv, SeatsInv, OneAtATime, [Next]_vars
  PROVE  SeatsInv'
<1>1. CASE UNCHANGED vars
  BY <1>1 DEF vars, storeVars, SeatsInv, Seated, RolesDistinct, SeatKnown
<1>2. ASSUME NEW w \in Workers, RoomServiceStep(w)  PROVE SeatsInv'
  <2>1. CASE AnswerRoom(w)
    BY <2>1, PlayingPlaces, SeatsStand DEF Playing
  <2>2. CASE ~AnswerRoom(w)
    BY <1>2, <2>2, CreateSeats, JoinSeats, RequestRoleSeats, WriteRoleSeats, SavingSeats,
       OtherSeats DEF RoomServiceStep
  <2> QED  BY <2>1, <2>2
<1>3. ASSUME NEW w \in Workers, GameServiceStep(w)  PROVE SeatsInv'
  <2>1. CASE Playing(w)
    BY <2>1, PlayingPlaces, SeatsStand
  <2>2. CASE ~Playing(w)
    BY <1>3, <2>2, StartGameSeats, EnsureRolesSeats, WriteRolesSeats, SavingSeats, OtherSeats
       DEF GameServiceStep, Playing
  <2> QED  BY <2>1, <2>2
<1>4. ASSUME NEW w \in Workers, Abort(w)  PROVE SeatsInv'
  BY <1>4, OtherSeats
<1> QED  BY <1>1, <1>2, <1>3, <1>4 DEF Next

(* Nobody is seated before the room is there. *)
LEMMA InitSeats == Init => SeatsInv
<1> SUFFICES ASSUME Init  PROVE SeatsInv
  OBVIOUS
<1>1. room = NoRoom /\ local = [w \in Workers |-> NoLocal]
  BY DEF Init, StoresInit
<1> QED  BY <1>1 DEF SeatsInv, SeatKnown, NoLocal

(* With one request at a time, cut short or not, nobody has the role of    *)
(* another, and everybody in a started room has one.                       *)
THEOREM SeatsStayTaken == ASSUME OneAtATime PROVE Spec => [](Inv /\ SerialInv /\ SeatsInv)
  BY SerialInvariant, InitSeats, NextSeats, PTL DEF Spec

(* StartGame has a role for every seat of the room it checked. *)
LEMMA RolesForEverySeat ==
  ASSUME Inv, SerialInv, SeatsInv, OneAtATime
  PROVE  RolesSuffice /\ \A w \in Workers : "panic" \notin errorsAhead(local[w])
<1>1. ASSUME NEW w \in Workers, local[w].at = "writeRoles"
      PROVE  rolesSuffice(local[w].room, local[w].free)
  <2>1. local[w].room = room /\ room # NoRoom /\ Legal(room) /\ room.Status = "waiting"
    BY <1>1, SoloFacts DEF Handler, HoldsRoom, Knows, RoomKnown, Local
  <2>2. /\ local[w].free = availableRoles(room) /\ Len(room.Players) = Len(AllRoles)
        /\ RolesDistinct(room)
    BY <1>1, <2>1, SeatFacts DEF SeatKnown, Seated
  <2>3. PICK filled : filled = WithRoles(room, availableRoles(room))
    OBVIOUS
  <2>4. DOMAIN filled.Players = DOMAIN room.Players
    BY <2>1, <2>3, AvailableFacts, WithRolesFacts
  <2>5. \A i \in DOMAIN filled.Players : filled.Players[i].Role # NoRole
    BY <2>1, <2>2, <2>3, <2>4, EverybodySeated, RolesAssumption DEF EnsureRolesAssigned
  <2> QED  BY <2>1, <2>2, <2>3, <2>5 DEF rolesSuffice
<1>2. ASSUME NEW w \in Workers  PROVE "panic" \notin errorsAhead(local[w])
  <2>1. "panic" \notin KnownErrors \cup {"none"}
    BY DEF KnownErrors
  <2> QED  BY <1>1, <2>1, ErrorAheadKnown
<1> QED  BY <1>2 DEF RolesSuffice

(* With one request at a time no StartGame runs out of roles (room.go      *)
(* EnsureRolesAssigned), on the memory stores either: the panic at         *)
(* room.go:166 takes requests that overlap.                                *)
THEOREM RolesForAll ==
  ASSUME OneAtATime
  PROVE  Spec => [](RolesSuffice /\ \A w \in Workers : "panic" \notin errorsAhead(local[w]))
  BY SeatsStayTaken, RolesForEverySeat, PTL

-----------------------------------------------------------------------------
(* A state that is shown was asked for by a player of the room. *)
LEMMA StateErrors ==
  ASSUME room # NoRoom, NEW id, accepted([op |-> "state", player |-> id])
  PROVE  StateError(id) = "none"
<1> DEFINE q == [op |-> "state", player |-> id]
<1>1. q.op = "state" /\ q.player = id /\ q \notin Unserved /\ q \notin Gets
  BY DEF Unserved, Gets
<1> HIDE DEF q
<1>2. errorOf(q) = StateError(id)
  BY <1>1 DEF errorOf
<1>3. StateError(id) \in {"none", "PlayerNotFound", "SessionNotFound"}
  BY DEF StateError, sessionError
<1>4. answer(q) \in {200, 201}
  BY DEF accepted, q
<1>5. CASE StateError(id) # "none"
  <2>1. answer(q) = statusOf(StateError(id))
    BY <1>2, <1>5 DEF answer
  <2>2. statusOf(StateError(id)) \in {400, 404}
    BY <1>3, <1>5 DEF statusOf
  <2> QED  BY <1>4, <2>1, <2>2
<1> QED  BY <1>5

(* What a page that is up to date offers is not refused. *)
LEMMA NothingRefused ==
  ASSUME Inv, SeatsInv  PROVE OffersAccepted
<1> SUFFICES ASSUME Quiet, room # NoRoom, NEW id \in PlayerIds,
                    accepted([op |-> "state", player |-> id]),
                    NEW q \in offered(id),
                    ~(room.Status = "active" /\ CurrentSession.Status = "finished")
             PROVE  accepted(q)
  BY DEF OffersAccepted
<1>1. /\ room \in RoomRecord /\ Legal(room) /\ Seated(room)
      /\ Len(room.Players) <= Len(AllRoles) /\ Len(room.Players) \in Nat /\ Len(AllRoles) \in Nat
  <2>1. room \in RoomRecord /\ Legal(room)
    BY CopyFacts DEF Legal
  <2>2. room.Players \in Seq(Player)
    BY <2>1 DEF RoomRecord
  <2> QED  BY <2>1, <2>2, RolesAssumption DEF Legal, WellFormed, SeatsInv
<1>2. InRoom(room, id) /\ (room.Status # "waiting" => roomSession # NoId)
  <2>1. StateError(id) = "none"
    BY StateErrors
  <2> QED  BY <2>1 DEF StateError, sessionError
<1>3. PICK n \in DOMAIN room.Players : room.Players[n].ID = id /\ RoleOfPlayer(room, id) = room.Players[n].Role
  BY <1>1, <1>2, RoleFound DEF InRoom
<1>4. CASE q \in offeredRoles(id)
  <2>1. q \in Choices /\ q.player = id /\ q.role \in Roles /\ room.Status = "waiting"
        /\ (q.role \in taken(room) => q.role = RoleOfPlayer(room, id))
    BY <1>4 DEF offeredRoles
  <2>2. PICK role \in Roles : q = [op |-> "assign", player |-> id, role |-> role]
    BY <2>1 DEF Choices
  <2>3. \A i \in DOMAIN room.Players : room.Players[i].ID # id => room.Players[i].Role # role
    <3>1. NoRole \notin Roles
      BY RolesAssumption
    <3> QED  BY <1>1, <1>3, <2>1, <2>2, <3>1 DEF taken, UsedRoles, Seated, RolesDistinct
  <2>4. AssignRoleError(room, id, role) = "none"
    BY <1>2, <2>1, <2>3 DEF AssignRoleError
  <2> QED  BY <2>2, <2>4, CommandErrors, NoErrorAccepted
<1>5. CASE q \in offeredStart
  <2>1. q = [op |-> "start", scenarioKnown |-> TRUE] /\ room.Status = "waiting"
        /\ Len(room.Players) >= Len(AllRoles)
    BY <1>5 DEF offeredStart, Starts
  <2>2. StartGameError(TRUE) = "none"
    BY <1>1, <2>1 DEF StartGameError, First, scenarioError, StartError, Seated
  <2> QED  BY <2>1, <2>2, CommandErrors, NoErrorAccepted
<1>6. CASE q \in offeredOrders(id)
  <2>1. PICK order \in OrderChoices : q = [op |-> "submit", player |-> id, order |-> order] /\ order >= 0
    BY <1>6 DEF offeredOrders, Submits
  <2>2. room.Status = "active"
    BY <1>6 DEF offeredOrders
  <2>3. CurrentSession.Status = "active"
    BY <2>2, PendingFacts DEF Session
  <2>4. RoleOfPlayer(room, id) # NoRole
    BY <1>1, <1>3, <2>2 DEF Seated
  <2>5. SubmitOrderError(id) = "none"
    BY <1>2, <2>2, <2>3, <2>4 DEF SubmitOrderError, RoleOfPlayerError, First, sessionError
  <2>6. MaySubmit(order)
    BY <2>1 DEF MaySubmit
  <2> QED  BY <2>1, <2>5, <2>6, CommandErrors, NoErrorAccepted
<1>7. CASE q \in offeredEnd
  <2>1. q = [op |-> "advance"] /\ room.Status = "active" /\ allOrdered(PendingOrders)
    BY <1>7 DEF offeredEnd, Ends
  <2>2. CurrentSession.Status = "active"
    BY <2>1, PendingFacts DEF Session
  <2>3. AdvanceError = "none"
    BY <1>2, <2>1, <2>2, CompleteAdvances DEF allOrdered
  <2> QED  BY <2>1, <2>3, CommandErrors, NoErrorAccepted
<1>8. CASE q \in offeredExport
  <2>1. q \in Gets /\ q.op = "export" /\ room.Status # "waiting"
    BY <1>8 DEF offeredExport
  <2>2. errorOf(q) = sessionError
    BY <2>1 DEF errorOf, Unserved, Gets
  <2> QED  BY <1>2, <2>1, <2>2, NoErrorAccepted DEF sessionError
<1> QED  BY <1>4, <1>5, <1>6, <1>7, <1>8 DEF offered

(* With one request at a time, cut short or not, every button a page that  *)
(* is up to date enables works.                                            *)
THEOREM ButtonsWork == ASSUME OneAtATime PROVE Spec => []OffersAccepted
  BY SeatsStayTaken, NothingRefused, PTL

-----------------------------------------------------------------------------
(* What a game never takes back: its end, its session, the weeks played,   *)
(* and, until the week is played, the orders placed for it.                *)
GameStep ==
  /\ room # NoRoom /\ room.Status = "finished" => room'.Status = "finished"
  /\ roomSession # NoId =>
       LET s == sessions[roomSession]
           t == sessions'[roomSession']
       IN  /\ roomSession' = roomSession /\ s.CurrentWeek <= t.CurrentWeek
           /\ t.CurrentWeek = s.CurrentWeek /\ s.Status = "active" =>
                SubmittedRoles(decisions[s.CurrentWeek + 1])
                  \subseteq SubmittedRoles(decisions'[s.CurrentWeek + 1])

(* Steps that touch neither the session nor the orders. *)
LEMMA RoomOnly ==
  ASSUME Inv, sessions' = sessions, roomSession' = roomSession, decisions' = decisions,
         room # NoRoom /\ room.Status = "finished" => room'.Status = "finished"
  PROVE  GameStep
<1>1. roomSession # NoId => sessions[roomSession].CurrentWeek \in Nat
  BY MaxWeeksAssumption DEF Inv, SessionInv, Known, GoodSession, Session
<1> QED  BY <1>1 DEF GameStep

(* The room service, StartGame and a request cut short. *)
LEMMA RoomGrows ==
  ASSUME Inv, SerialInv, OneAtATime, NEW w \in Workers,
         \/ RoomServiceStep(w) \/ StartGame(w) \/ EnsureRoles(w) \/ WriteRoles(w)
         \/ StartSaveRoom(w) \/ Abort(w)
  PROVE  GameStep
<1>1. sessions' = sessions /\ roomSession' = roomSession /\ decisions' = decisions
  BY DEF RoomServiceStep, CreateRoom, ReadRoom, RefuseRoom, WriteRole, JoinRoom, RequestRole,
         SaveRoom, AnswerRoom, StartGame, EnsureRoles, WriteRoles, Starting, StartSaveRoom,
         ChangePlayers, RoomStoreSave, PublishRoomEvent, storeVars, Abort
<1>2. room # NoRoom /\ room.Status = "finished" => room'.Status = "finished"
  <2>1. CASE SaveRoom(w) \/ StartSaveRoom(w)
    <3>1. local[w].at = "saveRoom" /\ local[w].op \in {"create", "join", "assign", "start"}
      BY <2>1 DEF SaveRoom, StartSaveRoom
    <3>2. room = NoRoom \/ room.Status = "waiting"
      BY <3>1, SoloFacts DEF Knows, RoomKnown
    <3> QED  BY <3>2
  <2>2. CASE ~(SaveRoom(w) \/ StartSaveRoom(w))
    <3>1. room' = room \/ \E written : room' = roomSeen(room, written)
      BY <2>2 DEF RoomServiceStep, CreateRoom, ReadRoom, RefuseRoom, WriteRole, JoinRoom,
                  RequestRole, AnswerRoom, StartGame, EnsureRoles, WriteRoles, Starting,
                  ChangePlayers, PublishRoomEvent, storeVars, Abort
    <3>2. room \in RoomRecord \cup {NoRoom}
      BY DEF Inv, StoresTypeOK
    <3> QED  BY <3>1, <3>2, StatusSeen
  <2> QED  BY <2>1, <2>2
<1> QED  BY <1>1, <1>2, RoomOnly

(* The reads of SubmitOrder and AdvanceWeek, and their events. *)
LEMMA TurnsRead ==
  ASSUME Inv, NEW w \in Workers,
         \/ \E id \in PlayerIds, order \in OrderChoices : SubmitOrder(w, id, order)
         \/ AdvanceWeek(w) \/ GetRoomSession(w) \/ GetSession(w)
         \/ SubmitGetDecisions(w) \/ AdvanceGetDecisions(w) \/ AnswerGame(w)
  PROVE  GameStep
<1>1. /\ sessions' = sessions /\ roomSession' = roomSession /\ decisions' = decisions
      /\ room' = room
  BY DEF SubmitOrder, AdvanceWeek, GetRoomSession, GetSession, SubmitGetDecisions,
         AdvanceGetDecisions, AnswerGame, PublishRoomEvent, storeVars
<1> QED  BY <1>1, RoomOnly

(* StartGame saves the first session the room has. *)
LEMMA SessionBegins ==
  ASSUME Inv, SerialInv, OneAtATime, NEW w \in Workers, StartSaveSession(w)
  PROVE  GameStep
<1>1. local[w].at = "saveSession" /\ local[w].op = "start" /\ room' = room
  BY DEF StartSaveSession, SessionStoreSave
<1>2. roomSession = NoId
  BY <1>1, SoloFacts DEF Knows, StartKnown
<1> QED  BY <1>1, <1>2 DEF GameStep

(* An order is added to those of its week. *)
LEMMA OrdersGrow ==
  ASSUME Inv, SerialInv, OneAtATime, NEW w \in Workers, SaveDecisions(w)
  PROVE  GameStep
<1>1. PICK m : m = local[w]
  OBVIOUS
<1>2. /\ m.at = "saveDecisions" /\ Knows(m) /\ Handler(m, kind, Known)
      /\ room' = room /\ sessions' = sessions /\ roomSession' = roomSession
      /\ decisions' = [decisions EXCEPT ![m.week] = m.orders]
  BY <1>1, SoloFacts DEF SaveDecisions, DecisionStoreSave
<1>3. PICK s : s = sessions[roomSession]
  OBVIOUS
<1>4. /\ roomSession # NoId /\ m.sid = roomSession /\ m.week = s.CurrentWeek + 1
      /\ m.orders = withOrder(decisions[m.week], m.role, m.order)
      /\ m.week \in 1..MaxWeeks /\ m.orders \in Orders
  BY <1>2, <1>3 DEF Knows, SessionKnown, HasSession, Handler
<1>5. decisions'[m.week] = m.orders /\ m.orders # NoDecisions
  BY <1>2, <1>4, NullAssumption DEF Inv, StoresTypeOK
<1>6. SubmittedRoles(decisions[m.week]) \subseteq SubmittedRoles(m.orders)
  BY <1>4, <1>5 DEF withOrder, SubmittedRoles
<1>7. GoodSession(s) /\ s.CurrentWeek \in Nat
  BY <1>3, <1>4, SoloFacts, MaxWeeksAssumption DEF GoodSession, Session
<1> QED  BY <1>2, <1>3, <1>4, <1>5, <1>6, <1>7 DEF GameStep

(* The orders deleted are those of a week that was played. *)
LEMMA PlayedDeleted ==
  ASSUME Inv, SerialInv, OneAtATime, NEW w \in Workers, DeleteDecisions(w)
  PROVE  GameStep
<1>1. PICK m : m = local[w]
  OBVIOUS
<1>2. /\ m.at = "deleteDecisions" /\ Knows(m) /\ room' = room
      /\ sessions' = sessions /\ roomSession' = roomSession
      /\ decisions' = [decisions EXCEPT ![m.week] = NoDecisions]
  BY <1>1, SoloFacts DEF DeleteDecisions, DecisionStoreDelete
<1>3. PICK s : s = sessions[roomSession]
  OBVIOUS
<1>4. roomSession # NoId /\ m.week = s.CurrentWeek
  BY <1>2, <1>3 DEF Knows, SessionKnown, HasSession, WeekKnown
<1>5. GoodSession(s) /\ s.CurrentWeek \in Nat
  BY <1>3, <1>4, SoloFacts, MaxWeeksAssumption DEF GoodSession, Session
<1>6. s.Status = "active" => decisions'[s.CurrentWeek + 1] = decisions[s.CurrentWeek + 1]
  <2>1. s.CurrentWeek + 1 # m.week
    BY <1>4, <1>5
  <2> QED  BY <1>2, <2>1 DEF Inv, StoresTypeOK
<1> QED  BY <1>2, <1>3, <1>4, <1>5, <1>6 DEF GameStep

(* Playing the week moves the queues of the memory stores, *)
LEMMA QueuesMove ==
  ASSUME Inv, SerialInv, OneAtATime, NEW w \in Workers, PlayWeek(w)
  PROVE  GameStep
<1>1. PICK m : m = local[w]
  OBVIOUS
<1>2. PICK next : next = SessionAdvanceWeek(m.session, m.orders)
  OBVIOUS
<1>3. /\ m.at = "playWeek" /\ Knows(m) /\ Handler(m, kind, Known) /\ room' = room
      /\ sessions' = [sessions EXCEPT ![m.sid] = sessionSeen(@, next)]
      /\ roomSession' = roomSession /\ decisions' = decisions
  BY <1>1, <1>2, SoloFacts DEF PlayWeek
<1>4. /\ roomSession # NoId /\ m.sid = roomSession /\ m.session = sessions[m.sid]
      /\ GoodSession(m.session) /\ m.sid \in SessionIds
  BY <1>3, SoloFacts DEF Knows, SessionKnown, HasSession, Handler
<1>5. PICK t : t = sessionSeen(m.session, next)
  OBVIOUS
<1>6. sessions'[m.sid] = t
  BY <1>3, <1>4, <1>5 DEF Inv, StoresTypeOK
<1>7. t.CurrentWeek = m.session.CurrentWeek /\ m.session.CurrentWeek \in Nat
  BY <1>2, <1>4, <1>5, SeenPlayed, MaxWeeksAssumption DEF GoodSession, Session
<1> QED  BY <1>3, <1>4, <1>6, <1>7 DEF GameStep

(* and saving the session counts it. *)
LEMMA WeekCounts ==
  ASSUME Inv, SerialInv, OneAtATime, NEW w \in Workers, AdvanceSaveSession(w)
  PROVE  GameStep
<1>1. PICK m : m = local[w]
  OBVIOUS
<1>2. /\ m.at = "saveSession" /\ m.op = "advance" /\ Knows(m) /\ Handler(m, kind, Known)
      /\ room' = room /\ sessions' = [sessions EXCEPT ![m.sid] = m.session]
      /\ roomSession' = m.sid
  BY <1>1, SoloFacts DEF AdvanceSaveSession, SessionStoreSave
<1>3. PICK s : s = sessions[roomSession]
  OBVIOUS
<1>4. /\ roomSession # NoId /\ m.sid = roomSession
      /\ m.session.CurrentWeek = s.CurrentWeek + 1
  BY <1>2, <1>3 DEF Knows, SessionKnown, HasSession, WeekKnown
<1>5. GoodSession(s) /\ s.CurrentWeek \in Nat /\ m.sid \in SessionIds
  BY <1>3, <1>4, SoloFacts, MaxWeeksAssumption DEF GoodSession, Session
<1>6. sessions'[m.sid] = m.session
  BY <1>2, <1>5 DEF Inv, StoresTypeOK
<1> QED  BY <1>2, <1>3, <1>4, <1>5, <1>6 DEF GameStep

(* The room AdvanceWeek saves is finished if it was: its session is. *)
LEMMA EndStays ==
  ASSUME Inv, SerialInv, OneAtATime, NEW w \in Workers, AdvanceSaveRoom(w)
  PROVE  GameStep
<1>1. PICK m : m = local[w]
  OBVIOUS
<1>2. /\ m.at = "saveRoom" /\ m.op = "advance" /\ Knows(m) /\ room' = m.room
      /\ sessions' = sessions /\ roomSession' = roomSession /\ decisions' = decisions
  BY <1>1, SoloFacts DEF AdvanceSaveRoom, RoomStoreSave
<1>3. /\ roomSession # NoId /\ m.sid = roomSession
      /\ m.room.Status = sessions[roomSession].Status
  BY <1>2 DEF Knows, SessionKnown, HasSession, WeekKnown
<1>4. room # NoRoom /\ room.Status = "finished" => room'.Status = "finished"
  BY <1>2, <1>3 DEF SerialInv, StoresInStep
<1> QED  BY <1>2, <1>4, RoomOnly

(* Every step. *)
LEMMA GameGrows ==
  ASSUME Inv, SerialInv, OneAtATime, [Next]_vars
  PROVE  GameStep
<1>1. CASE UNCHANGED vars
  BY <1>1, RoomOnly DEF vars, storeVars
<1>2. ASSUME NEW w \in Workers, RoomServiceStep(w) \/ GameServiceStep(w) \/ Abort(w)
      PROVE  GameStep
  BY <1>2, RoomGrows, TurnsRead, SessionBegins, OrdersGrow, PlayedDeleted, QueuesMove,
     WeekCounts, EndStays DEF GameServiceStep
<1> QED  BY <1>1, <1>2 DEF Next

-----------------------------------------------------------------------------
(* What a read that is under way knows of the stores: the room and the     *)
(* session it has are those of an earlier moment, in that order, and the   *)
(* week it will look up lies between the week it has read and the present. *)
Present == sessions[roomSession]

RoomRead(r) ==
  r.at # "idle" =>
    /\ room # NoRoom /\ room.Status # "waiting" /\ r.room.Status # "waiting"
    /\ r.room.Status = "finished" => room.Status = "finished"
SidRead(r) ==
  r.at \in {"session", "roomSessionAgain", "sessionAgain", "decisions"} =>
    roomSession # NoId /\ r.sid = roomSession
HasRead(r) == r.at \in {"roomSessionAgain", "sessionAgain", "decisions"}
SessionRead(r) ==
  HasRead(r) =>
    /\ GoodSession(r.session) /\ r.session.CurrentWeek <= Present.CurrentWeek
    /\ r.room.Status = "finished" => r.session.CurrentWeek = MaxWeeks
WeekRead(r) ==
  r.at = "decisions" => /\ r.week \in Nat
                        /\ currentPlayableWeek(r.session) <= r.week
                        /\ r.week <= currentPlayableWeek(Present)
Shaped(r) == r = [at |-> r.at, player |-> r.player, room |-> r.room, sid |-> r.sid,
                  session |-> r.session, week |-> r.week]
ReadKnown(r) == Shaped(r) /\ RoomRead(r) /\ SidRead(r) /\ SessionRead(r) /\ WeekRead(r)

(* The orders a state tells of are in the store. *)
Stand(state, submitted) ==
  /\ state.OrdersSubmitted <= Cardinality(submitted)
  /\ state.OwnOrderSubmitted => state.Role \in submitted
  /\ state.WeekReady => submitted = Roles

(* What a shown state says that stays true. *)
ShownKnown(state) ==
  /\ state.CurrentWeek \in Nat /\ state.OrdersSubmitted \in Nat
  /\ state.RoomStatus = "waiting" => state.CurrentWeek = 0
  /\ state.RoomStatus # "waiting" =>
       /\ room # NoRoom /\ room.Status # "waiting"
       /\ roomSession # NoId /\ state.CurrentWeek <= currentPlayableWeek(Present)
       /\ Present.Status = "active" /\ state.CurrentWeek = Present.CurrentWeek + 1 =>
            Stand(state, SubmittedRoles(decisions[state.CurrentWeek]))
  /\ state.RoomStatus = "finished" => state.weeks = MaxWeeks

ReadInv == /\ ReadKnown(reading)
           /\ shown # NoState =>
                /\ ShownKnown(shown)
                /\ HasRead(reading) =>
                     shown.CurrentWeek <= currentPlayableWeek(reading.session)

(* A session that is further on has a later week to play, and an end that  *)
(* was reached stays reached.                                              *)
LEMMA LaterWeek ==
  ASSUME NEW s, NEW t, GoodSession(s), GoodSession(t), s.CurrentWeek <= t.CurrentWeek
  PROVE  /\ s.CurrentWeek \in Nat /\ t.CurrentWeek \in Nat
         /\ currentPlayableWeek(s) \in 1..MaxWeeks /\ currentPlayableWeek(t) \in 1..MaxWeeks
         /\ currentPlayableWeek(s) <= currentPlayableWeek(t)
         /\ t.CurrentWeek <= MaxWeeks
         /\ t.Status = "active" => /\ s.Status = "active"
                                   /\ currentPlayableWeek(t) = t.CurrentWeek + 1
<1>1. /\ s.CurrentWeek \in 0..MaxWeeks /\ t.CurrentWeek \in 0..MaxWeeks
      /\ s.Status \in {"active", "finished"} /\ t.Status \in {"active", "finished"}
  BY DEF GoodSession, Session
<1>2. /\ s.Status = "finished" <=> s.CurrentWeek = MaxWeeks
      /\ t.Status = "finished" <=> t.CurrentWeek = MaxWeeks
  BY DEF GoodSession
<1> QED  BY <1>1, <1>2, MaxWeeksAssumption DEF currentPlayableWeek

(* The present session is a good one, and the room does not end before it. *)
LEMMA PresentGood ==
  ASSUME Inv, SerialInv, roomSession # NoId
  PROVE  /\ GoodSession(Present)
         /\ room.Status = "finished" => Present.CurrentWeek = MaxWeeks
<1>1. GoodSession(Present)
  BY DEF Inv, SessionInv, Present
<1>2. room.Status = "finished" => Present.Status = "finished"
  BY DEF SerialInv, StoresInStep, Present
<1> QED  BY <1>1, <1>2 DEF GoodSession

(* Orders that are added leave what was said of the others true. *)
LEMMA StandStays ==
  ASSUME NEW state, NEW S, NEW T, S \subseteq T, T \subseteq Roles,
         Stand(state, S), state.OrdersSubmitted \in Nat
  PROVE  Stand(state, T)
<1>1. IsFiniteSet(Roles)
  BY RolesCount
<1>2. IsFiniteSet(T)
  BY <1>1, FS_Subset
<1>3. Cardinality(S) <= Cardinality(T) /\ Cardinality(S) \in Nat /\ Cardinality(T) \in Nat
  BY <1>2, FS_Subset, FS_CardinalityType
<1>4. state.OrdersSubmitted <= Cardinality(T)
  BY <1>3 DEF Stand
<1>5. state.OwnOrderSubmitted => state.Role \in T
  BY Zenon DEF Stand
<1>6. state.WeekReady => T = Roles
  <2>1. S = Roles => T = Roles
    OBVIOUS
  <2> QED  BY <2>1, Zenon DEF Stand
<1> QED  BY <1>4, <1>5, <1>6, Zenon DEF Stand

(* The requests that write leave what a read knows true, *)
LEMMA ReadStays ==
  ASSUME Inv, SerialInv, Inv', SerialInv', RoomStep, GameStep, NEW r, ReadKnown(r)
  PROVE  ReadKnown(r)'
<1>1. RoomRead(r)'
  BY DEF ReadKnown, RoomRead, RoomStep, GameStep
<1>2. SidRead(r)'
  BY DEF ReadKnown, SidRead, GameStep
<1>3. roomSession # NoId =>
        /\ roomSession' = roomSession /\ Present.CurrentWeek <= Present'.CurrentWeek
        /\ GoodSession(Present) /\ GoodSession(Present')
  <2>1. roomSession' # NoId => GoodSession(Present')
    BY DEF Inv, SessionInv, Present, Known, GoodSession, Session
  <2> QED  BY <2>1, PresentGood DEF GameStep, Present
<1>4. HasRead(r) => roomSession # NoId
  BY DEF HasRead, ReadKnown, SidRead
<1>5. SessionRead(r)'
  <2>1. SUFFICES ASSUME HasRead(r)
                 PROVE  r.session.CurrentWeek <= Present'.CurrentWeek
    BY DEF SessionRead, ReadKnown, HasRead, GoodSession, Session
  <2>2. r.session.CurrentWeek <= Present.CurrentWeek /\ GoodSession(r.session)
    BY <2>1 DEF ReadKnown, SessionRead
  <2> QED  BY <1>3, <1>4, <2>1, <2>2, LaterWeek
<1>6. WeekRead(r)'
  <2>1. CASE r.at = "decisions"
    <3>1. HasRead(r)
      BY <2>1 DEF HasRead
    <3>2. r.week \in Nat /\ currentPlayableWeek(r.session) <= r.week
          /\ r.week <= currentPlayableWeek(Present)
      BY <2>1 DEF ReadKnown, WeekRead
    <3>3. /\ currentPlayableWeek(Present) \in 1..MaxWeeks
          /\ currentPlayableWeek(Present') \in 1..MaxWeeks
          /\ currentPlayableWeek(Present) <= currentPlayableWeek(Present')
      BY <1>3, <1>4, <3>1, LaterWeek
    <3>4. r.week <= currentPlayableWeek(Present')
      BY <3>2, <3>3, MaxWeeksAssumption
    <3> QED  BY <3>2, <3>4 DEF WeekRead, currentPlayableWeek
  <2>2. CASE r.at # "decisions"
    BY <2>2 DEF WeekRead
  <2> QED  BY <2>1, <2>2
<1>7. Shaped(r)'
  BY DEF ReadKnown, Shaped
<1> QED  BY <1>1, <1>2, <1>5, <1>6, <1>7 DEF ReadKnown

(* and what a shown state says. *)
LEMMA ShownStays ==
  ASSUME Inv, SerialInv, Inv', SerialInv', RoomStep, GameStep, NEW state, ShownKnown(state)
  PROVE  ShownKnown(state)'
<1>1. CASE state.RoomStatus = "waiting"
  BY <1>1 DEF ShownKnown
<1>2. CASE state.RoomStatus # "waiting"
  <2>1. /\ room # NoRoom /\ room.Status # "waiting" /\ roomSession # NoId
        /\ state.CurrentWeek \in Nat /\ state.OrdersSubmitted \in Nat
        /\ state.CurrentWeek <= currentPlayableWeek(Present)
        /\ state.RoomStatus = "finished" => state.weeks = MaxWeeks
    BY <1>2 DEF ShownKnown
  <2>2. room' # NoRoom /\ room'.Status # "waiting" /\ roomSession' = roomSession
    BY <2>1 DEF RoomStep, GameStep
  <2>3. GoodSession(Present) /\ GoodSession(Present') /\ Present.CurrentWeek <= Present'.CurrentWeek
    <3>1. GoodSession(Present')
      BY <2>1, <2>2 DEF Inv, SessionInv, Present, Known, GoodSession, Session
    <3> QED  BY <2>1, <3>1, PresentGood DEF GameStep, Present
  <2>4. /\ Present.CurrentWeek \in Nat /\ Present'.CurrentWeek \in Nat
        /\ currentPlayableWeek(Present) \in 1..MaxWeeks
        /\ currentPlayableWeek(Present') \in 1..MaxWeeks
        /\ currentPlayableWeek(Present) <= currentPlayableWeek(Present')
        /\ Present'.CurrentWeek <= MaxWeeks
        /\ Present'.Status = "active" => /\ Present.Status = "active"
                                         /\ currentPlayableWeek(Present) = Present.CurrentWeek + 1
    <3>1. Present'.Status = "active" => Present.Status = "active"
      BY <2>3, LaterWeek
    <3>2. Present.CurrentWeek <= Present.CurrentWeek
      BY <2>3, LaterWeek
    <3>3. Present.Status = "active" => currentPlayableWeek(Present) = Present.CurrentWeek + 1
      BY <2>3, <3>2, LaterWeek
    <3> QED  BY <2>3, <3>1, <3>3, LaterWeek
  <2>5. state.CurrentWeek <= currentPlayableWeek(Present')
    BY <2>1, <2>4, MaxWeeksAssumption
  <2>6. ASSUME Present'.Status = "active", state.CurrentWeek = Present'.CurrentWeek + 1
        PROVE  Stand(state, SubmittedRoles(decisions'[state.CurrentWeek]))
    <3>1. /\ Present.Status = "active" /\ Present'.CurrentWeek = Present.CurrentWeek
          /\ state.CurrentWeek = Present.CurrentWeek + 1
      BY <2>1, <2>3, <2>4, <2>6
    <3>2. Stand(state, SubmittedRoles(decisions[state.CurrentWeek]))
      BY <1>2, <3>1 DEF ShownKnown
    <3>3. SubmittedRoles(decisions[state.CurrentWeek])
            \subseteq SubmittedRoles(decisions'[state.CurrentWeek])
      BY <2>1, <3>1 DEF GameStep, Present
    <3>4. SubmittedRoles(decisions'[state.CurrentWeek]) \subseteq Roles
      <4>1. state.CurrentWeek \in 1..MaxWeeks
        BY <2>1, <2>4, <3>1, MaxWeeksAssumption
      <4>2. decisions'[state.CurrentWeek] \in Orders \cup {NoDecisions}
        BY <4>1 DEF Inv, StoresTypeOK
      <4> QED  BY <4>2 DEF Orders, SubmittedRoles
    <3> QED  BY <2>1, <3>2, <3>3, <3>4, StandStays
  <2>7. currentPlayableWeek(Present)' = currentPlayableWeek(Present')
    BY DEF currentPlayableWeek
  <2>8. ShownKnown(state)' <=>
          /\ state.CurrentWeek \in Nat /\ state.OrdersSubmitted \in Nat
          /\ room' # NoRoom /\ room'.Status # "waiting"
          /\ roomSession' # NoId /\ state.CurrentWeek <= currentPlayableWeek(Present')
          /\ Present'.Status = "active" /\ state.CurrentWeek = Present'.CurrentWeek + 1 =>
               Stand(state, SubmittedRoles(decisions'[state.CurrentWeek]))
          /\ state.RoomStatus = "finished" => state.weeks = MaxWeeks
    BY <1>2 DEF ShownKnown, Stand, SubmittedRoles, currentPlayableWeek
  <2> QED  BY <2>1, <2>2, <2>5, <2>6, <2>8
<1> QED  BY <1>1, <1>2

-----------------------------------------------------------------------------
(* What a read ends with. *)
Answered(state) ==
  /\ shown' = state /\ reading' = NoReading
  /\ ShownKnown(state)'
  /\ shown # NoState => /\ state.CurrentWeek >= shown.CurrentWeek
                        /\ shown.RoomStatus # "waiting" => state.RoomStatus # "waiting"

(* A read goes on, is over without an answer, or answers with a state that *)
(* is none the earlier for it.                                             *)
ReadGoes ==
  \/ \E r : /\ reading' = r /\ shown' = shown /\ ReadKnown(r)'
            /\ shown # NoState /\ HasRead(r) =>
                 shown.CurrentWeek <= currentPlayableWeek(r.session)
  \/ \E state : Answered(state)

(* A read that goes on keeps what ReadGoes asks of a step. *)
LEMMA ReadGoesOn ==
  ASSUME NEW r, reading' = r, shown' = shown, ReadKnown(r)',
         shown # NoState /\ HasRead(r) =>
           shown.CurrentWeek <= currentPlayableWeek(r.session)
  PROVE  ReadGoes
  BY Zenon DEF ReadGoes

(* A page that reads nothing knows nothing that could be stale. *)
LEMMA IdleRead == ReadKnown(NoReading)' /\ ReadKnown(NoReading) /\ ~HasRead(NoReading)
  BY DEF NoReading, ReadKnown, Shaped, RoomRead, SidRead, SessionRead, WeekRead, HasRead

(* A read that fails ends, and nothing is shown. *)
LEMMA ReadFails == ASSUME Fail  PROVE ReadGoes
<1>1. reading' = NoReading /\ shown' = shown
  BY DEF Fail, Reading
<1> QED  BY <1>1, IdleRead, ReadGoesOn, Zenon

(* The reads change no store. *)
LEMMA StoresSame ==
  ASSUME UNCHANGED vars, NEW r, NEW state
  PROVE  /\ ReadKnown(r)' <=> ReadKnown(r)
         /\ ShownKnown(state)' <=> ShownKnown(state)
         /\ (Inv /\ SerialInv)' <=> Inv /\ SerialInv
<1>1. /\ room' = room /\ sessions' = sessions /\ roomSession' = roomSession
      /\ decisions' = decisions
  BY DEF vars, storeVars
<1>2. ReadKnown(r)' <=> ReadKnown(r)
  BY <1>1 DEF ReadKnown, Shaped, RoomRead, SidRead, SessionRead, WeekRead, Present
<1>3. ShownKnown(state)' <=> ShownKnown(state)
  BY <1>1 DEF ShownKnown, Present
<1>4. (Inv /\ SerialInv)' <=> Inv /\ SerialInv
  BY DEF vars, storeVars, Inv, StoresTypeOK, SessionInv, Known, Handlers, RoomInv, Copies,
         Legal, WellFormed, Agree, SerialInv, StoresInStep, Moved, Moving, Knows, RoomKnown,
         StartKnown, SessionKnown, WeekKnown, Handler
<1> QED  BY <1>2, <1>3, <1>4

(* The room: a waiting one is the answer, *)
LEMMA RoomIsRead ==
  ASSUME Inv, SerialInv, ReadInv, UNCHANGED vars, NEW id \in PlayerIds, GetPlayerState(id)
  PROVE  ReadGoes
<1>1. room # NoRoom /\ Legal(room)
  BY DEF GetPlayerState, Inv, RoomInv, Copies
<1>2. CASE room.Status = "waiting"
  <2>1. PICK state : state = WaitingState(room, id)
    OBVIOUS
  <2>2. shown' = state /\ reading' = NoReading
    BY <1>2, <2>1 DEF GetPlayerState, Answer, Reading
  <2>3. room.CurrentWeek = 0
    BY <1>1, <1>2 DEF Legal, WellFormed
  <2>4. /\ state.RoomStatus = "waiting" /\ state.CurrentWeek = 0
        /\ state.OrdersSubmitted = 0
    BY <1>2, <2>1, <2>3 DEF WaitingState
  <2>5. ShownKnown(state)'
    BY <2>4 DEF ShownKnown
  <2>6. shown # NoState => shown.RoomStatus = "waiting" /\ shown.CurrentWeek = 0
    BY <1>2 DEF ReadInv, ShownKnown
  <2>7. Answered(state)
    BY <2>2, <2>4, <2>5, <2>6 DEF Answered
  <2> QED  BY <2>7 DEF ReadGoes
<1>3. CASE room.Status # "waiting"
  <2>1. PICK r : r = [NoReading EXCEPT !.at = "roomSession", !.player = id, !.room = room]
    OBVIOUS
  <2>2. reading' = r /\ shown' = shown
    BY <1>3, <2>1 DEF GetPlayerState, Reading
  <2>3. r.at = "roomSession" /\ r.room = room
    BY <2>1 DEF NoReading
  <2>4. ReadKnown(r) /\ ~HasRead(r)
    BY <1>1, <1>3, <2>1, <2>3 DEF ReadKnown, Shaped, NoReading, RoomRead, SidRead, SessionRead, WeekRead, HasRead
  <2>5. ReadKnown(r)'
    BY <2>4, StoresSame
  <2> QED  BY <2>2, <2>4, <2>5, ReadGoesOn
<1> QED  BY <1>2, <1>3

(* the identifier of its session, *)
LEMMA RoomSessionIsRead ==
  ASSUME Inv, SerialInv, ReadInv, UNCHANGED vars, ReadRoomSession
  PROVE  ReadGoes
<1>1. CASE roomSession = NoId
  BY <1>1, ReadFails DEF ReadRoomSession
<1>2. CASE roomSession # NoId
  <2>1. PICK r : r = [reading EXCEPT !.at = IF @ = "roomSession" THEN "session" ELSE "sessionAgain",
                                     !.sid = roomSession]
    OBVIOUS
  <2>2. reading' = r /\ shown' = shown /\ reading.at \in {"roomSession", "roomSessionAgain"}
    BY <1>2, <2>1 DEF ReadRoomSession, Reading
  <2>3. ReadKnown(reading) /\ Shaped(reading)
    BY DEF ReadInv, ReadKnown
  <2>4. /\ r.at = IF reading.at = "roomSession" THEN "session" ELSE "sessionAgain"
        /\ r.room = reading.room /\ r.session = reading.session /\ r.sid = roomSession
        /\ Shaped(r)
    BY <2>1, <2>3 DEF Shaped
  <2>5. HasRead(r) => HasRead(reading)
    BY <2>2, <2>4 DEF HasRead
  <2>6. ReadKnown(r)
    BY <1>2, <2>2, <2>3, <2>4, <2>5 DEF ReadKnown, RoomRead, SidRead, SessionRead, WeekRead
  <2>7. ReadKnown(r)'
    BY <2>6, StoresSame
  <2> QED  BY <2>2, <2>4, <2>5, <2>7, ReadGoesOn DEF ReadInv
<1> QED  BY <1>1, <1>2

(* the session, once for itself *)
LEMMA SessionIsRead ==
  ASSUME Inv, SerialInv, ReadInv, UNCHANGED vars, ReadSession
  PROVE  ReadGoes
<1>1. PICK r : r = [reading EXCEPT !.at = "roomSessionAgain", !.session = sessions[reading.sid]]
  OBVIOUS
<1>2. reading' = r /\ shown' = shown /\ reading.at = "session"
  BY <1>1 DEF ReadSession, Reading
<1>3. ReadKnown(reading) /\ Shaped(reading)
  BY DEF ReadInv, ReadKnown
<1>4. /\ r.at = "roomSessionAgain" /\ r.room = reading.room /\ r.sid = reading.sid
      /\ r.session = Present /\ Shaped(r) /\ roomSession # NoId
  BY <1>1, <1>2, <1>3 DEF Shaped, ReadKnown, SidRead, Present
<1>5. GoodSession(Present) /\ Present.CurrentWeek <= Present.CurrentWeek
      /\ (room.Status = "finished" => Present.CurrentWeek = MaxWeeks)
  <2>1. GoodSession(Present) /\ (room.Status = "finished" => Present.CurrentWeek = MaxWeeks)
    BY <1>4, PresentGood
  <2>2. Present.CurrentWeek \in Nat
    BY <2>1, MaxWeeksAssumption DEF GoodSession, Session
  <2> QED  BY <2>1, <2>2
<1>6. ReadKnown(r)
  BY <1>2, <1>3, <1>4, <1>5 DEF ReadKnown, RoomRead, SidRead, SessionRead, WeekRead
<1>7. ReadKnown(r)'
  BY <1>6, StoresSame
<1>8. shown # NoState => shown.CurrentWeek <= currentPlayableWeek(r.session)
  <2>1. CASE shown # NoState /\ shown.RoomStatus # "waiting"
    BY <1>4, <2>1 DEF ReadInv, ShownKnown
  <2>2. CASE shown # NoState /\ shown.RoomStatus = "waiting"
    <3>1. shown.CurrentWeek = 0 /\ currentPlayableWeek(r.session) \in 1..MaxWeeks
      BY <1>4, <1>5, <2>2, LaterWeek DEF ReadInv, ShownKnown
    <3> QED  BY <3>1, MaxWeeksAssumption
  <2> QED  BY <2>1, <2>2
<1> QED  BY <1>2, <1>7, <1>8, ReadGoesOn

(* and once for its week, *)
LEMMA WeekIsRead ==
  ASSUME Inv, SerialInv, ReadInv, UNCHANGED vars, ReadSessionAgain
  PROVE  ReadGoes
<1>1. PICK r : r = [reading EXCEPT !.at = "decisions",
                                   !.week = currentPlayableWeek(sessions[reading.sid])]
  OBVIOUS
<1>2. reading' = r /\ shown' = shown /\ reading.at = "sessionAgain"
  BY <1>1 DEF ReadSessionAgain, Reading
<1>3. ReadKnown(reading) /\ Shaped(reading)
  BY DEF ReadInv, ReadKnown
<1>4. /\ r.at = "decisions" /\ r.room = reading.room /\ r.sid = reading.sid
      /\ r.session = reading.session /\ r.week = currentPlayableWeek(Present)
      /\ Shaped(r) /\ roomSession # NoId
  BY <1>1, <1>2, <1>3 DEF Shaped, ReadKnown, SidRead, Present
<1>5. HasRead(reading) /\ HasRead(r)
  BY <1>2, <1>4 DEF HasRead
<1>6. /\ GoodSession(r.session) /\ GoodSession(Present)
      /\ r.session.CurrentWeek <= Present.CurrentWeek
  BY <1>3, <1>4, <1>5, PresentGood DEF ReadKnown, SessionRead
<1>7. /\ r.week \in Nat /\ r.week <= currentPlayableWeek(Present)
      /\ currentPlayableWeek(r.session) <= r.week
  <2>1. currentPlayableWeek(Present) \in 1..MaxWeeks
        /\ currentPlayableWeek(r.session) <= currentPlayableWeek(Present)
    BY <1>6, LaterWeek
  <2> QED  BY <1>4, <2>1, MaxWeeksAssumption
<1>8. ReadKnown(r)
  BY <1>2, <1>3, <1>4, <1>5, <1>7 DEF ReadKnown, RoomRead, SidRead, SessionRead, WeekRead
<1>9. ReadKnown(r)'
  BY <1>8, StoresSame
<1> QED  BY <1>2, <1>4, <1>5, <1>9, ReadGoesOn DEF ReadInv

(* and last the orders of that week, which end it. *)
LEMMA OrdersAreRead ==
  ASSUME Inv, SerialInv, ReadInv, UNCHANGED vars, ReadDecisions
  PROVE  ReadGoes
<1>1. PICK r : r = reading
  OBVIOUS
<1>2. PICK orders : orders = decisions[r.week]
  OBVIOUS
<1>3. PICK state : state = PlayerState(r.room, r.player, r.session, orders)
  OBVIOUS
<1>4. shown' = state /\ reading' = NoReading /\ r.at = "decisions"
  BY <1>1, <1>2, <1>3 DEF ReadDecisions, Answer, Reading
<1>5. /\ ReadKnown(r) /\ HasRead(r) /\ roomSession # NoId /\ GoodSession(Present)
      /\ GoodSession(r.session) /\ r.session.CurrentWeek <= Present.CurrentWeek
  <2>1. ReadKnown(r) /\ HasRead(r)
    BY <1>1, <1>4 DEF ReadInv, HasRead
  <2>2. roomSession # NoId
    BY <1>4, <2>1 DEF ReadKnown, SidRead
  <2> QED  BY <2>1, <2>2, PresentGood DEF ReadKnown, SessionRead
<1>6. /\ currentPlayableWeek(r.session) \in 1..MaxWeeks /\ Present.CurrentWeek \in Nat
      /\ currentPlayableWeek(Present) \in 1..MaxWeeks
      /\ Present.Status = "active" => currentPlayableWeek(Present) = Present.CurrentWeek + 1
  BY <1>5, LaterWeek
<1>7. /\ r.week \in Nat /\ currentPlayableWeek(r.session) <= r.week
      /\ r.week <= currentPlayableWeek(Present)
  BY <1>4, <1>5 DEF ReadKnown, WeekRead
<1>8. orders \in Orders \cup {NoDecisions}
  <2>1. r.week \in 1..MaxWeeks
    BY <1>6, <1>7, MaxWeeksAssumption
  <2> QED  BY <1>2, <2>1 DEF Inv, StoresTypeOK
<1>9. PICK submitted : submitted = SubmittedRoles(orders)
  OBVIOUS
<1>10. submitted \subseteq Roles /\ Cardinality(submitted) \in Nat
  <2>1. submitted \subseteq Roles
    BY <1>8, <1>9 DEF Orders, SubmittedRoles
  <2> QED  BY <2>1, RolesCount, FS_Subset, FS_CardinalityType
<1>11. /\ state.RoomStatus = r.room.Status /\ state.weeks = Len(r.session.History)
       /\ state.CurrentWeek = currentPlayableWeek(r.session)
       /\ state.OrdersSubmitted = Cardinality(submitted)
       /\ Stand(state, submitted)
  <2>1. /\ state.RoomStatus = r.room.Status /\ state.weeks = Len(r.session.History)
        /\ state.CurrentWeek = currentPlayableWeek(r.session)
        /\ state.OrdersSubmitted = Cardinality(submitted)
        /\ state.OwnOrderSubmitted = (state.Role \in submitted)
        /\ state.WeekReady = (submitted = Roles)
    BY <1>3, <1>9 DEF PlayerState, Ready
  <2>2. state.OrdersSubmitted <= Cardinality(submitted)
    BY <1>10, <2>1
  <2> QED  BY <2>1, <2>2, Zenon DEF Stand
<1>12. /\ state.RoomStatus # "waiting" /\ room # NoRoom /\ room.Status # "waiting"
       /\ state.RoomStatus = "finished" => state.weeks = MaxWeeks
  BY <1>4, <1>5, <1>11 DEF ReadKnown, RoomRead, SessionRead, GoodSession
<1>13. Present.Status = "active" /\ state.CurrentWeek = Present.CurrentWeek + 1 =>
         Stand(state, SubmittedRoles(decisions[state.CurrentWeek]))
  <2>1. SUFFICES ASSUME Present.Status = "active", state.CurrentWeek = Present.CurrentWeek + 1
                 PROVE  state.CurrentWeek = r.week
    BY <1>2, <1>9, <1>11
  <2> QED  BY <1>6, <1>7, <1>11, <2>1, MaxWeeksAssumption
<1>14. /\ state.CurrentWeek \in Nat /\ state.OrdersSubmitted \in Nat
       /\ state.CurrentWeek <= currentPlayableWeek(Present)
  BY <1>6, <1>7, <1>10, <1>11, MaxWeeksAssumption
<1>15. ShownKnown(state)
  BY <1>5, <1>12, <1>13, <1>14 DEF ShownKnown
<1>16. ShownKnown(state)'
  BY <1>15, StoresSame
<1>17. shown # NoState => state.CurrentWeek >= shown.CurrentWeek
  <2>1. shown # NoState => /\ shown.CurrentWeek \in Nat
                           /\ shown.CurrentWeek <= currentPlayableWeek(r.session)
    BY <1>1, <1>5 DEF ReadInv, ShownKnown
  <2> QED  BY <1>11, <1>14, <2>1
<1>18. Answered(state)
  BY <1>4, <1>12, <1>16, <1>17 DEF Answered
<1> QED  BY <1>18, Zenon DEF ReadGoes

(* Whatever the reader does. *)
LEMMA ReadStepGoes ==
  ASSUME Inv, SerialInv, ReadInv, UNCHANGED vars, ReadStep
  PROVE  ReadGoes
  BY RoomIsRead, RoomSessionIsRead, SessionIsRead, WeekIsRead, OrdersAreRead, ReadFails
     DEF ReadStep, AbortRead

(* Together with the requests that write. *)
LEMMA ReadNextGoes ==
  ASSUME Inv, SerialInv, ReadInv, OneAtATime, [ReadNext]_<<vars, readVars>>
  PROVE  /\ Inv' /\ SerialInv' /\ ReadInv'
         /\ shown # NoState =>
              /\ shown'.CurrentWeek >= shown.CurrentWeek
              /\ shown.RoomStatus # "waiting" => shown'.RoomStatus # "waiting"
<1>1. CASE [Next]_vars /\ UNCHANGED readVars
  <2>1. Inv' /\ SerialInv' /\ RoomStep /\ GameStep
    BY <1>1, NextInv, NextSerial, GameGrows
  <2>2. reading' = reading /\ shown' = shown
    BY <1>1 DEF readVars
  <2>3. PICK r : r = reading
    OBVIOUS
  <2>4. PICK state : state = shown
    OBVIOUS
  <2>5. ReadKnown(r)'
    BY <2>1, <2>3, ReadStays DEF ReadInv
  <2>6. state # NoState => ShownKnown(state)' /\ state.CurrentWeek \in Nat
    BY <2>1, <2>4, ShownStays DEF ReadInv, ShownKnown
  <2>7. ReadInv'
    BY <2>2, <2>3, <2>4, <2>5, <2>6 DEF ReadInv
  <2> QED  BY <2>1, <2>2, <2>4, <2>6, <2>7
<1>2. CASE ReadStep /\ UNCHANGED vars
  <2>1. Inv' /\ SerialInv' /\ ReadGoes
    BY <1>2, StoresSame, ReadStepGoes
  <2>2. ASSUME NEW r, reading' = r, shown' = shown, ReadKnown(r)',
               shown # NoState /\ HasRead(r) =>
                 shown.CurrentWeek <= currentPlayableWeek(r.session)
        PROVE  ReadInv'
    <3>1. PICK state : state = shown
      OBVIOUS
    <3>2. state # NoState => ShownKnown(state)'
      BY <1>2, <3>1, StoresSame DEF ReadInv
    <3>3. ReadKnown(reading)'
      BY <2>2 DEF ReadKnown, Shaped, RoomRead, SidRead, SessionRead, WeekRead, HasRead
    <3>4. shown' # NoState => ShownKnown(shown)'
      BY <2>2, <3>1, <3>2 DEF ShownKnown
    <3>5. (shown # NoState /\ HasRead(reading) =>
             shown.CurrentWeek <= currentPlayableWeek(reading.session))'
      BY <2>2 DEF HasRead
    <3> QED  BY <3>3, <3>4, <3>5 DEF ReadInv
  <2>3. ASSUME NEW state, Answered(state)
        PROVE  /\ ReadInv'
               /\ shown # NoState =>
                    /\ shown'.CurrentWeek >= shown.CurrentWeek
                    /\ shown.RoomStatus # "waiting" => shown'.RoomStatus # "waiting"
    <3>1. shown' = state /\ reading' = NoReading
      BY <2>3 DEF Answered
    <3>2. ReadKnown(reading)' /\ ~HasRead(reading')
      BY <3>1 DEF NoReading, ReadKnown, Shaped, RoomRead, SidRead, SessionRead, WeekRead, HasRead
    <3>3. ShownKnown(shown)'
      BY <2>3, <3>1 DEF Answered, ShownKnown
    <3>4. ReadInv'
      BY <3>2, <3>3 DEF ReadInv
    <3>5. shown # NoState => /\ shown'.CurrentWeek >= shown.CurrentWeek
                             /\ shown.RoomStatus # "waiting" => shown'.RoomStatus # "waiting"
      BY <2>3, <3>1, Zenon DEF Answered
    <3> QED  BY <3>4, <3>5
  <2>4. shown' = shown /\ shown # NoState => shown'.CurrentWeek >= shown.CurrentWeek
    BY DEF ReadInv, ShownKnown
  <2>5. CASE \E state : Answered(state)
    BY <2>1, <2>3, <2>5
  <2>6. CASE ~\E state : Answered(state)
    <3>1. PICK r : /\ reading' = r /\ shown' = shown /\ ReadKnown(r)'
                   /\ shown # NoState /\ HasRead(r) =>
                        shown.CurrentWeek <= currentPlayableWeek(r.session)
      BY <2>1, <2>6, Zenon DEF ReadGoes
    <3>2. ReadInv'
      BY <2>2, <3>1
    <3> QED  BY <2>1, <2>4, <3>1, <3>2
  <2> QED  BY <2>5, <2>6
<1>3. CASE UNCHANGED <<vars, readVars>>
  BY <1>1, <1>3
<1> QED  BY <1>1, <1>2, <1>3 DEF ReadNext

(* At first nothing is read and nothing has been shown. *)
LEMMA InitRead == Init /\ ReadInit => ReadInv
<1> SUFFICES ASSUME ReadInit  PROVE ReadInv
  OBVIOUS
<1>1. reading = NoReading /\ shown = NoState
  BY DEF ReadInit
<1> QED  BY <1>1, IdleRead DEF ReadInv

(* Beside requests that write one at a time, the invariants hold of the    *)
(* stores, of the read and of what is shown.                               *)
THEOREM ReadsInvariant ==
  ASSUME OneAtATime  PROVE ReadSpec => [](Inv /\ SerialInv /\ ReadInv)
<1>1. Init /\ ReadInit => Inv /\ SerialInv /\ ReadInv
  BY InitInv, InitSerial, InitRead
<1>2. Inv /\ SerialInv /\ ReadInv /\ [ReadNext]_<<vars, readVars>> => (Inv /\ SerialInv /\ ReadInv)'
  BY ReadNextGoes
<1> QED  BY <1>1, <1>2, PTL DEF ReadSpec

(* A room shown as finished is shown with all its weeks                    *)
(* (game_service.go GetPlayerState reads the room before the session).     *)
THEOREM FinishedWhole == ASSUME OneAtATime PROVE ReadSpec => []FinishedShownWhole
<1>1. ReadInv => FinishedShownWhole
  BY DEF ReadInv, ShownKnown, FinishedShownWhole
<1> QED  BY <1>1, ReadsInvariant, PTL

(* An order shown as submitted in the week being played stays in the       *)
(* store, and a week shown as ready can be ended (game_service.go          *)
(* GetPlayerState, GetPendingDecisions).                                   *)
THEOREM OrdersShownStand ==
  ASSUME OneAtATime, AllRoles # <<>>  PROVE ReadSpec => []ShownOrdersStand
<1>1. ASSUME Inv, SerialInv, ReadInv  PROVE ShownOrdersStand
  <2>1. SUFFICES ASSUME shown # NoState, roomSession # NoId, Present.Status = "active",
                        shown.CurrentWeek = Present.CurrentWeek + 1, shown.RoomStatus # "waiting"
                 PROVE  LET orders == SubmittedRoles(decisions[currentPlayableWeek(Present)])
                        IN  /\ shown.OrdersSubmitted <= Cardinality(orders)
                            /\ shown.OwnOrderSubmitted => shown.Role \in orders
                            /\ shown.WeekReady =>
                                 MayAdvance(Present, decisions[shown.CurrentWeek])
    BY DEF ShownOrdersStand, Present
  <2> DEFINE week == shown.CurrentWeek
  <2>2. GoodSession(Present)
    BY <1>1, <2>1, PresentGood
  <2>3. currentPlayableWeek(Present) = week /\ week \in 1..MaxWeeks /\ Present.CurrentWeek < MaxWeeks
    <3>1. Present.CurrentWeek \in 0..MaxWeeks /\ Present.CurrentWeek # MaxWeeks
      BY <2>1, <2>2 DEF GoodSession, Session
    <3>2. currentPlayableWeek(Present) = week
      BY <2>1 DEF currentPlayableWeek
    <3> QED  BY <2>1, <3>1, <3>2, MaxWeeksAssumption
  <2>4. Stand(shown, SubmittedRoles(decisions[week]))
    BY <1>1, <2>1 DEF ReadInv, ShownKnown
  <2>5. SubmittedRoles(decisions[week]) = Roles => MayAdvance(Present, decisions[week])
    <3>1. decisions[week] \in Orders \cup {NoDecisions}
      BY <1>1, <2>3 DEF Inv, StoresTypeOK
    <3>2. CASE decisions[week] = NoDecisions
      <4>1. Roles # {}
        <5>1. Len(AllRoles) \in Nat \ {0}
          BY RolesAssumption
        <5>2. 1 \in 1..Len(AllRoles)
          BY <5>1
        <5>3. AllRoles[1] \in Roles
          BY <5>2 DEF Roles
        <5> QED  BY <5>3
      <4> QED  BY <3>2, <4>1 DEF SubmittedRoles
    <3>3. CASE decisions[week] # NoDecisions /\ DOMAIN decisions[week] = Roles
      BY <2>1, <2>3, <3>1, <3>3, OrderAssumption DEF Orders, MayAdvance
    <3> QED  BY <3>2, <3>3 DEF SubmittedRoles
  <2> QED  BY <2>3, <2>4, <2>5, Zenon DEF Stand
<1> QED  BY <1>1, ReadsInvariant, PTL

(* A client is never shown an earlier week than before, or a game called   *)
(* off (game_service.go GetPlayerState).                                   *)
THEOREM WeekNeverBack == ASSUME OneAtATime PROVE ReadSpec => ShownWeekNeverBack
<1>1. Inv /\ SerialInv /\ ReadInv /\ [ReadNext]_<<vars, readVars>> =>
        [shown # NoState =>
           /\ shown'.CurrentWeek >= shown.CurrentWeek
           /\ shown.RoomStatus # "waiting" => shown'.RoomStatus # "waiting"]_<<vars, readVars>>
  BY ReadNextGoes
<1> QED  BY <1>1, ReadsInvariant, PTL DEF ReadSpec, ShownWeekNeverBack
=============================================================================
