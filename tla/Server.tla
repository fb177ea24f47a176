------------------------------- MODULE Server -------------------------------
(***************************************************************************)
(* The server: requests of the room service and of the game service run    *)
(* side by side on the stores of one room.  With one worker requests run   *)
(* one after the other.  With Failures, a request may stop for good before *)
(* any of its store calls: the call failed, the client went away (every    *)
(* call is given the request's context), or the process died and came back *)
(* on the same Redis.                                                      *)
(***************************************************************************)
EXTENDS GameService

CONSTANT Failures         \* may requests stop half way?

ASSUME FailuresAssumption == Failures \in BOOLEAN

Init ==
  /\ StoresInit
  /\ local = [w \in Workers |-> NoLocal]
  /\ issued = {}

Abort(w) ==
  /\ Failures /\ kind = "redis"
  /\ ~idle(w)
  /\ Leave(w)
  /\ UNCHANGED <<storeVars, issued>>

Next == \E w \in Workers : RoomServiceStep(w) \/ GameServiceStep(w) \/ Abort(w)

Spec == Init /\ [][Next]_vars

-----------------------------------------------------------------------------
Local == [op : {"none", "create", "join", "assign", "start", "submit", "advance"},
          at : {"idle", "haveRoom", "writeRole", "writeRoles", "saveRoom",
                "getRoomSession", "getSession", "getDecisions", "saveDecisions",
                "playWeek", "saveSession", "deleteDecisions", "publish"},
          room : RoomRecord \cup {NoRoom}, sid : SessionIds \cup {NoId},
          session : Session \cup {NoSession}, week : 0..MaxWeeks,
          orders : Orders \cup {NoDecisions}, player : PlayerIds \cup {NoPlayer},
          role : Roles \cup {NoRole}, order : OrderChoices \cup {0},
          seat : 0..Len(AllRoles), free : Seq(Roles)]

TypeOK ==
  /\ StoresTypeOK
  /\ local \in [Workers -> Local]
  /\ issued \subseteq PlayerIds \cup SessionIds

Quiet == \A w \in Workers : idle(w)

(* A legal room: no more players than roles, no player twice, a week once  *)
(* it left "waiting"; and, unless its copies share their players, no name  *)
(* and no role twice.                                                      *)
WellFormed(r) ==
  /\ Len(r.Players) <= Len(AllRoles)
  /\ \A i, j \in DOMAIN r.Players : i # j =>
       /\ r.Players[i].ID # r.Players[j].ID
       /\ kind = "redis" => r.Players[i].Name # r.Players[j].Name
  /\ kind = "redis" => RolesDistinct(r)
  /\ r.Status = "waiting" <=> r.CurrentWeek = 0

(* Whatever requests overlap, the stored room and every copy a request     *)
(* still means to write are legal (room.go AssignRole, EnsureRolesAssigned;*)
(* room_service.go).  With the memory stores a handler's check and its     *)
(* write are not one step, and two players may end up with one role.       *)
RoomWellFormed ==
  /\ room # NoRoom => WellFormed(room)
  /\ \A w \in Workers : local[w].room # NoRoom => WellFormed(local[w].room)

(* When no request is under way, every change has been announced: a        *)
(* subscriber that read the stores at the last event has seen their        *)
(* present contents (publishRoomEvent comes last in every handler), also   *)
(* where a handler on the memory stores changed a stored record in place,  *)
(* before or without a Save.  Holds as long as no request stops half way;  *)
(* the one that cannot but stop is a StartGame that has run out of roles   *)
(* and panics (room.go:166): the roles it had handed out stay in the room. *)
Announced == Quiet => unannounced # "change"

(* Nobody who joined is lost: the player whose join is about to be         *)
(* answered is in the stored room, and no player ever leaves it.           *)
InRoom(r, id) == \E i \in DOMAIN r.Players : r.Players[i].ID = id
JoinedPlayersStay ==
  /\ [](\A w \in Workers : local[w].op = "join" /\ local[w].at = "publish" =>
            InRoom(room, local[w].player))
  /\ [][room # NoRoom => \A id \in PlayerIds : InRoom(room, id) => InRoom(room', id)]_vars

(* Once the game has started nobody joins, leaves or changes role, and the *)
(* game is not called off ("После старта игры менять роли уже нельзя").    *)
StartedRoomFrozen ==
  [][room # NoRoom /\ room.Status # "waiting" =>
       room'.Players = room.Players /\ room'.Status # "waiting"]_vars

(* The room never runs ahead of its session: it shows a week that has been *)
(* reached, and is finished only when the session is (AdvanceWeek saves    *)
(* the session before the room).                                           *)
RoomNotAheadOfSession ==
  room # NoRoom /\ roomSession # NoId =>
    /\ room.CurrentWeek <= currentPlayableWeek(sessions[roomSession])
    /\ room.Status = "finished" => sessions[roomSession].Status = "finished"

(* A session's queues have been moved on once for every week it has played. *)
(* On the memory stores they move before the week is saved, under every    *)
(* copy's hands (game_session.go shiftPipeline); as long as requests come  *)
(* one after the other, refused or not, nothing is moved for nothing.      *)
QueuesInStep ==
  Quiet => \A sid \in SessionIds :
    sessions[sid] # NoSession => sessions[sid].moved = sessions[sid].CurrentWeek

-----------------------------------------------------------------------------
(* The players' view of the stores. *)
CurrentSession == IF roomSession = NoId THEN NewGameSession ELSE sessions[roomSession]

PlayersTurns == INSTANCE Turns WITH
  Roles      <- Roles,
  MaxWeeks   <- MaxWeeks,
  Quantities <- OrderChoices \cap Nat,
  phase      <- IF roomSession = NoId THEN "waiting" ELSE CurrentSession.Status,
  played     <- CurrentSession.History,
  standing   <- LET orders == decisions[currentPlayableWeek(CurrentSession)]
                IN  IF orders = NoDecisions \/ CurrentSession.Status = "finished"
                      THEN [r \in {} |-> 0] ELSE orders

(* The stores behave as the atomic game of Turns: no order is lost,        *)
(* applied twice or applied to another week.                               *)
ImplementsTurns == PlayersTurns!Spec

(* An order whose submission is about to be answered with success is among *)
(* the orders of its week, unless that week has been played.               *)
AcknowledgedOrderRecorded ==
  \A w \in Workers : local[w].op = "submit" /\ local[w].at = "publish" =>
    LET l == local[w]
    IN  l.sid = roomSession /\ l.week = sessions[l.sid].CurrentWeek + 1 =>
          decisions[l.week] # NoDecisions /\ l.role \in DOMAIN decisions[l.week]

(* When no request is under way, a game that was started can be played on: *)
(* the room of an active game has its session (StartGame saves the room    *)
(* first, the session second).                                             *)
ActiveGameRecoverable ==
  Quiet /\ room # NoRoom => (room.Status = "active" => roomSession # NoId)
=============================================================================
