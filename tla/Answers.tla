------------------------------ MODULE Answers ------------------------------
(***************************************************************************)
(* What the HTTP transport answers, and what the page lets a player do.    *)
(* errorOf is the error a request ends with when it meets the stores as    *)
(* they are, "none" if it succeeds: the early returns of its handlers in   *)
(* room_service.go, game_service.go and the domain, in their order.        *)
(* answer is the status interface/http/server.go gives it.                 *)
(***************************************************************************)
EXTENDS Server

(* The requests: to one room, for a new one, and those that reach no       *)
(* service: a body that cannot be decoded, a state of nobody, a path that  *)
(* names no resource.                                                      *)
Joins   == [op : {"join"}, name : Names]
Choices == [op : {"assign"}, player : PlayerIds, role : Roles \cup {UnknownRole}]
Starts  == [op : {"start"}, scenarioKnown : BOOLEAN]
Submits == [op : {"submit"}, player : PlayerIds, order : OrderChoices]
Ends    == [op : {"advance"}]
States  == [op : {"state"}, player : PlayerIds]
Gets    == [op : {"room", "session", "weeks", "analytics", "decisions", "export"}]

Creates == [op : {"create"}, maxWeeks : {-1, 0, MaxWeeks}]
Unserved == [op : {"badBody", "noPlayer", "noPath"}]

Commands == Joins \cup Choices \cup Starts \cup Submits \cup Ends
Requests == Commands \cup States \cup Gets \cup Creates \cup Unserved

-----------------------------------------------------------------------------
(* A room without a number of weeks gets 30. *)
CreateError(maxWeeks) == IF maxWeeks < 0 THEN "InvalidMaxWeeks" ELSE "none"

AddPlayerError(r, name) ==
  IF name = EmptyName THEN "EmptyPlayerName"
  ELSE IF r.Status # "waiting" THEN "CannotJoinStarted"
  ELSE IF Len(r.Players) >= Len(AllRoles) THEN "RoomFull"
  ELSE IF \E i \in DOMAIN r.Players : r.Players[i].Name = name THEN "PlayerAlreadyIn"
  ELSE "none"

AssignRoleError(r, id, role) ==
  IF r.Status # "waiting" THEN "GameAlreadyStarted"
  ELSE IF role \notin Roles THEN "InvalidRole"
  ELSE IF \E i \in DOMAIN r.Players : r.Players[i].ID # id /\ r.Players[i].Role = role
    THEN "RoleAlreadyTaken"
  ELSE IF ~InRoom(r, id) THEN "PlayerNotFound"
  ELSE "none"

StartError(r) ==
  IF r.Status # "waiting" THEN "GameAlreadyStarted"
  ELSE IF Len(r.Players) # Len(AllRoles) THEN "RoomNotReady"
  ELSE IF ~RolesDistinct(r) THEN "RoleAlreadyTaken"
  ELSE "none"

RoleOfPlayerError(r, id) ==
  IF ~InRoom(r, id) THEN "PlayerNotFound"
  ELSE IF RoleOfPlayer(r, id) = NoRole THEN "PlayerRoleMissing"
  ELSE "none"

AdvanceWeekError(session, orders) ==
  IF session.Status # "active" THEN "SessionNotActive"
  ELSE IF session.CurrentWeek >= MaxWeeks THEN "WeekLimitReached"
  ELSE IF ~(Roles \subseteq DOMAIN orders) THEN "MissingDecision"
  ELSE IF \E r \in Roles : orders[r] < 0 THEN "NegativeDecision"
  ELSE "none"

(* An unknown scenario is reported as a room that was not found. *)
scenarioError(known) == IF known THEN "none" ELSE "RoomNotFound"

sessionError == IF roomSession = NoId THEN "SessionNotFound" ELSE "none"

-----------------------------------------------------------------------------
First(error, next) == IF error # "none" THEN error ELSE next

StartGameError(known) == First(scenarioError(known), StartError(room))

SubmitOrderError(id) ==
  First(RoleOfPlayerError(room, id),
    First(sessionError,
      IF CurrentSession.Status # "active" THEN "SessionNotActive" ELSE "none"))

PendingOrders == decisions[currentPlayableWeek(CurrentSession)]

AdvanceError ==
  First(sessionError,
    IF ~weekReady(PendingOrders) THEN "WeekNotReady"
    ELSE AdvanceWeekError(CurrentSession, PendingOrders))

StateError(id) ==
  IF ~InRoom(room, id) THEN "PlayerNotFound"
  ELSE IF room.Status = "waiting" THEN "none"
  ELSE sessionError

(* Only SubmitOrder looks at its input before it looks for the room; the   *)
(* reads of the session never look for the room at all.                    *)
errorOf(q) ==
  IF q \in Unserved THEN IF q.op = "noPath" THEN "NotFound" ELSE "BadRequest"
  ELSE IF q.op = "create" THEN CreateError(q.maxWeeks)
  ELSE IF q.op = "submit" /\ ~MaySubmit(q.order) THEN "NegativeDecision"
  ELSE IF q \in Gets \ {[op |-> "room"]} THEN sessionError
  ELSE IF room = NoRoom THEN "RoomNotFound"
  ELSE CASE q.op = "join"    -> AddPlayerError(room, q.name)
         [] q.op = "assign"  -> AssignRoleError(room, q.player, q.role)
         [] q.op = "start"   -> StartGameError(q.scenarioKnown)
         [] q.op = "submit"  -> SubmitOrderError(q.player)
         [] q.op = "advance" -> AdvanceError
         [] q.op = "state"   -> StateError(q.player)
         [] q.op = "room"    -> "none"

(* writeDomainError: an error it does not know is an internal one. *)
statusOf(error) ==
  CASE error \in {"RoomNotFound", "SessionNotFound", "NotFound"} -> 404
    [] error \in {"BadRequest", "InvalidMaxWeeks", "EmptyPlayerName",
                  "PlayerAlreadyIn", "PlayerNotFound", "InvalidRole", "NegativeDecision",
                  "PlayerRoleMissing"} -> 400
    [] error \in {"RoomFull", "CannotJoinStarted", "RoleAlreadyTaken",
                  "RoomNotReady", "GameAlreadyStarted", "WeekNotReady",
                  "SessionNotActive", "WeekLimitReached"} -> 409
    [] OTHER -> 500

(* The errors a request under way may end with at its next step, for the   *)
(* record it has read itself (its first store call apart, errorOf's        *)
(* checks), "none" or nothing if it goes on.                               *)
sessionErrorOf(l, sid) ==
  IF sid = NoId \/ sessions[sid] = NoSession THEN "SessionNotFound"
  ELSE IF l.op = "submit" /\ sessions[sid].Status # "active" THEN "SessionNotActive"
  ELSE "none"

errorsAhead(l) ==
  CASE l.at = "haveRoom" /\ l.op = "join" -> {AddPlayerError(l.room, name) : name \in Names}
    [] l.at = "haveRoom" /\ l.op = "assign" ->
         {AssignRoleError(l.room, id, role) :
            id \in PlayerIds, role \in Roles \cup {UnknownRole}}
    [] l.at = "haveRoom" /\ l.op = "start" -> {StartError(l.room)}
    [] l.at = "writeRoles" -> IF rolesSuffice(l.room, l.free) THEN {} ELSE {"panic"}
    [] l.at = "getRoomSession" -> {sessionErrorOf(l, roomSession)}
    [] l.at = "getSession" -> {sessionErrorOf(l, l.sid)}
    [] l.at = "getDecisions" /\ l.op = "advance" ->
         {IF ~weekReady(decisions[l.week]) THEN "WeekNotReady"
          ELSE AdvanceWeekError(l.session, decisions[l.week])}
    [] OTHER -> {}

answer(q) ==
  IF errorOf(q) # "none" THEN statusOf(errorOf(q))
  ELSE IF q.op \in {"create", "start"} THEN 201 ELSE 200

accepted(q) == answer(q) \in {200, 201}

-----------------------------------------------------------------------------
(* The page.  What it has enabled for the player id after it read his      *)
(* state: the role buttons, the start button, the order form, the button   *)
(* that ends the week, the link to the spreadsheet.                        *)
taken(r) == UsedRoles(r)

offeredRoles(id) ==
  {q \in Choices : /\ q.player = id /\ q.role \in Roles
                   /\ room.Status = "waiting"
                   /\ q.role \in taken(room) => q.role = RoleOfPlayer(room, id)}
offeredStart ==
  {q \in Starts : /\ q.scenarioKnown
                  /\ room.Status = "waiting" /\ Len(room.Players) >= Len(AllRoles)}
offeredOrders(id) ==
  {q \in Submits : q.player = id /\ q.order >= 0 /\ room.Status = "active"}
allOrdered(orders) == orders # NoDecisions /\ Roles \subseteq DOMAIN orders
offeredEnd ==
  {q \in Ends : room.Status = "active" /\ allOrdered(PendingOrders)}
offeredExport == {q \in Gets : q.op = "export" /\ room.Status # "waiting"}

offered(id) ==
  offeredRoles(id) \cup offeredStart \cup offeredOrders(id) \cup offeredEnd
    \cup offeredExport

-----------------------------------------------------------------------------
(* What a page that is up to date offers its player succeeds: nothing it   *)
(* enables is refused (app.js updateControls and renderRoleAvailability    *)
(* against the checks of room.go and game_service.go).  The one exception  *)
(* is a game whose last week was saved by an AdvanceWeek that never came   *)
(* to save the room: its page asks for orders the server no longer takes.  *)
OffersAccepted ==
  Quiet /\ room # NoRoom =>
    \A id \in PlayerIds : accepted([op |-> "state", player |-> id]) =>
      \A q \in offered(id) :
        \/ accepted(q)
        \/ room.Status = "active" /\ CurrentSession.Status = "finished"

(* No request is answered with "internal server error", neither one that   *)
(* comes when no other is under way, nor one under way that read the       *)
(* stores before others wrote them: the complete orders of a week are the  *)
(* orders of the four roles, so the missing decision AdvanceWeek has no    *)
(* status for cannot occur (game_session.go AdvanceWeek, server.go         *)
(* writeDomainError).  The exception is a StartGame on the memory stores   *)
(* that runs out of roles, panics (room.go:166) and is answered by         *)
(* WithRecovery.                                                           *)
NeverInternalError ==
  /\ Quiet => \A q \in Requests : answer(q) # 500
  /\ \A w \in Workers : \A error \in errorsAhead(local[w]) \ {"none", "panic"} :
       statusOf(error) # 500

(* And that exception takes an overlapping join: StartGame has a role for  *)
(* every seat (room.go EnsureRolesAssigned), unless a join that read the   *)
(* room before it was full has overwritten somebody's slot.                *)
RolesSuffice ==
  \A w \in Workers : "panic" \in errorsAhead(local[w]) =>
    \E id \in issued \cap PlayerIds : ~InRoom(room, id)

(* As long as the game is not over, some request that brings it further    *)
(* succeeds: a player joins, a role nobody has is taken, the game is       *)
(* started, a missing order is placed, a week is ended; nobody waits for   *)
(* ever.  The exception is a started room in which a role is nobody's: a   *)
(* request to end a week that read the room before StartGame saved it      *)
(* (game_service.go:164) has written that room back.                       *)
bringsFurther(q) ==
  /\ q.op = "assign" => q.role \notin taken(room)
  /\ q.op = "submit" /\ PendingOrders # NoDecisions =>
       RoleOfPlayer(room, q.player) \notin DOMAIN PendingOrders
GameGoesOn ==
  Quiet /\ room # NoRoom /\ (room.Status # "waiting" => UsedRoles(room) = Roles) =>
    \/ CurrentSession.Status = "finished"
    \/ \E q \in Commands : accepted(q) /\ bringsFurther(q)
=============================================================================
