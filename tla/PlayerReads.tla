---------------------------- MODULE PlayerReads ----------------------------
(***************************************************************************)
(* GetPlayerState of internal/usecase/game_service.go beside the requests  *)
(* that write: a client asks for one player's state again and again (GET   *)
(* /state, and the event stream before each event it sends).  The state is *)
(* put together from the room, the session, the session read a second time *)
(* for the pending decisions, and those decisions: six reads of the        *)
(* stores, with writes in between.                                         *)
(***************************************************************************)
EXTENDS Server

CONSTANT NoState

VARIABLES reading,        \* the read under way
          shown           \* the player state last answered

readVars == <<reading, shown>>

NoReading == [at |-> "idle", player |-> NoPlayer, room |-> NoRoom, sid |-> NoId,
              session |-> NoSession, week |-> 0]

ReadInit == reading = NoReading /\ shown = NoState

Reading(r) == reading' = r
Answer(state) == shown' = state /\ Reading(NoReading)
(* An error: the client keeps what it has. *)
Fail == Reading(NoReading) /\ UNCHANGED shown

-----------------------------------------------------------------------------
(* WeeklyDecisions.Snapshot, as far as the state uses it. *)
SubmittedRoles(orders) == IF orders = NoDecisions THEN {} ELSE DOMAIN orders
Ready(orders) == SubmittedRoles(orders) = Roles

findPlayer(r, id) == \E i \in DOMAIN r.Players : r.Players[i].ID = id

WaitingState(r, id) ==
  [RoomStatus |-> r.Status, CurrentWeek |-> r.CurrentWeek,
   Role |-> RoleOfPlayer(r, id), weeks |-> 0,
   OrdersSubmitted |-> 0, WeekReady |-> FALSE, OwnOrderSubmitted |-> FALSE]

(* The room.  A waiting room is all there is to show. *)
GetPlayerState(id) ==
  /\ reading.at = "idle" /\ room # NoRoom
  /\ findPlayer(room, id)
  /\ IF room.Status = "waiting"
       THEN Answer(WaitingState(room, id))
       ELSE /\ Reading([NoReading EXCEPT !.at = "roomSession", !.player = id,
                                         !.room = room])
            /\ UNCHANGED shown

(* GetByRoomID, called by GetPlayerState and then by GetPendingDecisions.  *)
ReadRoomSession ==
  /\ reading.at \in {"roomSession", "roomSessionAgain"}
  /\ IF roomSession = NoId
       THEN Fail
       ELSE /\ Reading([reading EXCEPT
                          !.at = IF @ = "roomSession" THEN "session" ELSE "sessionAgain",
                          !.sid = roomSession])
            /\ UNCHANGED shown

ReadSession ==
  /\ reading.at = "session"
  /\ Reading([reading EXCEPT !.at = "roomSessionAgain", !.session = sessions[reading.sid]])
  /\ UNCHANGED shown

(* GetPendingDecisions asks for the week its own copy of the session is in.*)
ReadSessionAgain ==
  /\ reading.at = "sessionAgain"
  /\ Reading([reading EXCEPT !.at = "decisions",
                             !.week = currentPlayableWeek(sessions[reading.sid])])
  /\ UNCHANGED shown

PlayerState(r, id, session, orders) ==
  [RoomStatus        |-> r.Status,
   CurrentWeek       |-> currentPlayableWeek(session),
   Role              |-> RoleOfPlayer(r, id),
   weeks             |-> Len(session.History),
   OrdersSubmitted   |-> Cardinality(SubmittedRoles(orders)),
   WeekReady         |-> Ready(orders),
   OwnOrderSubmitted |-> RoleOfPlayer(r, id) \in SubmittedRoles(orders)]

M_sessionReadLast ==
  /\ reading.at = "decisions"
  /\ Answer(PlayerState(reading.room, reading.player, sessions[reading.sid],
                        decisions[reading.week]))
M_roomReadLast ==
  /\ reading.at = "decisions"
  /\ Answer(PlayerState(room, reading.player, reading.session,
                        decisions[reading.week]))
ReadDecisions ==
  /\ reading.at = "decisions"
  /\ Answer(PlayerState(reading.room, reading.player, reading.session,
                        decisions[reading.week]))

(* A read may fail like a write: the call does, or the client leaves. *)
AbortRead == Failures /\ reading.at # "idle" /\ Fail

ReadStep ==
  \/ \E id \in PlayerIds : GetPlayerState(id)
  \/ ReadRoomSession \/ ReadSession \/ ReadSessionAgain \/ ReadDecisions
  \/ AbortRead

ReadNext == \/ Next /\ UNCHANGED readVars
            \/ ReadStep /\ UNCHANGED vars

ReadSpec == Init /\ ReadInit /\ [][ReadNext]_<<vars, readVars>>

-----------------------------------------------------------------------------
(* The state mixes records of different moments.  Still, an order it shows *)
(* as submitted, and a week it shows as ready to be ended, can be relied   *)
(* on: while the shown week is the one being played, as many orders are in *)
(* the store, the player's own among them if it was shown, and ending the  *)
(* week would succeed if it was shown as ready (GetPlayerState takes the   *)
(* week from the session it read first).  Needs writers one at a time:     *)
(* overlapping ones lose orders.                                           *)
ShownOrdersStand ==
  shown # NoState /\ roomSession # NoId =>
    LET session == sessions[roomSession]
        orders  == SubmittedRoles(decisions[currentPlayableWeek(session)])
    IN  session.Status = "active" /\ shown.CurrentWeek = session.CurrentWeek + 1
          /\ shown.RoomStatus # "waiting" =>
            /\ shown.OrdersSubmitted <= Cardinality(orders)
            /\ shown.OwnOrderSubmitted => shown.Role \in orders
            /\ shown.WeekReady => MayAdvance(session, decisions[shown.CurrentWeek])

(* A client that asks again is never shown an earlier week, or a game      *)
(* called off.                                                             *)
ShownWeekNeverBack ==
  [][shown # NoState =>
       /\ shown'.CurrentWeek >= shown.CurrentWeek
       /\ shown.RoomStatus # "waiting" => shown'.RoomStatus # "waiting"]_<<vars, readVars>>

(* A room shown as finished is shown with all its weeks: the room is read  *)
(* before the session and written after it.                                *)
FinishedShownWhole ==
  shown # NoState /\ shown.RoomStatus = "finished" => shown.weeks = MaxWeeks
=============================================================================
