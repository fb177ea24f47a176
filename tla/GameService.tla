---------------------------- MODULE GameService ----------------------------
(***************************************************************************)
(* StartGame, SubmitOrder and AdvanceWeek of                               *)
(* internal/usecase/game_service.go, one step per store call.  The three   *)
(* read the room first; SubmitOrder and AdvanceWeek then look up the       *)
(* session (two reads) and the decisions of its playable week.             *)
(***************************************************************************)
EXTENDS RoomService

-----------------------------------------------------------------------------
(* StartGame up to its first Save.  On the memory stores the roles still   *)
(* to be had and the players who have none are looked up at different      *)
(* times; too few roles end the request with a panic.                      *)
Starting(w, r) ==
  \E sid \in SessionIds \ issued :
    /\ issued' = issued \cup {sid}
    /\ ChangePlayers(w, r, [NoLocal EXCEPT !.op = "start", !.at = "saveRoom",
                                           !.room = Started(r), !.sid = sid,
                                           !.session = NewGameSession])

StartGame(w) ==
  /\ kind = "redis" /\ hasRoom(w, "start")
  /\ MayStart(room)
  /\ Starting(w, EnsureRolesAssigned(room))

EnsureRoles(w) ==
  /\ kind = "memory" /\ hasRoom(w, "start")
  /\ MayStart(local[w].room)
  /\ Continue(w, [local[w] EXCEPT !.at = "writeRoles",
                                  !.free = availableRoles(local[w].room)])
  /\ UNCHANGED <<storeVars, issued>>

rolesSuffice(r, free) ==
  LET filled == WithRoles(r, free)
  IN  \A i \in DOMAIN filled.Players : filled.Players[i].Role # NoRole

WriteRoles(w) ==
  LET filled == WithRoles(local[w].room, local[w].free)
  IN  /\ local[w].at = "writeRoles"
      /\ IF rolesSuffice(local[w].room, local[w].free)
           THEN Starting(w, filled)
           ELSE ChangePlayers(w, filled, NoLocal) /\ UNCHANGED issued

StartSaveRoom(w) ==
  /\ local[w].at = "saveRoom" /\ local[w].op = "start"
  /\ RoomStoreSave(local[w].room)
  /\ Continue(w, [local[w] EXCEPT !.at = "saveSession", !.room = NoRoom])
  /\ UNCHANGED issued

StartSaveSession(w) ==
  /\ local[w].at = "saveSession" /\ local[w].op = "start"
  /\ SessionStoreSave(local[w].sid, local[w].session)
  /\ Continue(w, [NoLocal EXCEPT !.op = "start", !.at = "publish"])
  /\ UNCHANGED issued

-----------------------------------------------------------------------------
M_anyOrder(order) == order \in Int
MaySubmit(order) == order >= 0

(* SubmitOrder refuses a negative order, then reads the room for the role  *)
(* of the player.                                                          *)
M_submitWithoutRole(w, id, order) ==
  /\ MaySubmit(order)
  /\ idle(w) /\ room # NoRoom
  /\ \E i \in DOMAIN room.Players : room.Players[i].ID = id
  /\ Continue(w, [NoLocal EXCEPT !.op = "submit", !.at = "getRoomSession",
                                 !.role = RoleOfPlayer(room, id),
                                 !.order = order])
  /\ UNCHANGED <<storeVars, issued>>
SubmitOrder(w, id, order) ==
  /\ MaySubmit(order)
  /\ idle(w) /\ room # NoRoom
  /\ RoleOfPlayer(room, id) # NoRole
  /\ Continue(w, [NoLocal EXCEPT !.op = "submit", !.at = "getRoomSession",
                                 !.role = RoleOfPlayer(room, id),
                                 !.order = order])
  /\ UNCHANGED <<storeVars, issued>>

(* AdvanceWeek keeps the room it read: it saves it again at the end. *)
AdvanceWeek(w) ==
  /\ idle(w) /\ room # NoRoom
  /\ Continue(w, [NoLocal EXCEPT !.op = "advance", !.at = "getRoomSession",
                                 !.room = room])
  /\ UNCHANGED <<storeVars, issued>>

(* GetByRoomID: one read on the memory stores, two on Redis.  Without a    *)
(* session the request fails.  SubmitOrder then refuses a finished one;    *)
(* AdvanceWeek does so only after it has read the decisions.               *)
SessionFound(w, l) ==
  LET session == sessions[l.sid]
  IN  IF l.op = "submit" /\ session.Status # "active"
        THEN Leave(w)
        ELSE Continue(w, [l EXCEPT !.at = "getDecisions",
                                   !.session = session,
                                   !.week = currentPlayableWeek(session)])

GetRoomSession(w) ==
  LET l == [local[w] EXCEPT !.sid = roomSession]
  IN  /\ local[w].at = "getRoomSession"
      /\ IF roomSession = NoId THEN Leave(w)
         ELSE IF kind = "memory" THEN SessionFound(w, l)
         ELSE Continue(w, [l EXCEPT !.at = "getSession"])
      /\ UNCHANGED <<storeVars, issued>>

GetSession(w) ==
  /\ local[w].at = "getSession"
  /\ SessionFound(w, local[w])
  /\ UNCHANGED <<storeVars, issued>>

M_forgetOthers(orders, role, order) == [r \in {role} |-> order]
withOrder(orders, role, order) ==
  IF orders = NoDecisions THEN [r \in {role} |-> order]
  ELSE [r \in DOMAIN orders \cup {role} |-> IF r = role THEN order ELSE orders[r]]

(* SubmitOrder: the orders of the week are read and this one is added. *)
SubmitGetDecisions(w) ==
  LET l == local[w]
  IN  /\ l.at = "getDecisions" /\ l.op = "submit"
      /\ Continue(w, [l EXCEPT !.at = "saveDecisions",
                               !.session = NoSession,
                               !.orders = withOrder(decisions[l.week], l.role, l.order)])
      /\ UNCHANGED <<storeVars, issued>>

SaveDecisions(w) ==
  LET l == local[w]
  IN  /\ l.at = "saveDecisions"
      /\ DecisionStoreSave(l.week, l.orders)
      /\ Continue(w, [l EXCEPT !.at = "publish", !.orders = NoDecisions, !.order = 0])
      /\ UNCHANGED issued

-----------------------------------------------------------------------------
weekReady(orders) == orders # NoDecisions /\ Cardinality(DOMAIN orders) = Len(AllRoles)

M_roomPastTheEnd(r, session) ==
  [r EXCEPT !.CurrentWeek = session.CurrentWeek + 1, !.Status = session.Status]
M_roomRebuilt(r, session) ==
  [NewRoom EXCEPT !.CurrentWeek = currentPlayableWeek(session), !.Status = session.Status]
roomAfterWeek(r, session) ==
  [r EXCEPT !.CurrentWeek = currentPlayableWeek(session), !.Status = session.Status]

(* AdvanceWeek: the orders of the week are read and the week is played, in *)
(* the copy of the session; the copy of the room takes its week and status.*)
(* On the memory stores playing is a step of its own: every copy of the    *)
(* session sees its queues moved.                                          *)
AfterWeek(l, next) ==
  [l EXCEPT !.at = "saveSession", !.session = next, !.orders = NoDecisions,
            !.room = roomAfterWeek(@, next)]

AdvanceGetDecisions(w) ==
  LET l      == local[w]
      orders == decisions[l.week]
  IN  /\ l.at = "getDecisions" /\ l.op = "advance"
      /\ IF ~(weekReady(orders) /\ MayAdvance(l.session, orders)) THEN Leave(w)
         ELSE IF kind = "memory"
           THEN Continue(w, [l EXCEPT !.at = "playWeek", !.orders = orders])
         ELSE Continue(w, AfterWeek(l, SessionAdvanceWeek(l.session, orders)))
      /\ UNCHANGED <<storeVars, issued>>

PlayWeek(w) ==
  LET l    == local[w]
      next == SessionAdvanceWeek(l.session, l.orders)
  IN  /\ l.at = "playWeek"
      /\ sessions' = [sessions EXCEPT ![l.sid] = sessionSeen(@, next)]
      /\ local' = [v \in Workers |->
                     IF v = w THEN AfterWeek(l, next)
                     ELSE IF local[v].sid = l.sid
                       THEN [local[v] EXCEPT !.session = sessionSeen(@, next)]
                     ELSE local[v]]
      /\ unannounced' = IF sessions' = sessions THEN unannounced ELSE "change"
      /\ UNCHANGED <<room, roomSession, decisions, kind, issued>>

M_playedNotSaved(w) ==
  /\ local[w].at = "saveSession" /\ local[w].op = "advance"
  /\ Continue(w, [local[w] EXCEPT !.at = "saveRoom", !.session = NoSession])
  /\ UNCHANGED <<storeVars, issued>>
AdvanceSaveSession(w) ==
  /\ local[w].at = "saveSession" /\ local[w].op = "advance"
  /\ SessionStoreSave(local[w].sid, local[w].session)
  /\ Continue(w, [local[w] EXCEPT !.at = "saveRoom", !.session = NoSession])
  /\ UNCHANGED issued

AdvanceSaveRoom(w) ==
  /\ local[w].at = "saveRoom" /\ local[w].op = "advance"
  /\ RoomStoreSave(local[w].room)
  /\ Continue(w, [local[w] EXCEPT !.at = "deleteDecisions", !.room = NoRoom])
  /\ UNCHANGED issued

DeleteDecisions(w) ==
  /\ local[w].at = "deleteDecisions"
  /\ DecisionStoreDelete(local[w].week)
  /\ Continue(w, [NoLocal EXCEPT !.op = "advance", !.at = "publish"])
  /\ UNCHANGED issued

(* The event, then the answer. *)
AnswerGame(w) ==
  /\ local[w].at = "publish" /\ local[w].op \in {"start", "submit", "advance"}
  /\ PublishRoomEvent
  /\ Leave(w)
  /\ UNCHANGED issued

GameServiceStep(w) ==
  \/ StartGame(w) \/ EnsureRoles(w) \/ WriteRoles(w)
  \/ StartSaveRoom(w) \/ StartSaveSession(w)
  \/ \E id \in PlayerIds, order \in OrderChoices : SubmitOrder(w, id, order)
  \/ SubmitGetDecisions(w) \/ SaveDecisions(w)
  \/ AdvanceWeek(w)
  \/ GetRoomSession(w) \/ GetSession(w)
  \/ AdvanceGetDecisions(w) \/ PlayWeek(w) \/ AdvanceSaveSession(w) \/ AdvanceSaveRoom(w)
  \/ DeleteDecisions(w)
  \/ AnswerGame(w)
=============================================================================
