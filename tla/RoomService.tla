---------------------------- MODULE RoomService ----------------------------
(***************************************************************************)
(* The requests of internal/usecase/room_service.go.  A request runs in a  *)
(* goroutine of its own, here a worker; each store call is one step, and   *)
(* what a handler computes between two calls is part of the first.  A      *)
(* worker's `local` holds the handler's local variables while the request  *)
(* is under way.                                                           *)
(***************************************************************************)
EXTENDS Stores

CONSTANTS Workers,        \* requests that can be under way at once
          NoPlayer

VARIABLES local,          \* per worker: the request under way
          issued          \* identifiers NewID has produced

vars == <<storeVars, local, issued>>

NoLocal == [op |-> "none", at |-> "idle", room |-> NoRoom, sid |-> NoId,
            session |-> NoSession, week |-> 0, orders |-> NoDecisions,
            player |-> NoPlayer, role |-> NoRole, order |-> 0,
            seat |-> 0, free |-> <<>>]

idle(w) == local[w].at = "idle"

(* Go on with the handler's next call. *)
Continue(w, l) == local' = [local EXCEPT ![w] = l]
Leave(w) == Continue(w, NoLocal)

(* Go on as l after changing the players of a copy of the room to those of *)
(* written.  On the memory stores that can change the stored room, which a *)
(* request that ends there, in a panic, does not announce.                 *)
ChangePlayers(w, written, l) ==
  /\ room' = roomSeen(room, written)
  /\ unannounced' = IF room' = room \/ (l = NoLocal /\ unannounced = "change")
                       THEN unannounced
                     ELSE IF l = NoLocal THEN "torn" ELSE "change"
  /\ local' = [v \in Workers |->
                 IF v = w THEN l
                 ELSE [local[v] EXCEPT !.room = roomSeen(@, written)]]
  /\ UNCHANGED <<sessions, roomSession, decisions, kind>>

-----------------------------------------------------------------------------
(* CreateRoom: the identifier is new, so only this room's own creation     *)
(* concerns this room.                                                     *)
CreateRoom(w) ==
  /\ idle(w) /\ room = NoRoom
  /\ \A v \in Workers : local[v].op # "create"
  /\ Continue(w, [NoLocal EXCEPT !.op = "create", !.at = "saveRoom",
                                 !.room = NewRoom])
  /\ UNCHANGED <<storeVars, issued>>

(* The room a handler reads.  On Redis what it does with its copy concerns *)
(* nobody else and is part of the reading step.  On the memory stores      *)
(* others see it and interfere, so reading is a step of its own.           *)
ReadRoom(w, op) ==
  /\ kind = "memory" /\ idle(w) /\ room # NoRoom
  /\ Continue(w, [NoLocal EXCEPT !.op = op, !.at = "haveRoom", !.room = room])
  /\ UNCHANGED <<storeVars, issued>>

hasRoom(w, op) == IF kind = "memory" THEN local[w].op = op /\ local[w].at = "haveRoom"
                                     ELSE idle(w) /\ room # NoRoom
roomOf(w) == IF kind = "memory" THEN local[w].room ELSE room

(* Without a step of its own where the room is read in the same step. *)
RefuseRoom(w) ==
  /\ local[w].at = "haveRoom"
  /\ local[w].op = "start" => ~MayStart(local[w].room)
  /\ Leave(w)
  /\ UNCHANGED <<storeVars, issued>>

(* JoinRoom: the player is added to the copy. *)
M_joinWithoutSave(w, name) ==
  /\ hasRoom(w, "join")
  /\ MayAddPlayer(roomOf(w), name)
  /\ \E id \in PlayerIds \ issued :
       /\ issued' = issued \cup {id}
       /\ Continue(w, [NoLocal EXCEPT !.op = "join", !.at = "publish", !.player = id])
  /\ UNCHANGED storeVars
JoinRoom(w, name) ==
  /\ hasRoom(w, "join")
  /\ MayAddPlayer(roomOf(w), name)
  /\ \E id \in PlayerIds \ issued :
       LET joined == AddPlayer(roomOf(w), id, name)
       IN  /\ issued' = issued \cup {id}
           /\ ChangePlayers(w, joined,
                [NoLocal EXCEPT !.op = "join", !.at = "saveRoom",
                                !.room = joined, !.player = id])

(* AssignRole: the checks, and the role written to the copy.  On the       *)
(* memory stores another request may come in between.                      *)
RequestRole(w, id, role) ==
  /\ hasRoom(w, "assign")
  /\ MayAssignRole(roomOf(w), id, role)
  /\ Continue(w,
       IF kind = "memory"
         THEN [local[w] EXCEPT !.at = "writeRole", !.role = role,
                               !.seat = PlayerIndex(roomOf(w), id)]
         ELSE [NoLocal EXCEPT !.op = "assign", !.at = "saveRoom",
                              !.room = AssignRole(room, id, role)])
  /\ UNCHANGED <<storeVars, issued>>

WriteRole(w) ==
  LET assigned == WithRoleAt(local[w].room, local[w].seat, local[w].role)
  IN  /\ local[w].at = "writeRole"
      /\ ChangePlayers(w, assigned, [NoLocal EXCEPT !.op = "assign",
                                                    !.at = "saveRoom",
                                                    !.room = assigned])
      /\ UNCHANGED issued

(* roomStore.Save of CreateRoom, JoinRoom and AssignRole. *)
SaveRoom(w) ==
  /\ local[w].at = "saveRoom" /\ local[w].op \in {"create", "join", "assign"}
  /\ RoomStoreSave(local[w].room)
  /\ Continue(w, [local[w] EXCEPT !.at = "publish", !.room = NoRoom])
  /\ UNCHANGED issued

(* The event, then the answer. *)
M_answerWithoutEvent(w) ==
  /\ local[w].at = "publish" /\ local[w].op \in {"create", "join", "assign"}
  /\ Leave(w)
  /\ UNCHANGED <<storeVars, issued>>
AnswerRoom(w) ==
  /\ local[w].at = "publish" /\ local[w].op \in {"create", "join", "assign"}
  /\ PublishRoomEvent
  /\ Leave(w)
  /\ UNCHANGED issued

RoomServiceStep(w) ==
  \/ CreateRoom(w)
  \/ \E op \in {"join", "assign", "start"} : ReadRoom(w, op)
  \/ RefuseRoom(w) \/ WriteRole(w)
  \/ \E name \in Names : JoinRoom(w, name)
  \/ \E id \in PlayerIds, role \in Roles \cup {UnknownRole} : RequestRole(w, id, role)
  \/ SaveRoom(w)
  \/ AnswerRoom(w)
=============================================================================
