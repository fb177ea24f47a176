------------------------------- MODULE Stores -------------------------------
(***************************************************************************)
(* What one room has in the three stores, and what a store call does, for  *)
(* both kinds of stores: internal/infrastructure/redis and .../memory.     *)
(* Every key contains the room's identifier (or a session identifier that  *)
(* is never reused), so rooms do not affect one another and one room is    *)
(* enough.  A call reads or writes one key atomically, except GetByRoomID  *)
(* of the Redis store, which is two reads.  Expiry (the ttl of every Set)  *)
(* is left out.                                                            *)
(*                                                                         *)
(* Redis records are copied in and out, as JSON.  The memory stores hand   *)
(* out Go values: numbers and statuses are copied, but the players of a    *)
(* room, the history and the queues of a session stay the stored ones, and *)
(* whoever changes his copy of them changes everybody's.  Decisions are    *)
(* copied by both.                                                         *)
(*                                                                         *)
(* A session is cut down to what the services look at: its status, its     *)
(* week, the decisions of the weeks played, and how often its queues of    *)
(* goods and orders were moved on (GameSession models what the weeks       *)
(* compute from them).                                                     *)
(***************************************************************************)
EXTENDS Room

CONSTANTS MaxWeeks,       \* the length of the game
          OrderChoices,   \* the orders players try to submit
          SessionIds,     \* the identifiers NewID can produce for sessions
          StoreKinds,     \* the kinds of stores main may build
          NoId, NoRoom, NoSession, NoDecisions

ASSUME MaxWeeksAssumption == MaxWeeks \in Nat \ {0}
ASSUME StoreKindsAssumption == StoreKinds \subseteq {"redis", "memory"}
ASSUME OrderAssumption == OrderChoices \subseteq Int

VARIABLES room,           \* room:<id>
          sessions,       \* session:<id>, by session identifier
          roomSession,    \* room-session:<id>, the identifier it holds
          decisions,      \* decisions:<id>:<week>, by week
          unannounced,    \* what happened to the stored records since the
                          \* last event: "nothing", a "change", or only what
                          \* a request that panicked left behind, "torn"
          kind            \* the stores in use

storeVars == <<room, sessions, roomSession, decisions, unannounced, kind>>

Session == [Status : {"active", "finished"},
            CurrentWeek : 0..MaxWeeks,
            History : Seq([Roles -> OrderChoices \cap Nat]),
            moved : Nat]

(* The orders of one week, by role: complete or not. *)
Orders == UNION {[S -> OrderChoices \cap Nat] : S \in SUBSET Roles}

(* What stands for a missing record is no record. *)
ASSUME NullAssumption == /\ NoRoom \notin RoomRecord /\ NoSession \notin Session
                         /\ NoDecisions \notin Orders /\ NoId \notin SessionIds

StoresTypeOK ==
  /\ room \in RoomRecord \cup {NoRoom}
  /\ sessions \in [SessionIds -> Session \cup {NoSession}]
  /\ roomSession \in SessionIds \cup {NoId}
  /\ decisions \in [1..MaxWeeks -> Orders \cup {NoDecisions}]
  /\ unannounced \in {"nothing", "change", "torn"} /\ kind \in StoreKinds

StoresInit ==
  /\ room = NoRoom
  /\ sessions = [sid \in SessionIds |-> NoSession]
  /\ roomSession = NoId
  /\ decisions = [week \in 1..MaxWeeks |-> NoDecisions]
  /\ unannounced = "nothing" /\ kind \in StoreKinds

-----------------------------------------------------------------------------
RoomStoreSave(r) ==
  /\ room' = r
  /\ unannounced' = "change"
  /\ UNCHANGED <<sessions, roomSession, decisions, kind>>

(* SessionStore.Save sets the session and the room's key to it at once. *)
M_saveWithoutRoomKey(sid, session) ==
  /\ sessions' = [sessions EXCEPT ![sid] = session]
  /\ unannounced' = "change"
  /\ UNCHANGED <<room, roomSession, decisions, kind>>
SessionStoreSave(sid, session) ==
  /\ sessions' = [sessions EXCEPT ![sid] = session]
  /\ roomSession' = sid
  /\ unannounced' = "change"
  /\ UNCHANGED <<room, decisions, kind>>

DecisionStoreSave(week, orders) ==
  /\ decisions' = [decisions EXCEPT ![week] = orders]
  /\ unannounced' = "change"
  /\ UNCHANGED <<room, sessions, roomSession, kind>>

DecisionStoreDelete(week) ==
  /\ decisions' = [decisions EXCEPT ![week] = NoDecisions]
  /\ unannounced' = "change"
  /\ UNCHANGED <<room, sessions, roomSession, kind>>

(* PublishRoomEvent: whoever receives the event reads the stores again, so *)
(* one event announces everything written before it.                       *)
PublishRoomEvent ==
  /\ unannounced' = "nothing"
  /\ UNCHANGED <<room, sessions, roomSession, decisions, kind>>

-----------------------------------------------------------------------------
(* GameSession, as far as the services see it. *)
NewGameSession ==
  [Status |-> "active", CurrentWeek |-> 0, History |-> <<>>, moved |-> 0]

M_weekJustPlayed(session) ==
  IF session.CurrentWeek = 0 THEN 1 ELSE session.CurrentWeek
currentPlayableWeek(session) ==
  IF session.Status = "finished" THEN session.CurrentWeek
                                 ELSE session.CurrentWeek + 1

MayAdvance(session, orders) ==
  /\ session.Status = "active"
  /\ session.CurrentWeek < MaxWeeks
  /\ DOMAIN orders = Roles /\ \A r \in Roles : orders[r] >= 0

SessionAdvanceWeek(session, orders) ==
  [Status      |-> IF session.CurrentWeek + 1 >= MaxWeeks THEN "finished"
                                                          ELSE session.Status,
   CurrentWeek |-> session.CurrentWeek + 1,
   History     |-> Append(session.History, orders),
   moved       |-> session.moved + 1]

-----------------------------------------------------------------------------
(* What other copies see of a change made to a copy.  A slice's array is   *)
(* made once, with room for all its elements (NewRoom, NewGameSession), so *)
(* an append writes the slot after the copy's last one; a copy sees the    *)
(* slots it has.                                                           *)
slotsSeen(copy, written) ==
  [i \in DOMAIN copy |-> IF i \in DOMAIN written THEN written[i] ELSE copy[i]]

roomSeen(r, written) ==
  IF kind = "redis" \/ r = NoRoom THEN r
  ELSE [r EXCEPT !.Players = slotsSeen(@, written.Players)]

sessionSeen(session, written) ==
  IF kind = "redis" \/ session = NoSession THEN session
  ELSE [session EXCEPT !.History = slotsSeen(@, written.History),
                       !.moved = written.moved]
=============================================================================
