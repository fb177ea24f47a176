---------------------------- MODULE PlacedOrders ----------------------------
(***************************************************************************)
(* The server with a memory of the orders its players placed, which no     *)
(* store keeps once a week is played.                                      *)
(***************************************************************************)
EXTENDS Server

VARIABLE placed           \* <<week, role, order>> ever saved by SubmitOrder

(* The orders the step from this state to the next one saves. *)
NewlyPlaced ==
  {<<local[w].week, local[w].role, local[w].order>> :
     w \in {v \in Workers : local[v].at = "saveDecisions" /\ local'[v].at = "publish"}}

PlacedSpec ==
  /\ Init /\ placed = {}
  /\ [][Next /\ placed' = placed \cup NewlyPlaced]_<<vars, placed>>

-----------------------------------------------------------------------------
(* Whatever requests overlap or are repeated, every week in the history of *)
(* a session was played with an order from every role, each one submitted  *)
(* for that very week: stale copies of a session or of its decisions never *)
(* mix weeks.  The clock agrees with the history and the session is        *)
(* finished exactly after its last week (game_service.go SubmitOrder,      *)
(* AdvanceWeek).  This does not say that a week is played once: an         *)
(* AdvanceWeek that saves the session it read before others did takes the  *)
(* session back, and the weeks it forgets are played again.                *)
OnlyPlacedOrdersPlayed ==
  \A sid \in SessionIds : sessions[sid] # NoSession =>
    /\ Len(sessions[sid].History) = sessions[sid].CurrentWeek
    /\ sessions[sid].Status = "finished" <=> sessions[sid].CurrentWeek = MaxWeeks
    /\ \A week \in DOMAIN sessions[sid].History, r \in Roles :
         <<week, r, sessions[sid].History[week][r]>> \in placed
=============================================================================
