------------------------------ MODULE MCServer ------------------------------
(* Small instances of Server: two roles in place of four, games of one or   *)
(* two weeks, and where that matters one player more than there are seats. *)
EXTENDS Answers, TLC

CONSTANTS badRole, f, r, p1, p2, p3, n1, n2, noName, s1, s2, w1, w2

TwoRoles == <<f, r>>
ThreeOrders == {-1, 1, 2}   \* -1 is refused

(* The room as two joins and one choice of role, each answered before the  *)
(* next is made, leave it.                                                 *)
FullRoom ==
  AssignRole(AddPlayer(AddPlayer(NewRoom, p1, n1), p2, n2), p2, f)

FullInit ==
  /\ room = FullRoom
  /\ sessions = [sid \in SessionIds |-> NoSession]
  /\ roomSession = NoId
  /\ decisions = [week \in 1..MaxWeeks |-> NoDecisions]
  /\ unannounced = "nothing" /\ kind \in StoreKinds
  /\ local = [w \in Workers |-> NoLocal]
  /\ issued = {p1, p2}

FullSpec == FullInit /\ [][Next]_vars
=============================================================================
