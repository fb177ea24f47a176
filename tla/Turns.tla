-------------------------------- MODULE Turns --------------------------------
(***************************************************************************)
(* What the game service promises the players of one room, as if every     *)
(* request were answered in one indivisible step: an order, once taken,    *)
(* stands until its week is played or the same role replaces it, and a     *)
(* week is played with exactly the standing orders, all of them.           *)
(***************************************************************************)
EXTENDS Naturals, Sequences

CONSTANTS Roles, MaxWeeks, Quantities

VARIABLES phase,      \* "waiting", "active" or "finished"
          played,     \* the orders of the weeks played
          standing    \* the orders taken for the current week, by role

vars == <<phase, played, standing>>

NoOrders == [r \in {} |-> 0]

Init == phase = "waiting" /\ played = <<>> /\ standing = NoOrders

Start == /\ phase = "waiting"
         /\ phase' = "active"
         /\ UNCHANGED <<played, standing>>

TakeOrder(r, q) ==
  /\ phase = "active"
  /\ standing' = [s \in DOMAIN standing \cup {r} |-> IF s = r THEN q ELSE standing[s]]
  /\ UNCHANGED <<phase, played>>

PlayWeek ==
  /\ phase = "active"
  /\ DOMAIN standing = Roles
  /\ played' = Append(played, standing)
  /\ standing' = NoOrders
  /\ phase' = IF Len(played) + 1 = MaxWeeks THEN "finished" ELSE "active"

Next == Start \/ PlayWeek \/ \E r \in Roles, q \in Quantities : TakeOrder(r, q)

Spec == Init /\ [][Next]_vars
=============================================================================
