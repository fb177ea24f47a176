------------------------------ MODULE BeerGame ------------------------------
(***************************************************************************)
(* What a game session promises, with no queue in it: the rules of the     *)
(* beer game as a player would state them.  A game is its list of played   *)
(* weeks.  What reaches a node in a week is looked up in the week it was   *)
(* sent, and a node's stock is one signed number: positive on the shelf,   *)
(* negative owed.  GameSession (the code's queues and counters) is shown   *)
(* to implement this module.                                               *)
(***************************************************************************)
EXTENDS Scenario

CONSTANTS BaseScenario,   \* the scenario the game is started with
          MaxWeeks,       \* the number of weeks to play
          OrderChoices    \* the orders a player may try to place

VARIABLES demand,         \* consumer demand, one entry per week
          history         \* the weeks played so far

vars == <<demand, history>>

-----------------------------------------------------------------------------
(* Goods flow from factory to retailer, orders the other way. *)
Supplier == [distributor |-> "factory", wholesaler |-> "distributor",
             retailer |-> "wholesaler"]
Customer == [factory |-> "distributor", distributor |-> "wholesaler",
             wholesaler |-> "retailer"]

(* The goods that reach role r in week w: production ordered, or goods     *)
(* shipped by the supplier, one delay earlier; before that, the initial    *)
(* pipeline.                                                               *)
GoodsDue(r, w) ==
  LET delay == IF r = "factory" THEN BaseScenario.ProductionDelay
                                ELSE BaseScenario.ShippingDelay
  IN  IF w <= delay THEN BaseScenario.InitialPipelineGoods[w]
      ELSE IF r = "factory" THEN history[w - delay].Nodes[r].PlacedOrder
      ELSE history[w - delay].Nodes[Supplier[r]].ActualShipment

(* The orders that reach role r in week w. *)
OrdersDue(r, w) ==
  IF r = "retailer" THEN demand[w]
  ELSE IF w <= BaseScenario.OrderDelay
    THEN BaseScenario.InitialPipelineOrders[w]
  ELSE history[w - BaseScenario.OrderDelay].Nodes[Customer[r]].PlacedOrder

(* What role r has on the shelf and what it owes after week w. *)
OnShelf(r, w) == IF w = 0 THEN BaseScenario.InitialInventory
                          ELSE history[w].Nodes[r].Inventory
Owed(r, w) == IF w = 0 THEN BaseScenario.InitialBacklog
                       ELSE history[w].Nodes[r].Backlog

(* The signed stock of role r at the end of week w. *)
NetStock(r, w) ==
  OnShelf(r, w - 1) - Owed(r, w - 1) + GoodsDue(r, w) - OrdersDue(r, w)

NodeInWeek(r, w, order) ==
  LET net       == NetStock(r, w)
      inventory == IF net > 0 THEN net ELSE 0
      backlog   == IF net > 0 THEN 0 ELSE 0 - net
  IN  [Inventory      |-> inventory,
       Backlog        |-> backlog,
       IncomingOrder  |-> OrdersDue(r, w),
       IncomingGoods  |-> GoodsDue(r, w),
       PlacedOrder    |-> order,
       ActualShipment |-> OnShelf(r, w - 1) + GoodsDue(r, w) - inventory,
       WeeklyCost     |-> IF net > 0
                            THEN net * BaseScenario.HoldingCost
                            ELSE (0 - net) * BaseScenario.BacklogCost]

WeekRecord(w, orders) ==
  LET nodes == [r \in Roles |-> NodeInWeek(r, w, orders[r])]
  IN  [Week      |-> w,
       Nodes     |-> nodes,
       TotalCost |-> nodes["factory"].WeeklyCost
                     + nodes["distributor"].WeeklyCost
                     + nodes["wholesaler"].WeeklyCost
                     + nodes["retailer"].WeeklyCost]

-----------------------------------------------------------------------------
Init == /\ demand \in MaterializeDemand(BaseScenario, MaxWeeks)
        /\ history = <<>>

(* All four roles order at once and one more week is played. *)
PlayWeek(orders) ==
  /\ Len(history) < MaxWeeks
  /\ history' = Append(history, WeekRecord(Len(history) + 1, orders))
  /\ UNCHANGED demand

Next == \E orders \in [Roles -> OrderChoices \cap Nat] : PlayWeek(orders)

Spec == Init /\ [][Next]_vars
=============================================================================
