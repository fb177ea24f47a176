----------------------------- MODULE GameSession -----------------------------
(***************************************************************************)
(* A game session, internal/domain/game_session.go: the state kept by      *)
(* GameSession, NewGameSession as Init and AdvanceWeek as the one action.  *)
(* A call of AdvanceWeek that returns an error changes nothing, so the     *)
(* errors are the action's guards.  Nodes is a function of the role where  *)
(* the code keeps a slice in AllRoles order; node identifiers and          *)
(* timestamps are left out.  Quantities are mathematical integers here;    *)
(* QuantitiesBounded says how far they are from the code's 64 bits.        *)
(***************************************************************************)
EXTENDS Scenario, FiniteSetsExt

CONSTANTS BaseScenario,   \* the scenario the game is started with
          MaxWeeks,       \* the number of weeks to play
          OrderChoices    \* the orders a caller may pass, legal or not

ASSUME ScenarioAssumption == /\ BaseScenario \in ScenarioRecord
                             /\ Validate(BaseScenario) = "nil"
ASSUME MaxWeeksAssumption == MaxWeeks \in Nat \ {0}
ASSUME OrderAssumption == OrderChoices \subseteq Int

VARIABLES status, currentWeek, demand, nodes,
          goodsPipelines, orderPipelines, productionQueue, history

vars == <<status, currentWeek, demand, nodes,
          goodsPipelines, orderPipelines, productionQueue, history>>

-----------------------------------------------------------------------------
(* shiftPipeline and shiftSlice: what leaves a queue and what stays in it. *)
shifted(queue) == IF Len(queue) = 0 THEN 0 ELSE Head(queue)
M_restKeepsHead(queue) == queue
rest(queue) == IF Len(queue) = 0 THEN queue ELSE Tail(queue)

minInt(a, b) == IF a < b THEN a ELSE b
maxInt(a, b) == IF a > b THEN a ELSE b

GoodsReceivers == {"distributor", "wholesaler", "retailer"}
OrderReceivers == {"factory", "distributor", "wholesaler"}

incomingGoods ==
  [r \in Roles |-> IF r \in GoodsReceivers THEN shifted(goodsPipelines[r])
                                           ELSE shifted(productionQueue)]
incomingOrders ==
  [r \in Roles |-> IF r \in OrderReceivers
                     THEN shifted(orderPipelines[r])
                     ELSE DemandForWeek(demand, currentWeek + 1)]

M_shipEverythingRequired(available, required) == required
shipmentOf(available, required) == minInt(available, required)

M_forgetBacklog(incomingOrder, prev) == incomingOrder
M_backlogTwice(incomingOrder, prev) == incomingOrder + 2 * prev.Backlog
requiredOf(incomingOrder, prev) == incomingOrder + prev.Backlog

(* One iteration of AdvanceWeek's loop over the roles. *)
nextNode(role, order) ==
  LET prev      == nodes[role]
      available == prev.Inventory + incomingGoods[role]
      required  == requiredOf(incomingOrders[role], prev)
      shipment  == shipmentOf(available, required)
      backlog   == maxInt(required - shipment, 0)
      inventory == available - shipment
  IN  [Inventory      |-> inventory,
       Backlog        |-> backlog,
       IncomingOrder  |-> incomingOrders[role],
       IncomingGoods  |-> incomingGoods[role],
       PlacedOrder    |-> order,
       ActualShipment |-> shipment,
       WeeklyCost     |-> inventory * BaseScenario.HoldingCost
                          + backlog * BaseScenario.BacklogCost]

weekState(nextNodes) ==
  [Week      |-> currentWeek + 1,
   Nodes     |-> nextNodes,
   TotalCost |-> nextNodes["factory"].WeeklyCost
                 + nextNodes["distributor"].WeeklyCost
                 + nextNodes["wholesaler"].WeeklyCost
                 + nextNodes["retailer"].WeeklyCost]

(* Whose order enters the order pipeline of a role, and whose shipment     *)
(* enters its goods pipeline.                                              *)
OrdersFrom == [factory |-> "distributor", distributor |-> "wholesaler",
               wholesaler |-> "retailer"]
GoodsFrom == [distributor |-> "factory", wholesaler |-> "distributor",
              retailer |-> "wholesaler"]

M_swapOrders(decisions) ==
  [r \in OrderReceivers |-> Append(rest(orderPipelines[r]), decisions[r])]
nextOrderPipelines(decisions) ==
  [r \in OrderReceivers |->
     Append(rest(orderPipelines[r]), decisions[OrdersFrom[r]])]

M_shipOwn(nextNodes) ==
  [r \in GoodsReceivers |->
     Append(rest(goodsPipelines[r]), nextNodes[r].ActualShipment)]
nextGoodsPipelines(nextNodes) ==
  [r \in GoodsReceivers |->
     Append(rest(goodsPipelines[r]), nextNodes[GoodsFrom[r]].ActualShipment)]

-----------------------------------------------------------------------------
(* NewGameSession. *)
initialNode == [Inventory |-> BaseScenario.InitialInventory,
                Backlog |-> BaseScenario.InitialBacklog,
                IncomingOrder |-> 0, IncomingGoods |-> 0, PlacedOrder |-> 0,
                ActualShipment |-> 0, WeeklyCost |-> 0]

Init ==
  /\ status = "active"
  /\ currentWeek = 0
  /\ demand \in MaterializeDemand(BaseScenario, MaxWeeks)
  /\ nodes = [r \in Roles |-> initialNode]
  /\ goodsPipelines = [r \in GoodsReceivers |-> BaseScenario.InitialPipelineGoods]
  /\ orderPipelines = [r \in OrderReceivers |-> BaseScenario.InitialPipelineOrders]
  /\ productionQueue = BaseScenario.InitialPipelineGoods
  /\ history = <<>>

(* The maps a caller may pass: an order for some of the roles. *)
Decisions == UNION {[S -> OrderChoices] : S \in SUBSET Roles}

complete(decisions) == /\ DOMAIN decisions = Roles
                       /\ \A r \in Roles : decisions[r] >= 0

M_finishLate(week) == IF week > MaxWeeks THEN "finished" ELSE status
statusAfter(week) == IF week >= MaxWeeks THEN "finished" ELSE status

AdvanceWeek(decisions) ==
  /\ status = "active"
  /\ currentWeek < MaxWeeks
  /\ complete(decisions)
  /\ LET nextNodes == [r \in Roles |-> nextNode(r, decisions[r])]
     IN  /\ orderPipelines' = nextOrderPipelines(decisions)
         /\ productionQueue' = Append(rest(productionQueue), decisions["factory"])
         /\ goodsPipelines' = nextGoodsPipelines(nextNodes)
         /\ nodes' = nextNodes
         /\ history' = Append(history, weekState(nextNodes))
  /\ currentWeek' = currentWeek + 1
  /\ status' = statusAfter(currentWeek + 1)
  /\ UNCHANGED demand

Next == \E decisions \in Decisions : AdvanceWeek(decisions)

Spec == Init /\ [][Next]_vars

-----------------------------------------------------------------------------
NodeState == [Inventory : Nat, Backlog : Nat, IncomingOrder : Nat,
              IncomingGoods : Nat, PlacedOrder : Nat, ActualShipment : Nat,
              WeeklyCost : Nat]
WeekState == [Week : 1..MaxWeeks, Nodes : [Roles -> NodeState], TotalCost : Nat]

(* Every quantity of a session is a natural number: in particular no node  *)
(* ever holds, owes or ships a negative amount, though AdvanceWeek         *)
(* subtracts (game_session.go, the loop over AllRoles).                    *)
TypeOK ==
  /\ status \in {"active", "finished"}
  /\ currentWeek \in 0..MaxWeeks
  /\ demand \in [1..MaxWeeks -> Nat]
  /\ nodes \in [Roles -> NodeState]
  /\ goodsPipelines \in [GoodsReceivers -> Seq(Nat)]
  /\ orderPipelines \in [OrderReceivers -> Seq(Nat)]
  /\ productionQueue \in Seq(Nat)
  /\ history \in Seq(WeekState)

(* The clock of a session: as many weeks are recorded as were played, they *)
(* are numbered without gaps, the nodes shown to the players are those of  *)
(* the last recorded week, and the session is finished exactly when the    *)
(* last week has been played, so the ErrWeekLimitReached return of         *)
(* AdvanceWeek can never be taken.                                         *)
ClockConsistent ==
  /\ Len(history) = currentWeek
  /\ \A w \in 1..currentWeek : history[w].Week = w
  /\ nodes = IF currentWeek = 0 THEN [r \in Roles |-> initialNode]
                                ELSE history[currentWeek].Nodes
  /\ status = IF currentWeek < MaxWeeks THEN "active" ELSE "finished"

Game == INSTANCE BeerGame

(* Slot i of every queue holds exactly what is due i weeks from now: what  *)
(* its sender put in one full delay before that week, or the initial       *)
(* pipeline (shiftPipeline / appendPipeline of AdvanceWeek).  In           *)
(* particular no queue ever grows, shrinks or runs empty.                  *)
DelayLines ==
  /\ \A r \in GoodsReceivers :
       /\ Len(goodsPipelines[r]) = BaseScenario.ShippingDelay
       /\ \A i \in 1..BaseScenario.ShippingDelay :
            goodsPipelines[r][i] = Game!GoodsDue(r, currentWeek + i)
  /\ \A r \in OrderReceivers :
       /\ Len(orderPipelines[r]) = BaseScenario.OrderDelay
       /\ \A i \in 1..BaseScenario.OrderDelay :
            orderPipelines[r][i] = Game!OrdersDue(r, currentWeek + i)
  /\ Len(productionQueue) = BaseScenario.ProductionDelay
  /\ \A i \in 1..BaseScenario.ProductionDelay :
       productionQueue[i] = Game!GoodsDue("factory", currentWeek + i)

Total(queue) == MapThenSumSet(LAMBDA i : queue[i], DOMAIN queue)
Stocked == Total([r \in Roles |-> nodes[r].Inventory])
InTransit == Total([r \in GoodsReceivers |-> Total(goodsPipelines[r])])
             + Total(productionQueue)
InitiallyStocked == 4 * (BaseScenario.InitialInventory
                         + Total(BaseScenario.InitialPipelineGoods))
OverHistory(role, field) == Total([w \in DOMAIN history |-> history[w].Nodes[role][field]])

(* No unit is created or lost anywhere in the chain: what the factory ever *)
(* ordered from production, plus the initial stock, is in stock, in        *)
(* transit or was shipped to the consumer (AdvanceWeek, whole body).       *)
GoodsConserved ==
  InitiallyStocked + OverHistory("factory", "PlacedOrder")
    = Stocked + InTransit + OverHistory("retailer", "ActualShipment")

(* Every unit anyone ordered is accounted for at its supplier: the orders  *)
(* placed with a role, plus those initially under way, are either still in *)
(* its order pipeline, shipped, or in its backlog.                         *)
OrdersAccounted ==
  \A r \in OrderReceivers :
    BaseScenario.InitialBacklog + Total(BaseScenario.InitialPipelineOrders)
      + OverHistory(OrdersFrom[r], "PlacedOrder")
    = Total(orderPipelines[r]) + nodes[r].Backlog + OverHistory(r, "ActualShipment")

(* How large the numbers of a session can become, for the code computes    *)
(* them with 64-bit integers and bounds orders only from below: if no      *)
(* order, no demand and no number the scenario starts with exceeds d, then *)
(* what is owed or under way grows at most linearly with the weeks, stock  *)
(* and cost at most quadratically (game_session.go, the loop over          *)
(* AllRoles).                                                              *)
AtMost(d) ==
  /\ \A order \in OrderChoices : order <= d
  /\ BaseScenario.InitialInventory <= d /\ BaseScenario.InitialBacklog <= d
  /\ \A i \in 1..Len(BaseScenario.InitialPipelineGoods) :
       BaseScenario.InitialPipelineGoods[i] <= d
  /\ \A i \in 1..Len(BaseScenario.InitialPipelineOrders) :
       BaseScenario.InitialPipelineOrders[i] <= d
  /\ \A w \in 1..MaxWeeks : demand[w] <= d

NodeBounded(node, d, week) ==
  /\ node.Backlog <= (week + 1) * d
  /\ node.Inventory <= (week + 1) * ((week + 1) * d)
  /\ node.WeeklyCost <= ((week + 1) * ((week + 1) * d))
                           * (BaseScenario.HoldingCost + BaseScenario.BacklogCost)

SlotsBounded(queue, bound) == \A i \in 1..Len(queue) : queue[i] <= bound

Bounded(d) ==
  /\ \A r \in Roles : NodeBounded(nodes[r], d, currentWeek)
  /\ \A r \in GoodsReceivers : SlotsBounded(goodsPipelines[r], (currentWeek + 1) * d)
  /\ \A r \in OrderReceivers : SlotsBounded(orderPipelines[r], d)
  /\ SlotsBounded(productionQueue, d)

QuantitiesBounded == \A d \in OrderChoices \cap Nat : AtMost(d) => Bounded(d)

(* The session implements the rules of the beer game.                      *)
ImplementsBeerGame == Game!Spec
=============================================================================
