-------------------------- MODULE GameSessionProofs --------------------------
(***************************************************************************)
(* Proofs about game sessions, for every valid scenario, every number of   *)
(* weeks and every set of orders.                                          *)
(***************************************************************************)
EXTENDS GameSession, TLAPS

(* What Scenario.Validate guarantees of the numbers AdvanceWeek uses. *)
LEMMA ScenarioFacts ==
  /\ BaseScenario.InitialInventory \in Nat
  /\ BaseScenario.InitialBacklog \in Nat
  /\ BaseScenario.HoldingCost \in Nat
  /\ BaseScenario.BacklogCost \in Nat
  /\ BaseScenario.ShippingDelay \in Nat \ {0}
  /\ BaseScenario.OrderDelay \in Nat \ {0}
  /\ BaseScenario.ProductionDelay \in Nat \ {0}
  /\ BaseScenario.InitialPipelineGoods \in Seq(Nat)
  /\ BaseScenario.InitialPipelineOrders \in Seq(Nat)
  /\ Len(BaseScenario.InitialPipelineGoods) = BaseScenario.ShippingDelay
  /\ Len(BaseScenario.InitialPipelineOrders) = BaseScenario.OrderDelay
  /\ Len(BaseScenario.InitialPipelineGoods) = BaseScenario.ProductionDelay
  /\ ValidateDemand(BaseScenario) = "nil"
<1> DEFINE s == BaseScenario
<1>1. s \in ScenarioRecord /\ Validate(s) = "nil"
  BY ScenarioAssumption
<1>2. /\ s.InitialInventory \in Int /\ s.InitialBacklog \in Int
      /\ s.HoldingCost \in Int /\ s.BacklogCost \in Int
      /\ s.ShippingDelay \in Int /\ s.OrderDelay \in Int
      /\ s.ProductionDelay \in Int
      /\ s.InitialPipelineGoods \in Seq(Int)
      /\ s.InitialPipelineOrders \in Seq(Int)
  BY <1>1 DEF ScenarioRecord
<1>3. /\ ~(s.InitialInventory < 0 \/ s.InitialBacklog < 0
           \/ s.HoldingCost < 0 \/ s.BacklogCost < 0)
      /\ ~(s.ShippingDelay <= 0 \/ s.OrderDelay <= 0 \/ s.ProductionDelay <= 0)
      /\ ~hasNegative(s.InitialPipelineGoods)
      /\ ~hasNegative(s.InitialPipelineOrders)
      /\ ValidateDemand(s) = "nil"
      /\ Len(s.InitialPipelineGoods) = s.ShippingDelay
      /\ Len(s.InitialPipelineOrders) = s.OrderDelay
      /\ Len(s.InitialPipelineGoods) = s.ProductionDelay
  BY <1>1, SMT DEF Validate
<1>4. ASSUME NEW q \in Seq(Int), ~hasNegative(q)  PROVE q \in Seq(Nat)
  <2>1. \A i \in 1..Len(q) : q[i] \in Nat
    BY <1>4, SMT DEF hasNegative
  <2> QED  BY <2>1, SMT
<1>5. /\ s.InitialPipelineGoods \in Seq(Nat)
      /\ s.InitialPipelineOrders \in Seq(Nat)
  BY <1>2, <1>3, <1>4
<1> QED  BY <1>2, <1>3, <1>5, SMT

(* Whole blocks are counted monotonically. *)
LEMMA DivMonotone ==
  ASSUME NEW a \in Nat, NEW b \in Nat, NEW p \in Nat \ {0}, a <= b
  PROVE  a \div p \in 0..(b \div p)
  BY Z3

(* MaterializeDemand yields one natural number per week of the game. *)
LEMMA DemandFacts ==
  ASSUME NEW d \in MaterializeDemand(BaseScenario, MaxWeeks)
  PROVE  d \in [1..MaxWeeks -> Nat]
<1> DEFINE s == BaseScenario
<1>1. /\ s.ConsumerDemand \in Seq(Int) /\ s.DemandMin \in Int
      /\ s.DemandMax \in Int /\ s.DemandChangePeriod \in Int
  BY ScenarioAssumption DEF ScenarioRecord
<1>2. CASE normalizedDemandMode(s) = "fixed"
  <2>1. Len(s.ConsumerDemand) # 0 /\ ~hasNegative(s.ConsumerDemand)
    BY <1>2, ScenarioFacts, SMT DEF ValidateDemand
  <2>2. \A i \in 1..Len(s.ConsumerDemand) : s.ConsumerDemand[i] \in Nat
    BY <1>1, <2>1, SMT DEF hasNegative
  <2>3. d = extendDemand(s.ConsumerDemand, MaxWeeks)
    BY <1>2 DEF MaterializeDemand
  <2> QED  BY <1>1, <2>1, <2>2, <2>3, MaxWeeksAssumption, SMT DEF extendDemand
<1>3. CASE normalizedDemandMode(s) # "fixed"
  <2>1. s.DemandMin \in Nat /\ s.DemandChangePeriod \in Nat \ {0}
    BY <1>1, <1>3, ScenarioFacts, SMT DEF ValidateDemand
  <2>2. PICK value \in [0..((MaxWeeks - 1) \div s.DemandChangePeriod)
                          -> s.DemandMin..s.DemandMax] :
          d = [i \in 1..MaxWeeks |-> value[(i - 1) \div s.DemandChangePeriod]]
    BY <1>3 DEF MaterializeDemand, RandomBlockDemands
  <2>3. ASSUME NEW i \in 1..MaxWeeks
        PROVE  (i - 1) \div s.DemandChangePeriod
                 \in 0..((MaxWeeks - 1) \div s.DemandChangePeriod)
    BY <2>1, MaxWeeksAssumption, DivMonotone, SMT
  <2> QED  BY <1>1, <2>1, <2>2, <2>3, SMT
<1> QED  BY <1>2, <1>3

-----------------------------------------------------------------------------
Inv == TypeOK /\ ClockConsistent /\ DelayLines

(* A new session satisfies the inductive invariant (NewGameSession). *)
LEMMA InitInv == Init => Inv
<1> SUFFICES ASSUME Init PROVE Inv
  OBVIOUS
<1> USE ScenarioFacts, MaxWeeksAssumption
<1>1. TypeOK
  <2>1. demand \in [1..MaxWeeks -> Nat]
    BY DemandFacts DEF Init
  <2>2. initialNode \in NodeState
    BY DEF initialNode, NodeState
  <2> QED  BY <2>1, <2>2 DEF Init, TypeOK
<1>2. ClockConsistent
  BY DEF Init, ClockConsistent
<1>3. DelayLines
  BY SMT DEF Init, DelayLines, Game!GoodsDue, Game!OrdersDue, GoodsReceivers, OrderReceivers
<1> QED  BY <1>1, <1>2, <1>3 DEF Inv

-----------------------------------------------------------------------------
(* The first slot of a queue holds what is due next week, and is a number. *)
LEMMA IncomingFacts ==
  ASSUME Inv, currentWeek < MaxWeeks, NEW r \in Roles
  PROVE  /\ incomingGoods[r] = Game!GoodsDue(r, currentWeek + 1)
         /\ incomingOrders[r] = Game!OrdersDue(r, currentWeek + 1)
         /\ incomingGoods[r] \in Nat
         /\ incomingOrders[r] \in Nat
<1> USE ScenarioFacts, MaxWeeksAssumption
<1>0. TypeOK /\ DelayLines /\ currentWeek \in Nat
  BY DEF Inv, TypeOK
<1>1. ASSUME NEW q \in Seq(Nat), Len(q) # 0
      PROVE  shifted(q) = q[1] /\ q[1] \in Nat
  BY <1>1, SMT DEF shifted
<1>2. incomingGoods[r] = Game!GoodsDue(r, currentWeek + 1) /\ incomingGoods[r] \in Nat
  <2>1. CASE r \in GoodsReceivers
    <3>1. goodsPipelines[r] \in Seq(Nat) /\ Len(goodsPipelines[r]) = BaseScenario.ShippingDelay
      BY <1>0, <2>1 DEF TypeOK, DelayLines
    <3>2. goodsPipelines[r][1] = Game!GoodsDue(r, currentWeek + 1)
      <4>1. 1 \in 1..BaseScenario.ShippingDelay
        BY SMT
      <4> QED  BY <1>0, <2>1, <4>1 DEF DelayLines
    <3> QED  BY <1>1, <2>1, <3>1, <3>2 DEF incomingGoods
  <2>2. CASE r \notin GoodsReceivers
    <3>1. r = "factory"
      BY <2>2 DEF Roles, GoodsReceivers
    <3>2. productionQueue \in Seq(Nat) /\ Len(productionQueue) = BaseScenario.ProductionDelay
      BY <1>0 DEF TypeOK, DelayLines
    <3>3. productionQueue[1] = Game!GoodsDue("factory", currentWeek + 1)
      BY <1>0 DEF DelayLines
    <3> QED  BY <1>1, <2>2, <3>1, <3>2, <3>3 DEF incomingGoods
  <2> QED  BY <2>1, <2>2
<1>3. incomingOrders[r] = Game!OrdersDue(r, currentWeek + 1) /\ incomingOrders[r] \in Nat
  <2>1. CASE r \in OrderReceivers
    <3>1. orderPipelines[r] \in Seq(Nat) /\ Len(orderPipelines[r]) = BaseScenario.OrderDelay
      BY <1>0, <2>1 DEF TypeOK, DelayLines
    <3>2. orderPipelines[r][1] = Game!OrdersDue(r, currentWeek + 1)
      <4>1. 1 \in 1..BaseScenario.OrderDelay
        BY SMT
      <4> QED  BY <1>0, <2>1, <4>1 DEF DelayLines
    <3> QED  BY <1>1, <2>1, <3>1, <3>2 DEF incomingOrders
  <2>2. CASE r \notin OrderReceivers
    <3>1. r = "retailer"
      BY <2>2 DEF Roles, OrderReceivers
    <3>2. currentWeek + 1 \in 1..MaxWeeks /\ demand \in [1..MaxWeeks -> Nat]
      BY <1>0 DEF TypeOK
    <3>3. Len(demand) = MaxWeeks
      BY <3>2, SMT
    <3>4. DemandForWeek(demand, currentWeek + 1) = demand[currentWeek + 1]
      BY <1>0, <3>2, <3>3 DEF DemandForWeek
    <3> QED  BY <2>2, <3>1, <3>2, <3>4 DEF incomingOrders, Game!OrdersDue
  <2> QED  BY <2>1, <2>2
<1> QED  BY <1>2, <1>3

(* The code's bookkeeping of a node (available, required, minInt, maxInt)  *)
(* is one signed number: what is available less what is required.          *)
LEMMA StockArithmetic ==
  ASSUME NEW avail \in Nat, NEW req \in Nat
  PROVE  /\ minInt(avail, req) \in Nat
         /\ avail - minInt(avail, req) \in Nat
         /\ maxInt(req - minInt(avail, req), 0) \in Nat
         /\ avail - minInt(avail, req)
              = IF avail - req > 0 THEN avail - req ELSE 0
         /\ maxInt(req - minInt(avail, req), 0)
              = IF avail - req > 0 THEN 0 ELSE 0 - (avail - req)
         /\ minInt(avail, req)
              = avail - (IF avail - req > 0 THEN avail - req ELSE 0)
  BY SMT DEF minInt, maxInt

(* A node is charged for its stock or for its backlog, never for both. *)
LEMMA CostArithmetic ==
  ASSUME NEW net \in Int, NEW H \in Nat, NEW B \in Nat,
         NEW inventory \in Nat, NEW backlog \in Nat,
         inventory = IF net > 0 THEN net ELSE 0,
         backlog = IF net > 0 THEN 0 ELSE 0 - net
  PROVE  /\ inventory * H + backlog * B \in Nat
         /\ inventory * H + backlog * B
              = IF net > 0 THEN net * H ELSE (0 - net) * B
<1>1. \A x \in Nat, y \in Nat : x * y \in Nat
  BY SMT
<1>2. \A y \in Nat : 0 * y = 0
  BY SMT
<1>3. inventory * H \in Nat /\ backlog * B \in Nat
  BY <1>1
<1>4. CASE net > 0
  <2>1. inventory = net /\ backlog = 0 /\ backlog * B = 0
    BY <1>2, <1>4
  <2> QED  BY <1>3, <1>4, <2>1
<1>5. CASE ~(net > 0)
  <2>1. inventory = 0 /\ backlog = 0 - net /\ inventory * H = 0
    BY <1>2, <1>5
  <2> QED  BY <1>3, <1>5, <2>1
<1> QED  BY <1>4, <1>5

(* Hence the node AdvanceWeek computes is the one of the beer game. *)
LEMMA NodeFacts ==
  ASSUME Inv, currentWeek < MaxWeeks, NEW r \in Roles, NEW order \in Nat
  PROVE  /\ nextNode(r, order) \in NodeState
         /\ nextNode(r, order).PlacedOrder = order
         /\ nextNode(r, order) = Game!NodeInWeek(r, currentWeek + 1, order)
<1> DEFINE inv   == nodes[r].Inventory
           back  == nodes[r].Backlog
           goods == incomingGoods[r]
           ords  == incomingOrders[r]
           avail == inv + goods
           req   == ords + back
           ship  == minInt(avail, req)
           left  == avail - ship
           owed  == maxInt(req - ship, 0)
           net   == Game!NetStock(r, currentWeek + 1)
           H     == BaseScenario.HoldingCost
           B     == BaseScenario.BacklogCost
<1>1. goods \in Nat /\ ords \in Nat /\ inv \in Nat /\ back \in Nat
  BY IncomingFacts DEF Inv, TypeOK, NodeState
<1>2. currentWeek \in Nat
  BY MaxWeeksAssumption DEF Inv, TypeOK
<1>3. /\ Game!OnShelf(r, (currentWeek + 1) - 1) = inv
      /\ Game!Owed(r, (currentWeek + 1) - 1) = back
  <2>1. (currentWeek + 1) - 1 = currentWeek
    BY <1>2
  <2>2. CASE currentWeek = 0
    <3>1. nodes = [x \in Roles |-> initialNode]
      BY <2>2 DEF Inv, ClockConsistent
    <3> QED  BY <2>1, <2>2, <3>1 DEF initialNode, Game!OnShelf, Game!Owed
  <2>3. CASE currentWeek # 0
    <3>1. nodes = history[currentWeek].Nodes
      BY <2>3 DEF Inv, ClockConsistent
    <3> QED  BY <2>1, <2>3, <3>1 DEF Game!OnShelf, Game!Owed
  <2> QED  BY <2>2, <2>3
<1>4. net = inv - back + goods - ords
  <2>1. net = Game!OnShelf(r, (currentWeek + 1) - 1) - Game!Owed(r, (currentWeek + 1) - 1)
              + Game!GoodsDue(r, currentWeek + 1) - Game!OrdersDue(r, currentWeek + 1)
    BY DEF Game!NetStock
  <2> QED  BY <1>3, <2>1, IncomingFacts
<1> HIDE DEF inv, back, goods, ords, net
<1>5. avail \in Nat /\ req \in Nat /\ net \in Int /\ avail - req = net
  BY <1>1, <1>4
<1>6. /\ ship \in Nat /\ left \in Nat /\ owed \in Nat
      /\ left = IF net > 0 THEN net ELSE 0
      /\ owed = IF net > 0 THEN 0 ELSE 0 - net
      /\ ship = avail - (IF net > 0 THEN net ELSE 0)
  <2> HIDE DEF avail, req
  <2> QED  BY <1>5, StockArithmetic
<1>7. /\ left * H + owed * B \in Nat
      /\ left * H + owed * B = IF net > 0 THEN net * H ELSE (0 - net) * B
  <2>1. H \in Nat /\ B \in Nat
    BY ScenarioFacts
  <2> HIDE DEF left, owed, H, B
  <2> QED  BY <1>5, <1>6, <2>1, CostArithmetic
<1>8. nextNode(r, order) =
        [Inventory |-> left, Backlog |-> owed,
         IncomingOrder |-> ords, IncomingGoods |-> goods,
         PlacedOrder |-> order, ActualShipment |-> ship,
         WeeklyCost |-> left * H + owed * B]
  BY DEF nextNode, requiredOf, shipmentOf, inv, back, goods, ords
<1>9. Game!NodeInWeek(r, currentWeek + 1, order) =
        [Inventory |-> IF net > 0 THEN net ELSE 0,
         Backlog |-> IF net > 0 THEN 0 ELSE 0 - net,
         IncomingOrder |-> ords, IncomingGoods |-> goods,
         PlacedOrder |-> order,
         ActualShipment |-> avail - (IF net > 0 THEN net ELSE 0),
         WeeklyCost |-> IF net > 0 THEN net * H ELSE (0 - net) * B]
  <2>1. Game!OnShelf(r, (currentWeek + 1) - 1) + Game!GoodsDue(r, currentWeek + 1)
          - (IF net > 0 THEN net ELSE 0) = avail - (IF net > 0 THEN net ELSE 0)
    BY <1>1, <1>3, <1>5, IncomingFacts DEF goods
  <2> QED  BY <2>1, IncomingFacts DEF Game!NodeInWeek, net, goods, ords
<1> HIDE DEF left, owed, ship, H, B
<1>10. nextNode(r, order) \in NodeState /\ nextNode(r, order).PlacedOrder = order
  BY <1>1, <1>6, <1>7, <1>8 DEF NodeState
<1>11. nextNode(r, order) = Game!NodeInWeek(r, currentWeek + 1, order)
  BY <1>6, <1>7, <1>8, <1>9
<1> QED  BY <1>10, <1>11

-----------------------------------------------------------------------------
(* What a step of AdvanceWeek does, with its local definitions opened. *)
LEMMA StepFacts ==
  ASSUME Inv, NEW decisions \in Decisions, AdvanceWeek(decisions)
  PROVE  LET nextNodes == [r \in Roles |-> nextNode(r, decisions[r])]
         IN  /\ decisions \in [Roles -> OrderChoices \cap Nat]
             /\ status = "active" /\ currentWeek < MaxWeeks
             /\ currentWeek \in Nat /\ currentWeek' = currentWeek + 1
             /\ nodes' = nextNodes
             /\ nextNodes \in [Roles -> NodeState]
             /\ \A r \in Roles : nextNodes[r].PlacedOrder = decisions[r]
             /\ weekState(nextNodes) \in WeekState
             /\ weekState(nextNodes) = Game!WeekRecord(currentWeek + 1, decisions)
             /\ history' = Append(history, weekState(nextNodes))
             /\ history \in Seq(WeekState) /\ Len(history) = currentWeek
             /\ history' \in Seq(WeekState) /\ Len(history') = currentWeek + 1
             /\ history'[currentWeek + 1] = weekState(nextNodes)
             /\ \A w \in 1..currentWeek : history'[w] = history[w]
             /\ demand' = demand
<1> DEFINE nextNodes == [r \in Roles |-> nextNode(r, decisions[r])]
<1>1. /\ status = "active" /\ currentWeek < MaxWeeks
      /\ currentWeek' = currentWeek + 1 /\ demand' = demand
      /\ nodes' = nextNodes
      /\ history' = Append(history, weekState(nextNodes))
  BY DEF AdvanceWeek
<1>2. decisions \in [Roles -> OrderChoices \cap Nat]
  <2>1. DOMAIN decisions = Roles /\ \A r \in Roles : decisions[r] >= 0
    BY DEF AdvanceWeek, complete
  <2>2. decisions \in [Roles -> OrderChoices]
    BY <2>1 DEF Decisions
  <2>3. \A r \in Roles : decisions[r] \in OrderChoices \cap Nat
    <3> TAKE r \in Roles
    <3>1. decisions[r] \in OrderChoices /\ decisions[r] \in Int
      BY <2>2, OrderAssumption
    <3> QED  BY <2>1, <3>1, SMT
  <2> QED  BY <2>2, <2>3
<1>3. \A r \in Roles : /\ nextNode(r, decisions[r]) \in NodeState
                       /\ nextNode(r, decisions[r]).PlacedOrder = decisions[r]
                       /\ nextNode(r, decisions[r])
                            = Game!NodeInWeek(r, currentWeek + 1, decisions[r])
  BY <1>1, <1>2, NodeFacts
<1>4. /\ nextNodes \in [Roles -> NodeState]
      /\ \A r \in Roles : nextNodes[r].PlacedOrder = decisions[r]
  BY <1>3
<1>5. currentWeek \in Nat /\ currentWeek + 1 \in 1..MaxWeeks
      /\ history \in Seq(WeekState) /\ Len(history) = currentWeek
  BY <1>1, MaxWeeksAssumption DEF Inv, TypeOK, ClockConsistent
<1>6. weekState(nextNodes) \in WeekState
  <2>1. \A r \in Roles : nextNodes[r].WeeklyCost \in Nat
    BY <1>4 DEF NodeState
  <2> HIDE DEF nextNodes
  <2> DEFINE cost == nextNodes["factory"].WeeklyCost
                     + nextNodes["distributor"].WeeklyCost
                     + nextNodes["wholesaler"].WeeklyCost
                     + nextNodes["retailer"].WeeklyCost
  <2>2. cost \in Nat
    BY <2>1 DEF Roles
  <2>3. weekState(nextNodes) = [Week |-> currentWeek + 1, Nodes |-> nextNodes,
                                TotalCost |-> cost]
    BY DEF weekState
  <2> HIDE DEF cost
  <2> QED  BY <1>4, <1>5, <2>2, <2>3 DEF WeekState
<1>7. weekState(nextNodes) = Game!WeekRecord(currentWeek + 1, decisions)
  <2> DEFINE gameNodes ==
               [r \in Roles |-> Game!NodeInWeek(r, currentWeek + 1, decisions[r])]
  <2>1. nextNodes = gameNodes
    BY <1>3
  <2>0. Game!Roles = Roles
    BY DEF Game!Roles, Roles
  <2>2. Game!WeekRecord(currentWeek + 1, decisions)
          = [Week |-> currentWeek + 1, Nodes |-> gameNodes,
             TotalCost |-> gameNodes["factory"].WeeklyCost
                           + gameNodes["distributor"].WeeklyCost
                           + gameNodes["wholesaler"].WeeklyCost
                           + gameNodes["retailer"].WeeklyCost]
    BY <2>0 DEF Game!WeekRecord
  <2> HIDE DEF nextNodes, gameNodes
  <2> QED  BY <2>1, <2>2 DEF weekState
<1> HIDE DEF nextNodes
<1>8. /\ history' \in Seq(WeekState) /\ Len(history') = currentWeek + 1
      /\ history'[currentWeek + 1] = weekState(nextNodes)
      /\ \A w \in 1..currentWeek : history'[w] = history[w]
  BY <1>1, <1>5, <1>6
<1> QED  BY <1>1, <1>2, <1>4, <1>5, <1>6, <1>7, <1>8 DEF nextNodes

(* The links of the chain join roles, and are those of the beer game. *)
LEMMA LinkFacts ==
  /\ \A r \in GoodsReceivers : /\ r \in Roles /\ r # "factory"
                               /\ GoodsFrom[r] \in Roles
                               /\ Game!Supplier[r] = GoodsFrom[r]
  /\ \A r \in OrderReceivers : /\ r \in Roles /\ r # "retailer"
                               /\ OrdersFrom[r] \in Roles
                               /\ Game!Customer[r] = OrdersFrom[r]
  BY DEF GoodsReceivers, OrderReceivers, GoodsFrom, OrdersFrom, Roles,
         Game!Supplier, Game!Customer

(* AdvanceWeek keeps every quantity a natural number. *)
LEMMA StepTypeOK ==
  ASSUME Inv, NEW decisions \in Decisions, AdvanceWeek(decisions)
  PROVE  TypeOK'
<1> DEFINE nextNodes == [r \in Roles |-> nextNode(r, decisions[r])]
<1>0. TypeOK
  BY DEF Inv
<1>1. /\ nextNodes \in [Roles -> NodeState]
      /\ nodes' = nextNodes
      /\ history' \in Seq(WeekState) /\ demand' = demand
      /\ currentWeek' = currentWeek + 1 /\ currentWeek < MaxWeeks
      /\ decisions \in [Roles -> Nat]
  BY StepFacts
<1>2. \A r \in Roles : nextNodes[r].ActualShipment \in Nat
  BY <1>1 DEF NodeState
<1>3. /\ orderPipelines' = nextOrderPipelines(decisions)
      /\ productionQueue' = Append(rest(productionQueue), decisions["factory"])
      /\ goodsPipelines' = nextGoodsPipelines(nextNodes)
      /\ status' \in {"active", "finished"}
  BY <1>0 DEF AdvanceWeek, TypeOK, statusAfter
<1>4. ASSUME NEW q \in Seq(Nat), NEW x \in Nat
      PROVE  Append(rest(q), x) \in Seq(Nat)
  BY SMT DEF rest
<1> HIDE DEF nextNodes
<1>5. goodsPipelines' \in [GoodsReceivers -> Seq(Nat)]
  <2>1. ASSUME NEW r \in GoodsReceivers
        PROVE  Append(rest(goodsPipelines[r]), nextNodes[GoodsFrom[r]].ActualShipment)
                 \in Seq(Nat)
    BY <1>0, <1>2, <1>4, LinkFacts DEF TypeOK
  <2> QED  BY <1>3, <2>1 DEF nextGoodsPipelines
<1>6. orderPipelines' \in [OrderReceivers -> Seq(Nat)]
  <2>1. ASSUME NEW r \in OrderReceivers
        PROVE  Append(rest(orderPipelines[r]), decisions[OrdersFrom[r]]) \in Seq(Nat)
    BY <1>0, <1>1, <1>4, LinkFacts DEF TypeOK
  <2> QED  BY <1>3, <2>1 DEF nextOrderPipelines
<1>7. productionQueue' \in Seq(Nat)
  BY <1>0, <1>1, <1>3, <1>4 DEF TypeOK, Roles
<1>8. currentWeek' \in 0..MaxWeeks
  BY <1>0, <1>1, MaxWeeksAssumption DEF TypeOK
<1> QED  BY <1>0, <1>1, <1>3, <1>5, <1>6, <1>7, <1>8 DEF TypeOK

(* AdvanceWeek records the week it plays and finishes the last one. *)
LEMMA StepClockConsistent ==
  ASSUME Inv, NEW decisions \in Decisions, AdvanceWeek(decisions)
  PROVE  ClockConsistent'
<1> DEFINE nextNodes == [r \in Roles |-> nextNode(r, decisions[r])]
<1>1. /\ status = "active" /\ currentWeek < MaxWeeks
      /\ currentWeek \in Nat /\ currentWeek' = currentWeek + 1
      /\ nodes' = nextNodes
      /\ Len(history') = currentWeek + 1
      /\ history'[currentWeek + 1] = weekState(nextNodes)
      /\ \A w \in 1..currentWeek : history'[w] = history[w]
  BY StepFacts
<1> HIDE DEF nextNodes
<1>2. /\ weekState(nextNodes).Week = currentWeek + 1
      /\ weekState(nextNodes).Nodes = nextNodes
  BY DEF weekState
<1>3. \A w \in 1..currentWeek' : history'[w].Week = w
  BY <1>1, <1>2 DEF Inv, ClockConsistent
<1>4. status' = IF currentWeek' < MaxWeeks THEN "active" ELSE "finished"
  BY <1>1, MaxWeeksAssumption DEF AdvanceWeek, statusAfter
<1> QED  BY <1>1, <1>2, <1>3, <1>4 DEF ClockConsistent

(* Shifting a queue and appending to it moves every slot one week on. *)
LEMMA ShiftAppend ==
  ASSUME NEW q \in Seq(Nat), Len(q) # 0, NEW x \in Nat
  PROVE  /\ Len(Append(rest(q), x)) = Len(q)
         /\ Append(rest(q), x)[Len(q)] = x
         /\ \A i \in 1..(Len(q) - 1) : Append(rest(q), x)[i] = q[i + 1]
  BY SMT DEF rest

(* AdvanceWeek moves every queue one week on: what was due next week has   *)
(* left, and what was sent this week is due one full delay later.          *)
LEMMA StepDelayLines ==
  ASSUME Inv, NEW decisions \in Decisions, AdvanceWeek(decisions)
  PROVE  DelayLines'
<1> DEFINE nextNodes == [r \in Roles |-> nextNode(r, decisions[r])]
           S == BaseScenario.ShippingDelay
           O == BaseScenario.OrderDelay
           P == BaseScenario.ProductionDelay
<1>1. /\ nextNodes \in [Roles -> NodeState]
      /\ \A r \in Roles : nextNodes[r].PlacedOrder = decisions[r]
      /\ decisions \in [Roles -> Nat]
      /\ currentWeek \in Nat /\ currentWeek' = currentWeek + 1
      /\ history'[currentWeek + 1] = weekState(nextNodes)
      /\ \A w \in 1..currentWeek : history'[w] = history[w]
      /\ demand' = demand
  BY StepFacts
<1>2. /\ orderPipelines' = nextOrderPipelines(decisions)
      /\ productionQueue' = Append(rest(productionQueue), decisions["factory"])
      /\ goodsPipelines' = nextGoodsPipelines(nextNodes)
  BY DEF AdvanceWeek
<1> HIDE DEF nextNodes
<1>3. /\ \A r \in Roles : nextNodes[r].ActualShipment \in Nat
      /\ weekState(nextNodes).Nodes = nextNodes
  BY <1>1 DEF NodeState, weekState
<1>4. S \in Nat \ {0} /\ O \in Nat \ {0} /\ P \in Nat \ {0}
  BY ScenarioFacts
<1>5. TypeOK /\ DelayLines
  BY DEF Inv
<1>6. ASSUME NEW r \in GoodsReceivers
      PROVE  /\ Len(goodsPipelines'[r]) = S
             /\ \A i \in 1..S :
                  goodsPipelines'[r][i] = Game!GoodsDue(r, currentWeek + i)'
  <2> DEFINE q == goodsPipelines[r]
             x == nextNodes[GoodsFrom[r]].ActualShipment
  <2>1. q \in Seq(Nat) /\ Len(q) = S /\ x \in Nat
        /\ \A i \in 1..S : q[i] = Game!GoodsDue(r, currentWeek + i)
    BY <1>3, <1>5, LinkFacts DEF TypeOK, DelayLines
  <2>2. goodsPipelines'[r] = Append(rest(q), x)
    BY <1>2 DEF nextGoodsPipelines
  <2>3. r # "factory" /\ Game!Supplier[r] = GoodsFrom[r]
    BY LinkFacts
  <2>4. ASSUME NEW i \in 1..S
        PROVE  goodsPipelines'[r][i] = Game!GoodsDue(r, currentWeek + i)'
    <3>1. CASE i = S
      <4>1. Game!GoodsDue(r, currentWeek + i)' = history'[currentWeek + 1].Nodes[GoodsFrom[r]].ActualShipment
        BY <1>1, <1>4, <2>3, <3>1 DEF Game!GoodsDue
      <4>2. Game!GoodsDue(r, currentWeek + i)' = x
        BY <1>1, <1>3, <4>1
      <4> QED  BY <1>4, <2>1, <2>2, <3>1, <4>2, ShiftAppend
    <3>2. CASE i # S
      <4>1. i + 1 \in 1..S /\ i \in 1..(Len(q) - 1)
        BY <1>4, <2>1, <3>2
      <4>2. goodsPipelines'[r][i] = q[i + 1]
        BY <1>4, <2>1, <2>2, <4>1, ShiftAppend
      <4>3. q[i + 1] = Game!GoodsDue(r, currentWeek + (i + 1))
        BY <2>1, <4>1
      <4>4. Game!GoodsDue(r, currentWeek + (i + 1)) = Game!GoodsDue(r, currentWeek + i)'
        BY <1>1, <1>4, <2>3, <4>1 DEF Game!GoodsDue
      <4> QED  BY <4>2, <4>3, <4>4
    <3> QED  BY <3>1, <3>2
  <2>5. Len(goodsPipelines'[r]) = S
    BY <1>4, <2>1, <2>2, ShiftAppend
  <2> QED  BY <2>4, <2>5
<1>7. ASSUME NEW r \in OrderReceivers
      PROVE  /\ Len(orderPipelines'[r]) = O
             /\ \A i \in 1..O :
                  orderPipelines'[r][i] = Game!OrdersDue(r, currentWeek + i)'
  <2> DEFINE q == orderPipelines[r]
             x == decisions[OrdersFrom[r]]
  <2>1. q \in Seq(Nat) /\ Len(q) = O /\ x \in Nat
        /\ \A i \in 1..O : q[i] = Game!OrdersDue(r, currentWeek + i)
    BY <1>1, <1>5, LinkFacts DEF TypeOK, DelayLines
  <2>2. orderPipelines'[r] = Append(rest(q), x)
    BY <1>2 DEF nextOrderPipelines
  <2>3. r # "retailer" /\ Game!Customer[r] = OrdersFrom[r] /\ OrdersFrom[r] \in Roles
    BY LinkFacts
  <2>4. ASSUME NEW i \in 1..O
        PROVE  orderPipelines'[r][i] = Game!OrdersDue(r, currentWeek + i)'
    <3>1. CASE i = O
      <4>1. Game!OrdersDue(r, currentWeek + i)'
              = history'[currentWeek + 1].Nodes[OrdersFrom[r]].PlacedOrder
        BY <1>1, <1>4, <2>3, <3>1 DEF Game!OrdersDue
      <4>2. Game!OrdersDue(r, currentWeek + i)' = x
        BY <1>1, <1>3, <2>3, <4>1
      <4> QED  BY <1>4, <2>1, <2>2, <3>1, <4>2, ShiftAppend
    <3>2. CASE i # O
      <4>1. i + 1 \in 1..O /\ i \in 1..(Len(q) - 1)
        BY <1>4, <2>1, <3>2
      <4>2. orderPipelines'[r][i] = q[i + 1]
        BY <1>4, <2>1, <2>2, <4>1, ShiftAppend, SMTT(30)
      <4>3. q[i + 1] = Game!OrdersDue(r, currentWeek + (i + 1))
        BY <2>1, <4>1
      <4>4. Game!OrdersDue(r, currentWeek + (i + 1)) = Game!OrdersDue(r, currentWeek + i)'
        BY <1>1, <1>4, <2>3, <4>1 DEF Game!OrdersDue
      <4> QED  BY <4>2, <4>3, <4>4
    <3> QED  BY <3>1, <3>2
  <2>5. Len(orderPipelines'[r]) = O
    BY <1>4, <2>1, <2>2, ShiftAppend
  <2> QED  BY <2>4, <2>5
<1>8. /\ Len(productionQueue') = P
      /\ \A i \in 1..P :
           productionQueue'[i] = Game!GoodsDue("factory", currentWeek + i)'
  <2> DEFINE q == productionQueue
             x == decisions["factory"]
  <2>1. q \in Seq(Nat) /\ Len(q) = P /\ x \in Nat
        /\ \A i \in 1..P : q[i] = Game!GoodsDue("factory", currentWeek + i)
    BY <1>1, <1>5 DEF TypeOK, DelayLines, Roles
  <2>2. productionQueue' = Append(rest(q), x)
    BY <1>2
  <2>3. ASSUME NEW i \in 1..P
        PROVE  productionQueue'[i] = Game!GoodsDue("factory", currentWeek + i)'
    <3>1. CASE i = P
      <4>1. Game!GoodsDue("factory", currentWeek + i)'
              = history'[currentWeek + 1].Nodes["factory"].PlacedOrder
        BY <1>1, <1>4, <3>1 DEF Game!GoodsDue
      <4>2. Game!GoodsDue("factory", currentWeek + i)' = x
        BY <1>1, <1>3, <4>1 DEF Roles
      <4> QED  BY <1>4, <2>1, <2>2, <3>1, <4>2, ShiftAppend
    <3>2. CASE i # P
      <4>1. i + 1 \in 1..P /\ i \in 1..(Len(q) - 1)
        BY <1>4, <2>1, <3>2
      <4>2. productionQueue'[i] = q[i + 1]
        BY <1>4, <2>1, <2>2, <4>1, ShiftAppend
      <4>3. q[i + 1] = Game!GoodsDue("factory", currentWeek + (i + 1))
        BY <2>1, <4>1
      <4>4. Game!GoodsDue("factory", currentWeek + (i + 1))
              = Game!GoodsDue("factory", currentWeek + i)'
        BY <1>1, <1>4, <4>1 DEF Game!GoodsDue
      <4> QED  BY <4>2, <4>3, <4>4
    <3> QED  BY <3>1, <3>2
  <2>4. Len(productionQueue') = P
    BY <1>4, <2>1, <2>2, ShiftAppend
  <2> QED  BY <2>3, <2>4
<1> QED  BY <1>6, <1>7, <1>8 DEF DelayLines

-----------------------------------------------------------------------------
(* A step that leaves a session alone keeps the invariant. *)
LEMMA Stutter == Inv /\ UNCHANGED vars => Inv'
  BY DEF Inv, TypeOK, ClockConsistent, DelayLines, vars,
         Game!GoodsDue, Game!OrdersDue

(* The inductive invariant: TypeOK and ClockConsistent give the step its   *)
(* arguments, DelayLines says what the queues hold, for every scenario     *)
(* Validate accepts.                                                       *)
THEOREM InductiveInvariant == Spec => []Inv
<1>1. Init => Inv
  BY InitInv
<1>2. Inv /\ [Next]_vars => Inv'
  <2> SUFFICES ASSUME Inv, [Next]_vars PROVE Inv'
    OBVIOUS
  <2>1. ASSUME NEW decisions \in Decisions, AdvanceWeek(decisions) PROVE Inv'
    BY <2>1, StepTypeOK, StepClockConsistent, StepDelayLines DEF Inv
  <2>2. CASE UNCHANGED vars
    BY <2>2, Stutter
  <2> QED  BY <2>1, <2>2 DEF Next
<1> QED  BY <1>1, <1>2, PTL DEF Spec

(* Quantities never go negative: Spec => []TypeOK. *)
THEOREM TypeCorrect == Spec => []TypeOK
<1>1. Inv => TypeOK
  BY DEF Inv
<1> QED  BY <1>1, InductiveInvariant, PTL

(* A session is finished exactly when its last week has been played, and   *)
(* shows the nodes of the last week it recorded.                           *)
THEOREM ClockCorrect == Spec => []ClockConsistent
<1>1. Inv => ClockConsistent
  BY DEF Inv
<1> QED  BY <1>1, InductiveInvariant, PTL

(* Every queue is an exact delay line. *)
THEOREM DelayLinesCorrect == Spec => []DelayLines
<1>1. Inv => DelayLines
  BY DEF Inv
<1> QED  BY <1>1, InductiveInvariant, PTL

(* A session plays the beer game: the code's queues, shipments and         *)
(* backlogs are the abstract game's look-ups and signed stock, step by     *)
(* step.                                                                   *)
THEOREM SessionImplementsBeerGame == Spec => ImplementsBeerGame
<1>1. Init => Game!Init
  BY DEF Init, Game!Init, MaterializeDemand, Game!MaterializeDemand,
         normalizedDemandMode, Game!normalizedDemandMode, extendDemand,
         Game!extendDemand, RandomBlockDemands, Game!RandomBlockDemands
<1>2. Inv /\ [Next]_vars => [Game!Next]_(Game!vars)
  <2> SUFFICES ASSUME Inv, [Next]_vars PROVE [Game!Next]_(Game!vars)
    OBVIOUS
  <2>1. ASSUME NEW decisions \in Decisions, AdvanceWeek(decisions)
        PROVE  Game!Next
    <3> DEFINE nextNodes == [r \in Roles |-> nextNode(r, decisions[r])]
    <3>1. /\ decisions \in [Roles -> OrderChoices \cap Nat]
          /\ currentWeek < MaxWeeks /\ Len(history) = currentWeek
          /\ history' = Append(history, weekState(nextNodes))
          /\ weekState(nextNodes) = Game!WeekRecord(currentWeek + 1, decisions)
          /\ demand' = demand
      BY <2>1, StepFacts
    <3>2. Game!PlayWeek(decisions)
      BY <3>1 DEF Game!PlayWeek
    <3> QED  BY <3>1, <3>2 DEF Game!Next, Game!Roles, Roles
  <2>2. CASE UNCHANGED vars
    BY <2>2 DEF vars, Game!vars
  <2> QED  BY <2>1, <2>2 DEF Next
<1> QED  BY <1>1, <1>2, InductiveInvariant, PTL DEF Spec, ImplementsBeerGame, Game!Spec
-----------------------------------------------------------------------------
(* Multiplication of natural numbers, as the bounds need it. *)
LEMMA Distributes ==
  ASSUME NEW a \in Nat, NEW b \in Nat, NEW c \in Nat
  PROVE  /\ a * b \in Nat
         /\ (a + b) * c = a * c + b * c
         /\ c * (a + b) = c * a + c * b
         /\ 1 * a = a
  BY SMT

(* A product grows with either factor. *)
LEMMA ProductMonotone ==
  ASSUME NEW a \in Nat, NEW b \in Nat, NEW c \in Nat, a <= b
  PROVE  a * c <= b * c /\ c * a <= c * b
<1> DEFINE e == b - a
<1>1. e \in Nat /\ b = a + e
  OBVIOUS
<1> HIDE DEF e
<1>2. b * c = a * c + e * c /\ c * b = c * a + c * e
  BY <1>1, Distributes
<1>3. a * c \in Nat /\ e * c \in Nat /\ c * a \in Nat /\ c * e \in Nat
  BY <1>1, Distributes
<1> QED  BY <1>2, <1>3

(* One more week moves the bounds by at least what one week can bring. *)
LEMMA BoundsGrow ==
  ASSUME NEW k \in Nat, NEW d \in Nat
  PROVE  /\ (k + 1) * d \in Nat
         /\ (k + 1 + 1) * d = (k + 1) * d + d
         /\ (k + 1) * ((k + 1) * d) \in Nat
         /\ (k + 1 + 1) * ((k + 1 + 1) * d) \in Nat
         /\ (k + 1) * ((k + 1) * d) + (k + 1) * d <= (k + 1 + 1) * ((k + 1 + 1) * d)
         /\ (k + 1 + 1) * d <= (k + 1 + 1) * ((k + 1 + 1) * d)
<1> DEFINE n == k + 1
           x == n * d
<1>1. n \in Nat /\ 1 \in Nat
  OBVIOUS
<1>2. x \in Nat
  BY <1>1, Distributes
<1>3. (n + 1) * d = x + d
  BY <1>1, Distributes
<1>4. n * x \in Nat /\ n * d \in Nat
  BY <1>1, <1>2, Distributes
<1>5. (n + 1) * (x + d) = n * (x + d) + 1 * (x + d)
  <2>1. x + d \in Nat
    BY <1>2
  <2> HIDE DEF n, x
  <2> QED  BY <1>1, <2>1, Distributes
<1>6. n * (x + d) = n * x + n * d /\ 1 * (x + d) = x + d
  <2>1. x + d \in Nat
    BY <1>2
  <2> HIDE DEF n, x
  <2> QED  BY <1>1, <1>2, <2>1, Distributes
<1>7. (n + 1) * ((n + 1) * d) = n * x + n * d + x + d
  <2> HIDE DEF n, x
  <2> QED  BY <1>2, <1>3, <1>4, <1>5, <1>6
<1>8. /\ (n + 1) * ((n + 1) * d) \in Nat
      /\ n * x + x <= (n + 1) * ((n + 1) * d)
      /\ (n + 1) * d <= (n + 1) * ((n + 1) * d)
  <2> HIDE DEF n, x
  <2> QED  BY <1>2, <1>3, <1>4, <1>7
<1> QED  BY <1>2, <1>3, <1>4, <1>8 DEF n, x

(* The node AdvanceWeek computes stays within the bounds of its week. *)
LEMMA NodeBoundFacts ==
  ASSUME Inv, currentWeek < MaxWeeks, NEW d \in Nat, AtMost(d), Bounded(d),
         NEW r \in Roles, NEW order \in Nat
  PROVE  /\ NodeBounded(nextNode(r, order), d, currentWeek + 1)
         /\ nextNode(r, order).ActualShipment <= (currentWeek + 1 + 1) * d
<1> DEFINE inv   == nodes[r].Inventory
           back  == nodes[r].Backlog
           goods == incomingGoods[r]
           ords  == incomingOrders[r]
           avail == inv + goods
           req   == ords + back
           ship  == minInt(avail, req)
           left  == avail - ship
           owed  == maxInt(req - ship, 0)
           H     == BaseScenario.HoldingCost
           B     == BaseScenario.BacklogCost
           one   == (currentWeek + 1) * d
           two   == (currentWeek + 1) * one
           oneN  == (currentWeek + 1 + 1) * d
           twoN  == (currentWeek + 1 + 1) * oneN
<1>1. goods \in Nat /\ ords \in Nat /\ inv \in Nat /\ back \in Nat
  BY IncomingFacts DEF Inv, TypeOK, NodeState
<1>2. currentWeek \in Nat /\ TypeOK
  BY MaxWeeksAssumption DEF Inv, TypeOK
<1>3. back <= one /\ inv <= two
  BY DEF Bounded, NodeBounded
<1>4. goods <= one
  <2>1. one \in Nat /\ d <= one
    <3>1. one = currentWeek * d + 1 * d /\ currentWeek * d \in Nat /\ 1 * d = d
      BY <1>2, Distributes
    <3> QED  BY <3>1
  <2> HIDE DEF one
  <2>2. ASSUME NEW q \in Seq(Nat), NEW bound \in Nat, SlotsBounded(q, bound)
        PROVE  shifted(q) <= bound
    BY <2>2 DEF shifted, SlotsBounded
  <2>3. CASE r \in GoodsReceivers
    <3>1. goodsPipelines[r] \in Seq(Nat) /\ SlotsBounded(goodsPipelines[r], one)
      BY <1>2, <2>3 DEF TypeOK, Bounded, one
    <3> QED  BY <2>1, <2>2, <2>3, <3>1 DEF incomingGoods
  <2>4. CASE r \notin GoodsReceivers
    <3>1. productionQueue \in Seq(Nat) /\ SlotsBounded(productionQueue, d)
      BY <1>2 DEF TypeOK, Bounded
    <3>2. goods = shifted(productionQueue)
      BY <2>4 DEF incomingGoods
    <3>3. shifted(productionQueue) <= d
      BY <2>2, <3>1
    <3> QED  BY <1>1, <2>1, <3>2, <3>3
  <2> QED  BY <2>3, <2>4
<1>5. ords <= d
  <2>1. CASE r \in OrderReceivers
    <3>1. orderPipelines[r] \in Seq(Nat) /\ SlotsBounded(orderPipelines[r], d)
      BY <1>2, <2>1 DEF TypeOK, Bounded
    <3>2. shifted(orderPipelines[r]) <= d
      BY <3>1 DEF shifted, SlotsBounded
    <3> QED  BY <2>1, <3>2 DEF incomingOrders
  <2>2. CASE r \notin OrderReceivers
    <3>1. currentWeek + 1 \in 1..MaxWeeks /\ demand \in [1..MaxWeeks -> Nat]
      BY <1>2, MaxWeeksAssumption DEF TypeOK
    <3>2. Len(demand) = MaxWeeks
      BY <3>1, MaxWeeksAssumption, SMT
    <3>3. DemandForWeek(demand, currentWeek + 1) = demand[currentWeek + 1]
      BY <1>2, <3>1, <3>2 DEF DemandForWeek
    <3> QED  BY <2>2, <3>1, <3>3 DEF incomingOrders, AtMost
  <2> QED  BY <2>1, <2>2
<1>6. /\ one \in Nat /\ two \in Nat /\ twoN \in Nat
      /\ oneN = one + d /\ two + one <= twoN /\ oneN <= twoN
  BY <1>2, BoundsGrow
<1>7. /\ ship \in Nat /\ left \in Nat /\ owed \in Nat
      /\ ship <= req /\ left <= avail /\ owed <= req
  <2>1. avail \in Nat /\ req \in Nat
    BY <1>1
  <2> HIDE DEF avail, req
  <2> QED  BY <2>1, SMT DEF minInt, maxInt
<1>8. nextNode(r, order) =
        [Inventory |-> left, Backlog |-> owed,
         IncomingOrder |-> ords, IncomingGoods |-> goods,
         PlacedOrder |-> order, ActualShipment |-> ship,
         WeeklyCost |-> left * H + owed * B]
  BY DEF nextNode, requiredOf, shipmentOf
<1> HIDE DEF inv, back, goods, ords, one, two, oneN, twoN
<1>9. ship <= oneN /\ owed <= oneN /\ owed <= twoN /\ left <= twoN
  <2>1. avail <= two + one /\ req <= one + d /\ avail \in Nat /\ req \in Nat
    BY <1>1, <1>3, <1>4, <1>5, <1>6
  <2> HIDE DEF avail, req, ship, left, owed
  <2> QED  BY <1>6, <1>7, <2>1
<1>10. left * H + owed * B <= twoN * (H + B)
  <2>1. H \in Nat /\ B \in Nat
    BY ScenarioFacts
  <2> HIDE DEF left, owed, H, B
  <2>2. left * H <= twoN * H /\ owed * B <= twoN * B
    BY <1>6, <1>7, <1>9, <2>1, ProductMonotone
  <2>3. /\ twoN * (H + B) = twoN * H + twoN * B
        /\ left * H \in Nat /\ owed * B \in Nat /\ twoN * H \in Nat /\ twoN * B \in Nat
    BY <1>6, <1>7, <2>1, Distributes
  <2> QED  BY <2>2, <2>3
<1>11. NodeBounded(nextNode(r, order), d, currentWeek + 1)
  <2> HIDE DEF ship, left, owed, H, B
  <2>1. /\ nextNode(r, order).Backlog <= oneN
        /\ nextNode(r, order).Inventory <= twoN
        /\ nextNode(r, order).WeeklyCost <= twoN * (H + B)
    BY <1>8, <1>9, <1>10
  <2> QED  BY <2>1 DEF NodeBounded, twoN, oneN, H, B
<1>12. nextNode(r, order).ActualShipment <= oneN
  <2> HIDE DEF ship, left, owed, H, B
  <2> QED  BY <1>8, <1>9
<1> QED  BY <1>11, <1>12 DEF oneN

(* A session starts within the bounds. *)
LEMMA InitBounded == Init => QuantitiesBounded
<1> SUFFICES ASSUME Init, NEW d \in OrderChoices \cap Nat, AtMost(d)
             PROVE  Bounded(d)
  BY DEF QuantitiesBounded
<1>1. currentWeek = 0 /\ d \in Nat
  BY DEF Init
<1>2. (0 + 1) * d = d /\ (0 + 1) * ((0 + 1) * d) = d
  BY <1>1, Distributes
<1>3. d * (BaseScenario.HoldingCost + BaseScenario.BacklogCost) \in Nat
  <2>1. BaseScenario.HoldingCost + BaseScenario.BacklogCost \in Nat
    BY ScenarioFacts
  <2> QED  BY <1>1, <2>1, Distributes
<1>4. NodeBounded(initialNode, d, 0)
  BY <1>1, <1>2, <1>3, ScenarioFacts DEF NodeBounded, initialNode, AtMost
<1>5. /\ SlotsBounded(BaseScenario.InitialPipelineGoods, d)
      /\ SlotsBounded(BaseScenario.InitialPipelineOrders, d)
  BY DEF SlotsBounded, AtMost
<1> QED  BY <1>1, <1>2, <1>4, <1>5 DEF Init, Bounded

(* AdvanceWeek stays within them. *)
LEMMA StepBounded ==
  ASSUME Inv, QuantitiesBounded, NEW decisions \in Decisions, AdvanceWeek(decisions)
  PROVE  QuantitiesBounded'
<1> DEFINE nextNodes == [r \in Roles |-> nextNode(r, decisions[r])]
<1>1. /\ nextNodes \in [Roles -> NodeState]
      /\ nodes' = nextNodes
      /\ currentWeek < MaxWeeks /\ currentWeek \in Nat
      /\ currentWeek' = currentWeek + 1
      /\ decisions \in [Roles -> OrderChoices \cap Nat]
      /\ demand' = demand
  BY StepFacts
<1>2. /\ orderPipelines' = nextOrderPipelines(decisions)
      /\ productionQueue' = Append(rest(productionQueue), decisions["factory"])
      /\ goodsPipelines' = nextGoodsPipelines(nextNodes)
  BY DEF AdvanceWeek
<1> SUFFICES ASSUME NEW d \in OrderChoices \cap Nat, AtMost(d)'
             PROVE  Bounded(d)'
  BY DEF QuantitiesBounded
<1>3. d \in Nat /\ AtMost(d) /\ Bounded(d) /\ TypeOK
  BY <1>1 DEF AtMost, QuantitiesBounded, Inv
<1>4. \A r \in Roles : /\ NodeBounded(nextNode(r, decisions[r]), d, currentWeek + 1)
                       /\ nextNode(r, decisions[r]).ActualShipment
                            <= (currentWeek + 1 + 1) * d
  BY <1>1, <1>3, NodeBoundFacts
<1>5. \A r \in Roles : /\ NodeBounded(nextNodes[r], d, currentWeek + 1)
                       /\ nextNodes[r].ActualShipment <= (currentWeek + 1 + 1) * d
                       /\ nextNodes[r].ActualShipment \in Nat
                       /\ decisions[r] \in Nat /\ decisions[r] <= d
  BY <1>1, <1>3, <1>4 DEF NodeState, AtMost
<1> HIDE DEF nextNodes
<1>6. /\ (currentWeek + 1) * d \in Nat /\ (currentWeek + 1 + 1) * d \in Nat
      /\ (currentWeek + 1) * d <= (currentWeek + 1 + 1) * d
  BY <1>1, <1>3, BoundsGrow
<1>7. ASSUME NEW q \in Seq(Nat), NEW low \in Nat, NEW bound \in Nat, low <= bound,
             SlotsBounded(q, low), NEW x \in Nat, x <= bound
      PROVE  SlotsBounded(Append(rest(q), x), bound)
  <2>1. rest(q) \in Seq(Nat) /\ SlotsBounded(rest(q), bound)
    BY <1>7 DEF rest, SlotsBounded
  <2> HIDE DEF rest
  <2> QED  BY <1>7, <2>1 DEF SlotsBounded
<1>8. \A r \in GoodsReceivers :
        SlotsBounded(goodsPipelines'[r], (currentWeek + 1 + 1) * d)
  <2> TAKE r \in GoodsReceivers
  <2> DEFINE low == (currentWeek + 1) * d
             bound == (currentWeek + 1 + 1) * d
  <2>1. /\ goodsPipelines[r] \in Seq(Nat) /\ SlotsBounded(goodsPipelines[r], low)
        /\ nextNodes[GoodsFrom[r]].ActualShipment \in Nat
        /\ nextNodes[GoodsFrom[r]].ActualShipment <= bound
    BY <1>3, <1>5, LinkFacts DEF TypeOK, Bounded
  <2>2. goodsPipelines'[r]
          = Append(rest(goodsPipelines[r]), nextNodes[GoodsFrom[r]].ActualShipment)
    BY <1>2 DEF nextGoodsPipelines
  <2>3. low \in Nat /\ bound \in Nat /\ low <= bound
    BY <1>6
  <2> HIDE DEF low, bound
  <2>4. SlotsBounded(goodsPipelines'[r], bound)
    BY <1>7, <2>1, <2>2, <2>3
  <2> QED  BY <2>4 DEF bound
<1>9. \A r \in OrderReceivers : SlotsBounded(orderPipelines'[r], d)
  <2> TAKE r \in OrderReceivers
  <2>1. /\ orderPipelines[r] \in Seq(Nat) /\ SlotsBounded(orderPipelines[r], d)
        /\ decisions[OrdersFrom[r]] \in Nat /\ decisions[OrdersFrom[r]] <= d
    BY <1>3, <1>5, LinkFacts DEF TypeOK, Bounded
  <2>2. orderPipelines'[r] = Append(rest(orderPipelines[r]), decisions[OrdersFrom[r]])
    BY <1>2 DEF nextOrderPipelines
  <2> QED  BY <1>3, <1>7, <2>1, <2>2
<1>10. SlotsBounded(productionQueue', d)
  <2>1. /\ productionQueue \in Seq(Nat) /\ SlotsBounded(productionQueue, d)
        /\ decisions["factory"] \in Nat /\ decisions["factory"] <= d
    BY <1>3, <1>5 DEF TypeOK, Bounded, Roles
  <2> QED  BY <1>2, <1>3, <1>7, <2>1
<1> QED  BY <1>1, <1>5, <1>8, <1>9, <1>10 DEF Bounded

(* No number of a session outgrows what its largest order and its length   *)
(* allow, so a caller who bounds the orders bounds all of AdvanceWeek's    *)
(* arithmetic.                                                             *)
THEOREM QuantitiesStayBounded == Spec => []QuantitiesBounded
<1>1. Init => QuantitiesBounded
  BY InitBounded
<1>2. Inv /\ QuantitiesBounded /\ [Next]_vars => QuantitiesBounded'
  <2> SUFFICES ASSUME Inv, QuantitiesBounded, [Next]_vars PROVE QuantitiesBounded'
    OBVIOUS
  <2>1. ASSUME NEW decisions \in Decisions, AdvanceWeek(decisions)
        PROVE  QuantitiesBounded'
    BY <2>1, StepBounded
  <2>2. CASE UNCHANGED vars
    BY <2>2 DEF vars, QuantitiesBounded, AtMost, Bounded
  <2> QED  BY <2>1, <2>2 DEF Next
<1> QED  BY <1>1, <1>2, InductiveInvariant, PTL DEF Spec
=============================================================================
