------------------------------ MODULE Scenario ------------------------------
(***************************************************************************)
(* The game parameters of internal/domain/scenario.go: their validation    *)
(* and the consumer demand derived from them.  Pure operators on scenario  *)
(* records; a scenario is what `Scenario` (scenario.go) holds, less its    *)
(* identifier.                                                             *)
(***************************************************************************)
EXTENDS Integers, Sequences

(* The supply chain from its source to the consumer, room.go: AllRoles.    *)
AllRoles == <<"factory", "distributor", "wholesaler", "retailer">>
Roles == {"factory", "distributor", "wholesaler", "retailer"}

DemandModes == {"", "fixed", "random_blocks", "unsupported"}

ScenarioRecord ==
  [InitialInventory : Int, InitialBacklog : Int,
   InitialPipelineGoods : Seq(Int), InitialPipelineOrders : Seq(Int),
   ConsumerDemand : Seq(Int),
   ShippingDelay : Int, OrderDelay : Int, ProductionDelay : Int,
   HoldingCost : Int, BacklogCost : Int,
   DemandMode : DemandModes,
   DemandMin : Int, DemandMax : Int, DemandChangePeriod : Int]

-----------------------------------------------------------------------------
normalizedDemandMode(s) == IF s.DemandMode = "" THEN "fixed" ELSE s.DemandMode

hasNegative(values) == \E i \in DOMAIN values : values[i] < 0

(* The demand part of Validate, by mode. *)
M_noPeriodCheck(s) ==
  IF normalizedDemandMode(s) = "fixed"
    THEN IF Len(s.ConsumerDemand) = 0 THEN "ErrScenarioDemandEmpty"
         ELSE IF hasNegative(s.ConsumerDemand) THEN "ErrNegativeValue"
         ELSE "nil"
  ELSE IF normalizedDemandMode(s) = "random_blocks"
    THEN IF s.DemandMin < 0 \/ s.DemandMax < 0 THEN "ErrNegativeValue"
         ELSE IF s.DemandMax < s.DemandMin THEN "demand_max below demand_min"
         ELSE "nil"
  ELSE "unsupported demand mode"
ValidateDemand(s) ==
  IF normalizedDemandMode(s) = "fixed"
    THEN IF Len(s.ConsumerDemand) = 0 THEN "ErrScenarioDemandEmpty"
         ELSE IF hasNegative(s.ConsumerDemand) THEN "ErrNegativeValue"
         ELSE "nil"
  ELSE IF normalizedDemandMode(s) = "random_blocks"
    THEN IF s.DemandMin < 0 \/ s.DemandMax < 0 THEN "ErrNegativeValue"
         ELSE IF s.DemandMax < s.DemandMin THEN "demand_max below demand_min"
         ELSE IF s.DemandChangePeriod <= 0 THEN "demand_change_period not positive"
         ELSE "nil"
  ELSE "unsupported demand mode"

(* Scenario.Validate: the first error met, "nil" when there is none. *)
Validate(s) ==
  IF \/ s.InitialInventory < 0 \/ s.InitialBacklog < 0
     \/ s.HoldingCost < 0 \/ s.BacklogCost < 0        THEN "ErrNegativeValue"
  ELSE IF \/ s.ShippingDelay <= 0 \/ s.OrderDelay <= 0
          \/ s.ProductionDelay <= 0                   THEN "ErrInvalidDelay"
  ELSE IF hasNegative(s.InitialPipelineGoods)         THEN "ErrNegativeValue"
  ELSE IF hasNegative(s.InitialPipelineOrders)        THEN "ErrNegativeValue"
  ELSE IF ValidateDemand(s) # "nil"                   THEN ValidateDemand(s)
  ELSE IF Len(s.InitialPipelineGoods) # s.ShippingDelay
         THEN "goods pipeline length"
  ELSE IF Len(s.InitialPipelineOrders) # s.OrderDelay
         THEN "order pipeline length"
  ELSE IF Len(s.InitialPipelineGoods) # s.ProductionDelay
         THEN "production pipeline length"
  ELSE "nil"

-----------------------------------------------------------------------------
(* Scenario.DemandForWeek: past its end the series repeats its last entry. *)
DemandForWeek(consumerDemand, week) ==
  IF week <= 0 THEN 0
  ELSE IF week <= Len(consumerDemand) THEN consumerDemand[week]
  ELSE consumerDemand[Len(consumerDemand)]

extendDemand(values, maxWeeks) ==
  [i \in 1..maxWeeks |->
     IF i <= Len(values) THEN values[i] ELSE values[Len(values)]]

(* What generateRandomBlockDemand may return, over all seeds: one value    *)
(* drawn from minDemand..maxDemand for each block of changePeriod weeks,   *)
(* the last block cut off at maxWeeks.                                     *)
RandomBlockDemands(maxWeeks, minDemand, maxDemand, changePeriod) ==
  {[i \in 1..maxWeeks |-> value[(i - 1) \div changePeriod]] :
     value \in [0..((maxWeeks - 1) \div changePeriod) -> minDemand..maxDemand]}

(* The consumer demand MaterializeDemand may put into a valid scenario     *)
(* (the seed is the clock's reading, so any draw is possible).             *)
MaterializeDemand(s, maxWeeks) ==
  IF normalizedDemandMode(s) = "fixed"
    THEN {extendDemand(s.ConsumerDemand, maxWeeks)}
    ELSE RandomBlockDemands(maxWeeks, s.DemandMin, s.DemandMax,
                            s.DemandChangePeriod)
=============================================================================
