--------------------------- MODULE MCGameSession ---------------------------
(* A small game: four weeks, so that an order placed in week 1 is answered *)
(* by goods in week 4, scarce stock, an initial backlog, a demand series   *)
(* one week too short, and callers that pass incomplete or negative orders *)
EXTENDS Export

MCBaseScenario ==
  [InitialInventory |-> 2, InitialBacklog |-> 1,
   InitialPipelineGoods |-> <<1, 2>>, InitialPipelineOrders |-> <<2>>,
   ConsumerDemand |-> <<2, 0, 3>>,
   ShippingDelay |-> 2, OrderDelay |-> 1, ProductionDelay |-> 2,
   HoldingCost |-> 1, BacklogCost |-> 2,
   DemandMode |-> "",
   DemandMin |-> 0, DemandMax |-> 0, DemandChangePeriod |-> 0]
MCOrderChoices == {-1, 0, 3}
=============================================================================
