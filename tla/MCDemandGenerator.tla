------------------------- MODULE MCDemandGenerator -------------------------
(* Series of up to three entries, games shorter and longer than them,      *)
(* blocks that divide the game and blocks that do not, and scenarios       *)
(* Validate must refuse: negative, empty, inverted or of period 0.         *)
EXTENDS DemandGenerator

Base == [InitialInventory |-> 0, InitialBacklog |-> 0,
         InitialPipelineGoods |-> <<0>>, InitialPipelineOrders |-> <<0>>,
         ConsumerDemand |-> <<>>,
         ShippingDelay |-> 1, OrderDelay |-> 1, ProductionDelay |-> 1,
         HoldingCost |-> 1, BacklogCost |-> 2,
         DemandMode |-> "", DemandMin |-> 0, DemandMax |-> 0,
         DemandChangePeriod |-> 0]

Series == UNION {[1..n -> {-1, 2, 5}] : n \in 0..3}

MCScenarios ==
  {[Base EXCEPT !.ConsumerDemand = q, !.DemandMode = m] :
     q \in Series, m \in {"", "fixed"}}
  \cup {[Base EXCEPT !.DemandMode = m, !.DemandMin = lo, !.DemandMax = hi,
                     !.DemandChangePeriod = p] :
          m \in {"random_blocks", "unsupported"},
          lo \in {-1, 0, 2}, hi \in {1, 2}, p \in {0, 1, 2, 3}}

MCWeeks == {0, 1, 3, 4}
=============================================================================
