----------------------------- MODULE Analytics -----------------------------
(***************************************************************************)
(* CalculateSessionAnalytics of internal/domain/analytics.go on the        *)
(* history of a session.  The code's float64 means and variances are kept  *)
(* exact as whole numbers: a mean times the number n of weeks, a variance  *)
(* times n * n.  (The ratio of two variances, the bullwhip effect, is the  *)
(* ratio of these.)  Before the first week, where the code lists no role,  *)
(* all numbers are 0.                                                      *)
(***************************************************************************)
EXTENDS GameSession

sumInts(values) == Total(values)

(* n * n times varianceInts, from the deviations as the code sums them. *)
varianceInts(values) ==
  LET n         == Len(values)
      sum       == sumInts(values)
      deviation == [i \in DOMAIN values |-> n * values[i] - sum]
  IN  sumInts([i \in DOMAIN values |-> deviation[i] * deviation[i]])
        \div (IF n = 0 THEN 1 ELSE n)

(* The series of one field of one role, and the consumer demand as the     *)
(* code finds it: what the retailer was asked for.                         *)
M_demandOfSupplier == [w \in DOMAIN history |-> history[w].Nodes["wholesaler"].IncomingOrder]
demandSeries == [w \in DOMAIN history |-> history[w].Nodes["retailer"].IncomingOrder]

perRole(role, field) == [w \in DOMAIN history |-> history[w].Nodes[role][field]]

NodeAnalytics(role) ==
  [TotalCost        |-> sumInts(perRole(role, "WeeklyCost")),
   AverageInventory |-> sumInts(perRole(role, "Inventory")),
   TotalBacklog     |-> sumInts(perRole(role, "Backlog")),
   TotalOrders      |-> sumInts(perRole(role, "PlacedOrder")),
   OrderVariance    |-> varianceInts(perRole(role, "PlacedOrder"))]

SessionAnalytics ==
  [TotalWeeks     |-> Len(history),
   TotalCost      |-> sumInts([w \in DOMAIN history |-> history[w].TotalCost]),
   DemandVariance |-> varianceInts(demandSeries),
   NodeAnalytics  |-> [r \in Roles |-> NodeAnalytics(r)]]

-----------------------------------------------------------------------------
(* n * n times the variance by its other formula, n times the mean of the  *)
(* squares less the square of the mean.                                    *)
SquaresLessSquare(values) ==
  Len(values) * sumInts([i \in DOMAIN values |-> values[i] * values[i]])
    - sumInts(values) * sumInts(values)

(* The analytics agree with the game and with one another: the cost of the *)
(* system is that of its parts and is what the stock and backlog they      *)
(* report cost; and the demand the bullwhip effect is measured against is  *)
(* the consumer's, whatever the chain did with it.                         *)
AnalyticsAgree ==
  LET all == SessionAnalytics
      Over(field) == sumInts([r \in Roles |-> all.NodeAnalytics[r][field]])
  IN  /\ all.TotalCost = Over("TotalCost")
      /\ all.TotalCost = BaseScenario.HoldingCost * Over("AverageInventory")
                         + BaseScenario.BacklogCost * Over("TotalBacklog")
      /\ all.DemandVariance = SquaresLessSquare(SubSeq(demand, 1, all.TotalWeeks))
=============================================================================
