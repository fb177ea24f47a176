------------------------------- MODULE Export -------------------------------
(***************************************************************************)
(* The spreadsheet of a session, infrastructure/export/xlsx_exporter.go.   *)
(* A sheet is a function from row numbers to rows; whoever sets a row a    *)
(* second time overwrites it.  The cells that hold identifiers or the      *)
(* status are left out, as is the file around the sheets.  Means and       *)
(* variances are the whole numbers of Analytics.                           *)
(***************************************************************************)
EXTENDS Analytics, SequencesExt

SetSheetRow(sheet, rowIndex, row) ==
  [i \in {rowIndex} \cup DOMAIN sheet |-> IF i = rowIndex THEN row ELSE sheet[i]]

(* A sheet with its headers, and where the next row goes. *)
withHeaders(headers) == [sheet |-> SetSheetRow(<<>>, 1, headers), rowIndex |-> 2]
withRow(at, row) == [sheet    |-> SetSheetRow(at.sheet, at.rowIndex, row),
                     rowIndex |-> at.rowIndex + 1]

-----------------------------------------------------------------------------
writeSummary(analytics) == [WeeksPlayed    |-> analytics.TotalWeeks,
                            TotalCost      |-> analytics.TotalCost,
                            DemandVariance |-> analytics.DemandVariance]

weeksHeaders == <<"Week", "Role", "Incoming Order", "Incoming Goods", "Inventory",
                  "Backlog", "Placed Order", "Shipment", "Weekly Cost">>
weeksRow(week, role) ==
  LET node == week.Nodes[role]
  IN  <<week.Week, role, node.IncomingOrder, node.IncomingGoods, node.Inventory,
        node.Backlog, node.PlacedOrder, node.ActualShipment, node.WeeklyCost>>

M_oneRowPerWeek(at, week) ==
  [sheet    |-> FoldLeft(LAMBDA sheet, role :
                           SetSheetRow(sheet, at.rowIndex, weeksRow(week, role)),
                         at.sheet, AllRoles),
   rowIndex |-> at.rowIndex + 1]
writeWeek(at, week) ==
  FoldLeft(LAMBDA here, role : withRow(here, weeksRow(week, role)), at, AllRoles)

writeWeeks == FoldLeft(writeWeek, withHeaders(weeksHeaders), history).sheet

(* The bullwhip effect: a ratio of variances, kept as a pair, or 0. *)
bullwhipEffect(variance, demandVariance) ==
  IF demandVariance > 0 THEN <<variance, demandVariance>> ELSE <<0, 1>>

analyticsHeaders == <<"Role", "Total Cost", "Average Inventory", "Total Backlog",
                      "Total Orders", "Order Variance", "Bullwhip Effect">>
analyticsRow(analytics, role) ==
  LET node == analytics.NodeAnalytics[role]
  IN  <<role, node.TotalCost, node.AverageInventory, node.TotalBacklog, node.TotalOrders,
        node.OrderVariance, bullwhipEffect(node.OrderVariance, analytics.DemandVariance)>>

(* Before the first week the analytics list no role. *)
writeAnalytics(analytics) ==
  FoldLeft(LAMBDA at, role : withRow(at, analyticsRow(analytics, role)),
           withHeaders(analyticsHeaders),
           IF history = <<>> THEN <<>> ELSE AllRoles).sheet

ExportSession ==
  LET analytics == SessionAnalytics
  IN  [Summary   |-> writeSummary(analytics),
       Weeks     |-> writeWeeks,
       Analytics |-> writeAnalytics(analytics)]

-----------------------------------------------------------------------------
(* What stands under a heading. *)
Column(sheet, heading) ==
  LET c == CHOOSE c \in DOMAIN sheet[1] : sheet[1][c] = heading
  IN  [i \in DOMAIN sheet \ {1} |-> sheet[i][c]]
RowsOf(sheet, role) ==
  LET roles == Column(sheet, "Role") IN {i \in DOMAIN roles : roles[i] = role}
ColumnSum(sheet, rows, heading) ==
  LET column == Column(sheet, heading) IN MapThenSumSet(LAMBDA i : column[i], rows)

(* The sheets agree with one another and add up: every week has its row    *)
(* for every role, none was overwritten or left blank; from one week's row *)
(* to the next stock and backlog change by what the columns between say    *)
(* came and went; and costs, orders, backlog and stock of the weeks sum up *)
(* to what the other two sheets report (writeWeeks, writeAnalytics and     *)
(* writeSummary, three loops over three copies of the numbers).            *)
SheetsAgree ==
  LET file    == ExportSession
      weeks   == file.Weeks
      perNode == file.Analytics
      Before(i, heading, initial) ==
        IF i - 4 \in DOMAIN weeks \ {1} THEN Column(weeks, heading)[i - 4] ELSE initial
      Now(i, heading) == Column(weeks, heading)[i]
  IN  /\ DOMAIN weeks = 1..(4 * file.Summary.WeeksPlayed + 1)
      /\ \A i \in DOMAIN weeks \ {1} :
           /\ Now(i, "Inventory") + Now(i, "Shipment") =
                Before(i, "Inventory", BaseScenario.InitialInventory)
                + Now(i, "Incoming Goods")
           /\ Now(i, "Backlog") + Now(i, "Shipment") =
                Before(i, "Backlog", BaseScenario.InitialBacklog)
                + Now(i, "Incoming Order")
      /\ file.Summary.TotalCost
           = ColumnSum(weeks, DOMAIN weeks \ {1}, "Weekly Cost")
      /\ \A i \in DOMAIN perNode \ {1} :
           LET rows == RowsOf(weeks, Column(perNode, "Role")[i])
               Agree(total, heading) ==
                 Column(perNode, total)[i] = ColumnSum(weeks, rows, heading)
           IN  /\ {Now(k, "Week") : k \in rows} = 1..Len(history)
               /\ Agree("Total Cost", "Weekly Cost")
               /\ Agree("Average Inventory", "Inventory")
               /\ Agree("Total Backlog", "Backlog")
               /\ Agree("Total Orders", "Placed Order")
=============================================================================
