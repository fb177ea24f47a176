CONSTANTS
  BaseScenario <- MCBaseScenario
  MaxWeeks = 4
  OrderChoices <- MCOrderChoices
SPECIFICATION Spec
INVARIANTS
  TypeOK
  ClockConsistent
  DelayLines
  GoodsConserved
  OrdersAccounted
  AnalyticsAgree
  QuantitiesBounded
  SheetsAgree
PROPERTY ImplementsBeerGame
CHECK_DEADLOCK FALSE
