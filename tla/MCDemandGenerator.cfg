CONSTANTS
  Scenarios <- MCScenarios
  Weeks <- MCWeeks
SPECIFICATION Spec
INVARIANTS
  ResultCorrect
  DemandKept
PROPERTY Terminates
CHECK_DEADLOCK FALSE
