SPECIFICATION Spec
CONSTANTS
  Names = {v}

  MCLength = 3
  Flows <- MCFlows
INVARIANTS
  SolvedWhenDone
  BelowEverySolution
PROPERTIES
  ImplementsDataFlow
  Terminates
CHECK_DEADLOCK FALSE
