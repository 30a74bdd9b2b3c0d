SPECIFICATION Spec
CONSTANTS
  Literals <- MCLiterals
  Precedes <- MCPrecedes
  Sources <- MCFunctions
INVARIANTS
  ReadsAgree
  SpillSlotsAreOwn
  OracleAgrees
PROPERTIES
  AllocationEnds
CHECK_DEADLOCK FALSE
