SPECIFICATION Spec
CONSTANTS
  Literals <- MCLiterals
  Precedes <- MCPrecedes
  Sources <- MCLoop
INVARIANTS
  ReadsAgree
CHECK_DEADLOCK FALSE
