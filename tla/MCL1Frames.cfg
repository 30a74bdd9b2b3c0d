SPECIFICATION Spec
CONSTANTS
  Addresses <- MCAddresses
  Words = {w1, w2}
  Arities <- MCArities
  Top = 64
CONSTRAINT InStack
INVARIANTS
  ReturnsToCaller
PROPERTIES
  CallersUntouched
CHECK_DEADLOCK FALSE
