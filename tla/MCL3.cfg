SPECIFICATION Spec
CONSTANTS
  Programs <- MCPrograms
  ReturnNumbers = {"83", "86"}
INVARIANTS
  EmittedInOrder
  NothingLeftOut
  SameEffect
  JumpsArrive
CHECK_DEADLOCK FALSE
