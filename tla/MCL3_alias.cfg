SPECIFICATION Spec
CONSTANTS
  Programs <- MCAliased
  ReturnNumbers = {"83", "86"}
INVARIANTS
  SameEffect
CHECK_DEADLOCK FALSE
