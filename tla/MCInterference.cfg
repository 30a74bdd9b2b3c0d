SPECIFICATION Spec
CONSTANTS
  MCVariables = {"a", "b", "c"}
  MCShiftable = {"a", "b"}
  Registers <- MCRegisters
  ShiftRegister = "rcx"
  StackPointer = "rsp"
  Precedes <- MCNoOrder
  Jobs <- MCJobs
INVARIANTS
  ClashOnlyOnShift
  NoVariableLost
  NoNeedlessSpill
PROPERTIES
  Terminates
CHECK_DEADLOCK FALSE
