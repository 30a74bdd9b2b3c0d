SPECIFICATION Spec
CONSTANTS
  Programs <- MCPrograms
  InitialRegs <- MCInitialRegs
  StackTop = 160
  BitAnd <- MCBitAnd
INVARIANTS
  TypeOK
  WellBehaved
  PrintsWhatTestSays
PROPERTIES
  ImplementsL1
  ImplementsFrames
