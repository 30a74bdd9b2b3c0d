SPECIFICATION Spec
CONSTANTS
  Programs <- MCPrograms
  HeapStart = 800
INVARIANTS
  TypeOK
  PrintsWhatTestSays
  AccessInside
  TemporariesFree
  NoTemporaryAcrossCalls
PROPERTIES
  ImplementsLA
