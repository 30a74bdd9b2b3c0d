SPECIFICATION Spec
INVARIANTS
  TypeOK
  ParsedAsWritten
  VariablesRecorded
PROPERTIES
  Ends
CHECK_DEADLOCK FALSE
