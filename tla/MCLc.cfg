SPECIFICATION Spec
CONSTANTS
  Tests = {"one", "another"}
  Bottom = 3
  Prints <- MCPrints
INVARIANTS
  SuccessIsOwnBinary
PROPERTIES
  FailureLeavesBinary
