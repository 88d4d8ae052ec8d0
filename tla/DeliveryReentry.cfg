SPECIFICATION Spec
CONSTANTS
  GasLimit = 1
  MaxGeneration = 2
  Policies <- MCPolicies
  HandlerGrace = 1
  UncoveredWaitLimit = 1
  ClockBatch = 2
  MaxDepth = 1
  MaxEntries = 1
  Reenters = TRUE
PROPERTIES
  DoomedExecutionEnds
