SPECIFICATION Spec
CONSTANTS
  GasLimit = 2
  MaxGeneration = 2
  Policies <- MCPolicies
  HandlerGrace = 2
  UncoveredWaitLimit = 2
  ClockBatch = 2
  MaxDepth = 3
  MaxEntries = 2
  Reenters = FALSE
INVARIANTS
  PromptDelivery
  GraceHonoured
PROPERTIES
  DoomedExecutionEnds
