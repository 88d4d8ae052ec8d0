SPECIFICATION Spec
CONSTANTS
  Threads = {t1, t2}
  NoThread = NoThread
  MaxNesting = 1
  GasLimit = 1
  MaxGeneration = 2
  Policies <- MCPolicies
  HandlerGrace = 1
  UncoveredWaitLimit = 1
  ClockBatch = 2
SYMMETRY Symmetry
PROPERTIES
  ImportOutcomeIsOwn
