SPECIFICATION Spec
CONSTANT
  MaxRequests = 2
INVARIANTS
  InStep
  OwnAnswer
  NothingLeft
PROPERTIES
  HelperEnds
  IsSession
