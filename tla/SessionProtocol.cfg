SPECIFICATION Spec
CONSTANT
  MaxRequests = 1
INVARIANTS
  FailureCloses
