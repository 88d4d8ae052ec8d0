SPECIFICATION Spec
CONSTANTS
  Declarations <- MCDeclarations
  Manifests = {m1, m2}
  MaxNodes = 4
  Unbound = Unbound
  Entrypoints <- MCEntrypoints
  Corrupt <- MCCorrupt
CHECK_DEADLOCK FALSE
INVARIANTS
  OrderSound
  LoadsInOrder
  LoadedOrPoisoned
