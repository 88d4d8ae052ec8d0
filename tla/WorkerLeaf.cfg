SPECIFICATION Spec
INVARIANTS
  LeafRemoved
