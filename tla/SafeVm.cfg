SPECIFICATION SafeSpec
CONSTANTS
  Objects = {o1, o2, o3, o4}
  NoMem = NoMem
  Nil = Nil
  ArenaCapacity = 1
  MaxArena = 3
  MaxCallArena = 2
  MaxFrames = 4
  OpObjects = 2
  PostludeMayFail = FALSE
  Handles = {h1, h2}
  MaxHolders = 1
  CallbackOperations <- MCCallbackOperations
  Graphs <- MCGraphs
SYMMETRY Symmetry
CHECK_DEADLOCK FALSE
INVARIANTS
  NoDangling
  RootsExact
  OwnOutcome
  FramesIntact
PROPERTIES
  ArenaBalanced
  ImportFaithful
