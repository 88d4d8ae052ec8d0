SPECIFICATION SafeSpec
CONSTANTS
  Objects = {o1, o2}
  NoMem = NoMem
  Nil = Nil
  ArenaCapacity = 1
  MaxArena = 3
  MaxCallArena = 2
  MaxFrames = 4
  OpObjects = 2
  PostludeMayFail = TRUE
  Handles = {h1}
  MaxHolders = 1
  CallbackOperations <- MCCallbackOperations
  Graphs = {}
CHECK_DEADLOCK FALSE
INVARIANTS
  FramesIntact
