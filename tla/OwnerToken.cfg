SPECIFICATION Spec
CONSTANTS
  t1 = t1
  t2 = t2
  capped = capped
  free = free
  Threads = {t1, t2}
  Cells = {capped, free}
  Blocks = {b1, b2}
  MaxSize = 2
  MaxNesting = 2
  SoftCap <- MCSoftCap
  HardCap <- MCHardCap
  NoCell = NoCell
  NoBlock = NoBlock
SYMMETRY Symmetric
INVARIANTS
  LedgerExact
  RefsExact
  TokenOutlivesUse
  CapsHeld
  RefusalReported
