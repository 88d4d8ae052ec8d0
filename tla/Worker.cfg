SPECIFICATION Spec
INVARIANTS
  ReapedOnReturn
  DescriptorsClosed
  NoStraySignal
  KillSparesFinished
  ReportIsWhole
PROPERTIES
  RunReturns
  OrphanEnds
