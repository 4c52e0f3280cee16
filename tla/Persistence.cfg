CONSTANTS
  m1 = m1
  m2 = m2
  m3 = m3
  m4 = m4
  Msgs = {m1, m2, m3, m4}
  QueueCap = 2
  BatchSize = 2
SPECIFICATION FairSpec
INVARIANTS
  PipelineInv
  NoSendOnClosed
  NoSilentLoss
PROPERTIES
  CloseReturns
  ImplementsWriteBehind
