CONSTANTS
  w1 = w1
  w2 = w2
  w3 = w3
  r1 = r1
  Workers = {w1, w2}
  RoomOf <- MCOneRoom
  MaxSeq = 2
  None = None
SPECIFICATION FairSpec
INVARIANTS
  OneSamplePerMessage
  LoadInv
  ReportIsComplete
PROPERTIES
  TestEnds
