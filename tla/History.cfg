CONSTANTS
  m1 = m1
  m2 = m2
  m3 = m3
  m4 = m4
  m5 = m5
  Msgs = {m1, m2, m3, m4, m5}
  RoomMsgs = {m1, m2, m3, m4}
  MaxTime = 3
  Limits <- MCLimits
  DefaultLimit = 2
  MaxLimit = 3
SPECIFICATION FairHistorySpec
INVARIANTS
  HistoryTypeOK
  NoRowTwice
  HiddenByTiesOnly
PROPERTIES
  ReaderEnds
