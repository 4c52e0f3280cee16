CONSTANTS
  PongWait = 5
  PingPeriod = 1
  WriteWait = 1
  SendTime = 1
  ReplyWait = 2
  PeerDelay = 1
  SendCap = 1
  InboxCap = 1
  MaxFrames = 3
  MaxBroadcasts = 1
SPECIFICATION FairSpec
INVARIANTS
  HealthyPeerKept
  ConnInv
  EndsPromptly
PROPERTIES
  ImplementsOutbox
  ClosedConnectionEnds
