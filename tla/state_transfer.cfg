CONSTANTS
  p1 = p1
  p2 = p2
  p3 = p3
  p4 = p4
  Replica <- MCReplica
  Asked <- Four
  Common <- MCCommon
  Chain <- OneForked
  Start <- TwoStarted
  OwnConf = 0
  MaxConf = 1
SPECIFICATION Spec
INVARIANT TypeOK
INVARIANT HistoryHeld
INVARIANT QuorumCovered
INVARIANT SettledSucceeds
CHECK_DEADLOCK FALSE
