CONSTANTS
  p1 = p1
  p2 = p2
  p3 = p3
  Node <- MCNode
  Unreachable <- Third
  Leader <- FirstTwo
  Timers <- FirstTwo
  MaxProposals = 2
  MaxCloses = 1
SPECIFICATION FairSpec
INVARIANT TypeOK
INVARIANT NoLeak
INVARIANT OneOutstanding
PROPERTY MutexReleased
CHECK_DEADLOCK FALSE
