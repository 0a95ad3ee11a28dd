CONSTANTS
  p1 = p1
  c1 = c1
  c2 = c2
  Replica <- MCReplica
  Rank <- MCRank
  Wide = 16
  Caller <- MCCaller
  Height <- MCHeight
  MaxCalls = 4
SPECIFICATION FairSpec
INVARIANT TypeOK
INVARIANT TornScoreDefined
INVARIANT NothingLost
PROPERTY CallsReturn
CHECK_DEADLOCK FALSE
