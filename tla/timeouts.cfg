CONSTANTS
  p1 = p1
  p2 = p2
  p3 = p3
  p4 = p4
  p5 = p5
  Replica <- MCReplica
  InitialConfigs <- AllAtGenesis
  Request <- Nothing
  Bootstrap <- Followers
  SelfPropose = FALSE
  Unicasts <- AnyMessage
  BatchSize = 1
  QueueSize = 2
  MaxProposals = 5
  MaxTimeouts = 1
  Timers <- FirstTwoOnce
SPECIFICATION Spec
INVARIANT CommitOnChain
INVARIANT LocksOnChain
CHECK_DEADLOCK FALSE
