CONSTANTS
  p1 = p1
  p2 = p2
  p3 = p3
  p4 = p4
  p5 = p5
  Replica <- MCReplica
  InitialConfigs <- AllAtGenesis
  Request <- Changes
  Bootstrap <- Followers
  SelfPropose = FALSE
  Unicasts <- AnyMessage
  BatchSize = 2
  QueueSize = 2
  MaxProposals = 6
  MaxTimeouts = 0
  Timers <- NoTimeouts
SPECIFICATION Spec
INVARIANT TypeOK
INVARIANT RerunOnlyIfFailed
CHECK_DEADLOCK FALSE
