CONSTANTS
  p1 = p1
  p2 = p2
  p3 = p3
  p4 = p4
  p5 = p5
  Replica <- MCReplica
  InitialConfigs <- AllAtGenesis
  Request <- OneCommand
  Bootstrap <- Followers
  SelfPropose = FALSE
  Unicasts <- AnyMessage
  BatchSize = 1
  QueueSize = 2
  MaxProposals = 6
  MaxTimeouts = 0
  Timers <- NoTimeouts
SPECIFICATION FairSpec
PROPERTY FollowersExecute
PROPERTY TotalOrder
CHECK_DEADLOCK FALSE
