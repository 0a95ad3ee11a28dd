CONSTANTS
  p1 = p1
  p2 = p2
  p3 = p3
  p4 = p4
  p5 = p5
  Replica <- MCReplica
  InitialConfigs <- AllAtGenesis
  Request <- Nothing
  Bootstrap <- Followers
  SelfPropose = TRUE
  Unicasts <- AnyMessage
  BatchSize = 1
  QueueSize = 2
  MaxProposals = 3
  MaxTimeouts = 0
  Timers <- NoTimeouts
SPECIFICATION Spec
INVARIANT CertificatesBacked
CHECK_DEADLOCK FALSE
