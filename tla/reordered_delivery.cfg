CONSTANTS
  p1 = p1
  p2 = p2
  p3 = p3
  p4 = p4
  p5 = p5
  Replica <- MCThree
  InitialConfigs <- ThreeAtGenesis
  Request <- Nothing
  Bootstrap <- LastTwo
  SelfPropose = TRUE
  Unicasts <- AnyMessage
  BatchSize = 1
  QueueSize = 2
  MaxProposals = 4
  MaxTimeouts = 0
  Timers <- NoTimeouts
SPECIFICATION Spec
CHECK_DEADLOCK FALSE
INVARIANT OrderAgreed
