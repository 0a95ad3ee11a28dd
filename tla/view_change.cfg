CONSTANTS
  p1 = p1
  p2 = p2
  p3 = p3
  p4 = p4
  p5 = p5
  Replica <- MCFive
  InitialConfigs <- AllOrMostAtOne
  Request <- Commands
  Bootstrap <- Nobody
  SelfPropose = FALSE
  Unicasts <- AnyMessage
  BatchSize = 1
  QueueSize = 2
  MaxProposals = 5
  MaxTimeouts = 2
  Timers <- FirstTwice
SPECIFICATION Spec
INVARIANT NewViewsDistinct
INVARIANT WithinConfiguration
INVARIANT RequestsConserved
INVARIANT CertificatesValid
PROPERTY TotalOrder
CHECK_DEADLOCK FALSE
