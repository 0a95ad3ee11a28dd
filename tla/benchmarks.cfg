CONSTANTS
  p1 = p1
  p2 = p2
  p3 = p3
  p4 = p4
  p5 = p5
  p6 = p6
  p7 = p7
  Replica <- MCReplica
  Rank <- MCRank
  Wide = 65536
  Clusters <- MCClusters
  Batches <- MCBatches
  MaxView = 7
  MaxResets = 1
SPECIFICATION Spec
INVARIANT TypeOK
INVARIANT DeliveredBehind
INVARIANT EveryoneVouches
INVARIANT CertificatesValidate
INVARIANT FaultyLeadOnce
INVARIANT FailuresBounded
INVARIANT LeadersBalanced
CHECK_DEADLOCK FALSE
