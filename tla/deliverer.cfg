CONSTANTS
  p1 = p1
  p2 = p2
  p3 = p3
  p4 = p4
  p5 = p5
  Replica <- MCReplica
  Genesis <- MCGenesis
  Pool <- MCPool
  MaxExecuted = 6
SPECIFICATION Spec
INVARIANT TypeOK
INVARIANT ConfigsChained
INVARIANT RerunOnlyIfFailed
INVARIANT QuorumsOverlap
INVARIANT InstalledOncePerBlock
CHECK_DEADLOCK FALSE
