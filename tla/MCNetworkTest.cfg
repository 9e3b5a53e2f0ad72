SPECIFICATION Spec
CONSTANTS
  h1 = h1
  h2 = h2
  h3 = h3
  h4 = h4
  Number <- MCNumber
  Clusters <- MCClusters
  PortBase = 18500
  MaxWorkers = 4
  MaxLost = 1
INVARIANTS
  BrokenNeverNormal
  SingleFaultLocated
