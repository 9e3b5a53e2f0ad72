SPECIFICATION Spec
CONSTANTS
  Hosts = {h1, h2}
  h1 = h1
  h2 = h2
  Table <- AllSteps
  LiveFacts <- MCLive
  Sessions <- MCSessions
  Clusters <- MCClusters
  Sound <- MCSound
INVARIANTS
  NoFalsePass
  DownHostShows
CHECK_DEADLOCK FALSE
