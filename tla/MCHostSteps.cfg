SPECIFICATION Spec
CONSTANTS
  Hosts = {h1, h2}
  h1 = h1
  h2 = h2
  None = none
  HostOrder <- MCOrder
  Table <- AllSteps
  SharedFacts <- FilesShared
  ServedFacts <- ServerFacts
  LiveFacts <- Volatile
  BootRules <- AtBoot
  Roles <- HostRoles
  Common <- ClusterWide
  Sessions <- MCSessions
  Verified <- MCVerified
  Examined <- MCExamined
  Healing <- MCHealing
  Lasting <- MCLasting
  Backing <- Backed
INVARIANTS
  TypeOK
  SuccessMeansDone
  PassedOverMeansDone
  CleanCallWorks
PROPERTIES
  NothingUndone
  DataKept
