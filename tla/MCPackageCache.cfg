\* Two starts under every setup; the second node is the jump host.
CONSTANTS
  n1 = n1
  n2 = n2
  Hosts <- MCHosts
  JumpNode = n2
  Elsewhere <- MCElsewhere
  Setups <- MCSetups
  MaxStarts = 2
SPECIFICATION FairSpec
INVARIANTS
  DestComplete
  HandedOutComplete
PROPERTIES
  ImplementsContract
  ClientReturns
  StallDetected
