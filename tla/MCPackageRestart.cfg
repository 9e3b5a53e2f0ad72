\* A download while an earlier one goes on.
CONSTANTS
  n1 = n1
  n2 = n2
  Hosts <- MCHosts
  JumpNode = NoNode
  Elsewhere <- MCElsewhere
  Setups <- MCDownload
  MaxStarts = 2
SPECIFICATION Spec
INVARIANTS
  RenamedWhenComplete
