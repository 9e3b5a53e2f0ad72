\* Every plan of three definitions over three names, the first
\* of them on two nodes.
CONSTANTS
  a = a
  b = b
  c = c
  n1 = n1
  n2 = n2
  NoName = NoName
  Names <- MCNames
  Nodes = {n1, n2}
  Plans <- MCPlans
SPECIFICATION Spec
INVARIANTS
  RefusedIffWrong
  DependenciesFirst
  StatusTellsFailure
PROPERTIES
  ImplementsContract
