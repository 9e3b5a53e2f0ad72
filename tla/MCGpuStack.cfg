SPECIFICATION Spec
CONSTANTS
  Hosts = {h1, h2}
  Target = target
  Near = near
  Far = far
  None = none
  MaxRetries = 2
  Sessions <- MCSessions
SYMMETRY Symmetry
INVARIANTS
  TypeOK
  CleanDriverRun
  ResultsTellAll
  FabricWhereNeeded
  NoForeignNvcc
PROPERTY WorkingTargetStays
