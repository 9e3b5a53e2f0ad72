SPECIFICATION Spec
CONSTANTS
  Hosts = {h1, h2}
  Target = target
  Near = near
  Far = far
  None = none
  MaxRetries = 1
  Sessions <- NouveauOnly
SYMMETRY Symmetry
INVARIANT NouveauDisabled
