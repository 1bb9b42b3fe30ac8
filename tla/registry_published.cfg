SPECIFICATION Spec
CONSTANTS
  a = a
  b = b
  c = c
  out = out
  other = other
  openapi = openapi
  None = None
  Unstable = Unstable
  OutputNames = {out, other}
  Protocols = {openapi}
  Products = {a, b}
  Manifests <- Publications
  FlagSets <- Composing
  MaxGeneration = 2
  Disturbances = {"edit", "facts", "finalize"}
  Touched = {a}
  Elapsing = FALSE
  MaxProducts = 3
  MaxEdges = 4
  MaxDepth = 3
  MaxLineageBytes = 8
CHECK_DEADLOCK FALSE
INVARIANT NoLostWakeup
INVARIANT DescriptorAdmitted
INVARIANT ReadinessConsistent
