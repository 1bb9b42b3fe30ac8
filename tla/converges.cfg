SPECIFICATION FairSpec
CONSTANTS
  a = a
  b = b
  c = c
  out = out
  other = other
  openapi = openapi
  None = None
  Unstable = Unstable
  OutputNames = {out, other}
  Protocols = {openapi}
  Products = {a, b}
  Manifests <- Cycle
  FlagSets <- EitherFlag
  MaxGeneration = 2
  Disturbances = {"edit", "restart"}
  Touched = {a}
  Elapsing = TRUE
  MaxProducts = 3
  MaxEdges = 4
  MaxDepth = 3
  MaxLineageBytes = 8
CHECK_DEADLOCK FALSE
PROPERTY Converges
