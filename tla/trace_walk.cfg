SPECIFICATION Spec
CONSTANTS
  a = a
  b = b
  c = c
  d = d
  e = e
  out = out
  other = other
  openapi = openapi
  None = None
  Unstable = Unstable
  OutputNames = {out, other}
  Protocols = {openapi}
  Products = {a, b, c, d, e}
  Manifests <- Writable
  Worlds <- Assorted
  MaxProducts = 4
  MaxEdges = 5
  MaxDepth = 3
  MaxLineageBytes = 8
  MaxDescriptor = 3
  MaxMetadata = 4
INVARIANT BrowserAccepts
INVARIANT CompleteExact
INVARIANT IssuesAccurate
INVARIANT WalkBounded
PROPERTY Terminates
