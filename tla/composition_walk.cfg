SPECIFICATION Spec
CONSTANTS
  a = a
  b = b
  c = c
  d = d
  e = e
  out = out
  other = other
  openapi = openapi
  sql = sql
  None = None
  Unstable = Unstable
  OutputNames = {out, other}
  Protocols = {openapi, sql}
  Products = {a, b, c, d, e}
  Manifests <- Writable
  Worlds <- Assorted
  MaxProducts = 4
  MaxEdges = 5
  MaxDepth = 3
  MaxLineageBytes = 4
  Alphabet <- Abc
  MaxSources = 3
  MaxDocuments = 6
  MaxDetails = 2
INVARIANT TypeOK
INVARIANT VerdictExact
INVARIANT ReasonAccurate
INVARIANT HeightsExact
INVARIANT WalkBounded
INVARIANT ReviewAgrees
INVARIANT ReportAccepted
PROPERTY Terminates
