SPECIFICATION Spec
CONSTANTS
  Queries = {q1, q2}
  Probes = {p1}
  Scrapes = {s1}
  QuerySlots = 1
  ProbeSlots = 1
  Failures = {"upstream_error"}
  None = None
INVARIANT TypeOK
INVARIANT AbandonedNeverObserved
PROPERTY BusyOnlyWhenFull
PROPERTY AllAnswered
PROPERTY HealthSampled
