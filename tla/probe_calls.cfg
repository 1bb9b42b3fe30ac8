SPECIFICATION Spec
CONSTANTS
  Probes = {p1, p2}
  Scrapes = {s1, s2}
  Failures = {"ContractUnavailable"}
  None = None
INVARIANT AbandonedNeverObserved
INVARIANT LatestShown
PROPERTY AllAnswered
PROPERTY HealthSampled
