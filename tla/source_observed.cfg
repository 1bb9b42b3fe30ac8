SPECIFICATION Spec
CONSTANTS
  None = None
  Selections <- AllSelections
  MaxUid = 2
  MaxGeneration = 2
  MaxEvents = 3
INVARIANT ReadyMeansOneSource
INVARIANT ReadyIsCurrent
INVARIANT LateNeverReady
PROPERTY SettledSourceReady
