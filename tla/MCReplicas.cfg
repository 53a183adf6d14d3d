SPECIFICATION Spec
CONSTANTS
  NoTime = NoTime
  Infinitely = Infinitely
  Panic = Panic
  Unused = Unused
  None = None
  MaxInstant = 5
  ClockCycle = 1
  MaxDelayedAge = 1
  Ids = {i1, i2}
  Replicas = {p, q}
  Requests <- OneOffAndEndless
  ClockSteps <- AnyClock
  Precision = 1
  BatchSize = 1
  ResetState = FALSE
  FaultKinds = {"crash", "publish", "database"}
  MaxFaults = 2
  MaxClock = 3
SYMMETRY Symmetry
INVARIANTS
  HeldOnce
  UnlockedMatchesSent
  SavedKeyIsFresh
PROPERTIES
  TableIsLog
  ImplementsDelivery
