SPECIFICATION Spec
CONSTANTS
  NoTime = NoTime
  Infinitely = Infinitely
  Panic = Panic
  Unused = Unused
  None = None
  MaxInstant = 3
  ClockCycle = 1
  MaxDelayedAge = 1
  Ids = {i1}
  Replicas = {p, q}
  Requests <- AllSchedules
  ClockSteps <- AnyClock
  Precision = 2
  BatchSize = 2
  ResetState = TRUE
  FaultKinds = {"crash", "publish", "database"}
  MaxFaults = 2
  MaxClock = 3
SYMMETRY Symmetry
INVARIANTS
  TypeOK
  IInv
  LockedIsPast
PROPERTIES
  ImplementsDelivery
CHECK_DEADLOCK FALSE
