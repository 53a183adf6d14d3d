SPECIFICATION MSpec
CONSTANTS
  NoTime = NoTime
  Infinitely = Infinitely
  Panic = Panic
  Unused = Unused
  None = None
  MaxInstant = 2
  ClockCycle = 1
  MaxDelayedAge = 1
  Ids = {i1, i2}
  Replicas = {p, q}
  Requests <- EndlessOnes
  ClockSteps <- ForwardClock
  Precision = 1
  BatchSize = 2
  ResetState = FALSE
  FaultKinds = {"crash", "publish", "database"}
  MaxFaults = 2
  MaxClock = 2
  MaxPolls = 2
SYMMETRY Symmetry
INVARIANTS
  MessagesAreCounted
  LossIsCounted
CHECK_DEADLOCK FALSE
