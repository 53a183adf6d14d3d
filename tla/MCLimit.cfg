SPECIFICATION Spec
CONSTANTS
  NoTime = NoTime
  Infinitely = Infinitely
  Panic = Panic
  Unused = Unused
  None = None
  MaxInstant = 5
  ClockCycle = 1
  MaxDelayedAge = 1
  Ids = {i1, i2}
  Replicas = {p, q}
  Requests <- OneDelayed
  ClockSteps <- ForwardClock
  Precision = 1
  BatchSize = 1
  ResetState = FALSE
  FaultKinds = {}
  MaxFaults = 0
  MaxClock = 1
INVARIANTS
  LockedRowIsHeld
