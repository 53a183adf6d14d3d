SPECIFICATION FairSpec
CONSTANTS
  NoTime = NoTime
  Infinitely = Infinitely
  Panic = Panic
  Unused = Unused
  None = None
  MaxInstant = 5
  ClockCycle = 1
  MaxDelayedAge = 1
  Ids = {i1, i2}
  Replicas = {p, q}
  Requests <- OneOffAndEndless
  ClockSteps <- ForwardClock
  Precision = 2
  BatchSize = 2
  ResetState = FALSE
  FaultKinds = {}
  MaxFaults = 0
  MaxClock = 3
INVARIANTS
  LockedRowIsHeld
PROPERTIES
  ImplementsFairDelivery
