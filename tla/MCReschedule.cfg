SPECIFICATION Spec
CONSTANTS
  NoTime = NoTime
  Infinitely = Infinitely
  Panic = Panic
  Unused = Unused
  None = None
  MaxInstant = 5
  ClockCycle = 1
  MaxDelayedAge = 1
  Ids = {i1}
  Replicas = {p}
  Requests <- OneDelayed
  ClockSteps <- ForwardClock
  Precision = 1
  BatchSize = 2
  ResetState = FALSE
  FaultKinds = {"publish"}
  MaxFaults = 1
  MaxClock = 3
PROPERTIES
  RescheduleReleases
