SPECIFICATION FairSpec
CONSTANTS
  NoTime = NoTime
  Infinitely = Infinitely
  Panic = Panic
  Unused = Unused
  None = None
  MaxInstant = 2
  ClockCycle = 1
  MaxDelayedAge = 1
  Ids = {i1, i2, i3}
  Requests <- Mixed
  BatchSize = 2
  FaultKinds = {"crash", "publish"}
  MaxFaults = 1
  MaxClock = 2
INVARIANTS
  EntriesMatchSent
  BatchIsFresh
  IInv
PROPERTIES
  ImplementsDelivery
  OverdueIsSent
CHECK_DEADLOCK FALSE
