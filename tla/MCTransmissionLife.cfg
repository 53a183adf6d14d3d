SPECIFICATION Spec
CONSTANTS
  NoTime = NoTime
  Infinitely = Infinitely
  Panic = Panic
  Id = Id
  MaxInstant = 5
  ClockCycle = 1
  MaxDelayedAge = 1
  Requests <- PlannedSchedules
CHECK_DEADLOCK FALSE
INVARIANTS
  NextIsNthOccurrence
  EndsWhenAllSent
  IInv
