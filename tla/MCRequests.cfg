SPECIFICATION FairSpec
CONSTANTS
  NoTime = NoTime
  Infinitely = Infinitely
  Panic = Panic
  None = None
  Absent = Absent
  Malformed = Malformed
  MaxSubjectLength = 2
  MaxInstant = 3
  ClockCycle = 1
  MaxDelayedAge = 1
  Clients = {k}
  Calls = {c1, c2, c3}
  Requests <- AllRequests
  FaultKinds = {"database", "reply", "stop"}
  MaxFaults = 2
  MaxClock = 2
INVARIANTS
  TypeOK
  AnswersAreTrue
  IInv
PROPERTIES
  ClientsGetToKnow
CHECK_DEADLOCK FALSE
