SPECIFICATION FairSpec
CONSTANTS
  LogLevels = {"error", "info"}
  Passwords = {"secret"}
  Absent = Absent
  Malformed = Malformed
  NoConfig = NoConfig
  None = None
  Messages = {m, n, o}
  ChannelCapacity = 1
  BatchSize = 2
  Deployments <- AllDeployments
  FaultKinds = {"start", "bind", "metrics", "signal", "crash", "break",
                "publish", "database", "panic"}
  MaxFaults = 2
INVARIANTS
  TypeOK
  OnePlace
  IInv
PROPERTIES
  SignalEndsProcess
  DueIsReceived
CHECK_DEADLOCK FALSE
