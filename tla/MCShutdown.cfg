SPECIFICATION FairRestartSpec
CONSTANTS
  LogLevels = {"error", "info"}
  Passwords = {"secret"}
  Absent = Absent
  Malformed = Malformed
  NoConfig = NoConfig
  None = None
  Messages = {m, n}
  ChannelCapacity = 1
  BatchSize = 2
  Deployments <- OnePostgres
  FaultKinds = {"signal"}
  MaxFaults = 1
PROPERTIES
  StopLosesNothing
