SPECIFICATION Spec
CONSTANTS
  LogLevels = {"error", "info"}
  Passwords = {"secret"}
  Absent = Absent
  Malformed = Malformed
  NoConfig = NoConfig
  None = None
  Messages = {m, n}
  ChannelCapacity = 1
  BatchSize = 2
  Deployments <- OnePostgres
  FaultKinds = {"panic"}
  MaxFaults = 1
INVARIANTS
  HealthIsTrue
