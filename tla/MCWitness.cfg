SPECIFICATION Spec
CONSTANTS
  Hosts = {"h1", "h2"}
  Procs = {"old", "new"}
  HostOf <- TwoHosts
  Tasks = {"r1", "r2", "chk"}
  ProcOf <- TwoProcs
  Checkers = {"chk"}
  BootOf <- BootTask
  Nobody = "nobody"
  UseRemote = TRUE
  RemoteAttempts = 2
  MaxCommits = 3
INVARIANTS
  AcknowledgedIsWitnessed
PROPERTIES
  ServedHoldsAcknowledged
  WitnessNeverLowered
CHECK_DEADLOCK FALSE
