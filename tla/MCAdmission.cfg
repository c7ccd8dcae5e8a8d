SPECIFICATION Spec
CONSTANTS
  Clients = {c1, c2}
  NoClient = noclient
  Operations = {o1, o2}
  NoOperation = nooperation
  Handlers = {h1, h2}
  Nobody = nobody
  PlacementOf <- OnePlacement
  Placements = {"siteA", "siteB"}
  Local = 2
  Global = 2
  Daily = 1
  Minute = 2
  Day = 2
  Retention = 4
  MaxStall = 1
  MaxChallenges = 3
  MaxInstallations = 2
  MaxTime = 6
SYMMETRY Symmetric
INVARIANTS
  TypeOK
  IssuanceWithinQuota
  EnrolmentsPerDayBounded
  OneInstallationPerOperation
  ReceiptNamesOwnInstallation
CHECK_DEADLOCK FALSE
