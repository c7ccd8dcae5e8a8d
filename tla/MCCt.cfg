SPECIFICATION FairSpec
CONSTANTS
  Workers = {"a", "b"}
  Certs = {"mine", "odd"}
  Own = {"mine"}
  Malformed = {"odd"}
  Limit = 2
  MaxPosition = 2
  MaxWindow = 1
  MaxFailures = 1
INVARIANTS
  NoIssuanceMissed
  DeliveredWasReceived
PROPERTIES
  LagIsReported
  AlertsAreDelivered
CHECK_DEADLOCK FALSE
