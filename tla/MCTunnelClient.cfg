SPECIFICATION FairSpec
CONSTANTS
  MaxEvents = 4
  Opens = {2, 3, 4}
  EventLen = 2
  MaxFrame = 5
  MaxControlBody = 5
  MaxStreams = 2
  MaxCredential = 2
  MaxFaults = 3
INVARIANTS
  TypeOK
PROPERTIES
  ImplementsControlChannel
  TunnelComesBack
  RetiredTunnelIsReplaced
CHECK_DEADLOCK FALSE
