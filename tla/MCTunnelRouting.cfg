SPECIFICATION BoundedSpec
CONSTANTS
  Installations = {"i1", "i2"}
  Hosts = {"h1", "h2"}
  HostOf <- OwnHost
  Gateways = {"gA"}
  Conns = {"c1", "c2"}
  GatewayOf <- OneGateway
  Browsers = {"b1"}
  SiteOf <- OneSite
  SniOf <- AskForH1
  MaxGeneration = 4
INVARIANTS
  ExactRouting
  TicketClaimedOnce
  NoAttachAfterFence
PROPERTY
  DisplacedOnlyByNewer
CHECK_DEADLOCK FALSE
