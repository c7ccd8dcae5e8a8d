SPECIFICATION Spec
CONSTANTS
  Installations = {"i1"}
  Hosts = {"h1"}
  HostOf <- OwnHost
  Gateways = {"gA", "gB"}
  Conns = {"a1", "b1"}
  GatewayOf <- TwoGateways
  Browsers = {"br"}
  SiteOf <- AtGatewayA
  SniOf <- AskForH1
  MaxGeneration = 4
INVARIANT
  RotationFencesOldSessions
CHECK_DEADLOCK FALSE
