SPECIFICATION LiveSpec
CONSTANTS
  Placements = {"siteA"}
  Uris = {"acct1"}
  NoUri = "nouri"
  Values = {"v1"}
  MaxLive = 2
  Workers = {"cA", "cA2"}
  PlacementOf <- SitePlacement
  ScopeOf <- SiteScope
  Nobody = "nobody"
  MaxJobs = 2
  Provider = "route53"
  ConnectionLoss = TRUE
PROPERTIES
  LiveValueBecomesReady
CHECK_DEADLOCK FALSE
