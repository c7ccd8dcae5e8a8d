SPECIFICATION LiveSpec
CONSTANTS
  Placements = {"siteA"}
  Uris = {"acct1"}
  NoUri = "nouri"
  Values = {"v1"}
  MaxLive = 2
  Workers = {"s1", "cA"}
  PlacementOf <- SitePlacement
  ScopeOf <- SiteScope
  Nobody = "nobody"
  MaxJobs = 3
  Provider = "cloudflare"
  ConnectionLoss = FALSE
PROPERTIES
  RetiredNameGoes
  BoundNameBecomesReady
  LiveValueBecomesReady
CHECK_DEADLOCK FALSE
