SPECIFICATION SafeSpec
CONSTANTS
  Placements = {"siteA", "siteB"}
  Uris = {"acct1", "acct2"}
  NoUri = "nouri"
  Values = {v1, v2, v3}
  MaxLive = 2
  Workers = {"s1", "s2", "cA", "cB"}
  PlacementOf <- SitePlacement
  ScopeOf <- SiteScope
  Nobody = "nobody"
  MaxJobs = 3
  Provider = "cloudflare"
  ConnectionLoss = FALSE
SYMMETRY ValueSymmetry
INVARIANTS
  TypeOK
  NameSettles
  CleanupIsFinal
  MoveNeverOvertakesWrite
  AuthorizationCarriesDenial
  ReadyValueIsPublished
  StoredSetIsPublishable
CHECK_DEADLOCK FALSE
