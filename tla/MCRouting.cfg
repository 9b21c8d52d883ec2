SPECIFICATION RoutingSpec
CONSTANTS
  Files <- MCFiles
  Contents <- MCContents
  Hardcoded <- MCHardcoded
  Categories = {"", "alpha", "beta", "debugging"}
  Aliases <- MCAliases
  Default = "default"
  Polymorphic = "polymorphic-agent"
INVARIANTS
  RoutingTypeOK
  SurfacesAgree
  MatchesHaveContexts
