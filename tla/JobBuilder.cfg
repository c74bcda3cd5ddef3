CONSTANTS
  Lowered <- CapitalWeb
  Template <- OneTemplate
  Requests <- AllRequests
  AppID = "id"
  MaxName = 3
  MaxFailures = 1
SPECIFICATION Spec
INVARIANTS
  ValidIsBuilt
  DependenciesFirst
  MountsResolve
  RefsFollowClones
  CleanupCovers
