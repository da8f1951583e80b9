SPECIFICATION RouteSpec
CONSTANTS
  Wad = 3
  Setups <- MCSetups
  Orders <- MCOrders
  MaxStray = 1
  Outs = {0, 2, 3, 5, 6}
  Router = "venue"
  BandNum = 1
  BandDen = 4
  MaxImpact = 1
  Exchanges <- MCExchanges
  RejectFees = FALSE
  ExecutorsListed = FALSE
  Deployments <- MCDeployments
  OwnersEntries <- MCOwnersEntries
  Auctions <- MCAuctions
  Mins = {3, 5}
  MaxAge = 1
  MaxOwnerCalls = 1
INVARIANTS
  PullCovered
  UnitFloorKept
  NeverRefused
  SentAsApproved
  OutcomeOnce
  FloorRepays
