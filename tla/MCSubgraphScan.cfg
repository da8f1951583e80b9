SPECIFICATION FairScanSpec
CONSTANTS
  p1 = p1
  p2 = p2
  u1 = u1
  u2 = u2
  Urls = {u1, u2}
  Threshold = 2
  Rest = 1
  PageSize = 1
  MaxPages = 2
  Rank <- MCRank
  Deployments <- MCDeployments
  Pools = {p1, p2}
  NoPool = NoPool
  Window = 1
  Interval = 2
  RetryAfter = 1
  Ttl = 1
  Cooldown = 1
  Environments <- MCEnvironments
INVARIANTS
  TargetsFresh
PROPERTIES
  LoadedNotSkipped
  DiscoveredSettled
