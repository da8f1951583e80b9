SPECIFICATION LpSpec
CONSTANTS
  e1 = e1
  e2 = e2
  e3 = e3
  e4 = e4
  e5 = e5
  b1 = b1
  b2 = b2
  p1 = p1
  p2 = p2
  NoBucket = NoBucket
  NoPool = NoPool
  Events <- MCEvents
  Buckets <- MCBuckets
  Pools <- MCPools
  BucketOf <- MCBucketOf
  PoolOf <- MCPoolOf
  Amount <- MCAmount
  Kind <- MCKind
  LpEnvironments <- MCEnvironments
  MaxTime = 3
  Lookback = 1
  MaxAvail = 2
  MaxAttempts = 2
  MaxRetry = 2
INVARIANTS
  CreditedOnce
  NoneMissed
  PrincipalKept
  EveryTokenAccounted
PROPERTIES
  EntriesDrain
