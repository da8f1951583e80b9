SPECIFICATION FairApprovalSpec
CONSTANTS
  Course <- MCCourse
  Amounts = {48, 70}
  Slip = 20
  GasPrices = {1, 2}
  GasLimit = 1
  Rates = {2, 3}
  RateUnit = 2
  Wad = 10
  FactorNum = 9
  FactorDen = 10
  BufferNum = 3
  BufferDen = 2
  Ttl = 0
  Long = 1
  Short = 0
  MaxEntries = 1
  Environments <- MCEnvironments
INVARIANTS
  SentCoversCosts
  GasReadSinceRevalidation
  RateIsRecent
PROPERTIES
  ApprovalEnds
\* The keeper stops when the auction is over.
CHECK_DEADLOCK FALSE
