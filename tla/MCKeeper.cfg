SPECIFICATION KFairSpec

CONSTANTS
  k = k
  t = t
  u = u
  wallet = wallet
  other = other
  NoTask = NoTask
  NoLoop = NoLoop
  NoFault = NoFault
  Unset = Unset
  Task <- MCTask
  Address <- MCAddress
  AddressOf <- MCAddressOf
  LoopOf <- MCLoopOf
  Responsive <- MCResponsive
  Configs <- MCConfigs

INVARIANTS
  RoutesUsable
  RoutesPreflighted

PROPERTIES
  LoopsGoOn
  ImplementsSerialExecutor

\* The process ends.
CHECK_DEADLOCK FALSE
