SPECIFICATION Spec
CONSTANTS
  b1 = b1
  b2 = b2
  Borrowers = {b1, b2}
  NoBorrower = NoBorrower
  MinAge = 2
  Window = 1
  IdleCycles = 2
  MaxIterations = 2
  MaxParts = 2
  MaxBonds = 2
  Environments <- MCEnvironments
INVARIANTS
  OneSettlerEach
  CacheHidesNothing
PROPERTIES
  BadDebtSettled
  BondReturned
