SPECIFICATION Spec
CONSTANTS
  A = A
  B = B
  a1 = a1
  a2 = a2
  b1 = b1
  Pools = {A, B}
  Loans = {a1, a2, b1}
  NoPool = NoPool
  NoLoan = NoLoan
  PoolOf <- MCPoolOf
  MaxBond = 2
  ZeroCycles = 1
  Environments <- MCEnvironments
INVARIANTS
  TotalCapHolds
