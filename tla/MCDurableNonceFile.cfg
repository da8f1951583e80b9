SPECIFICATION FairSpec

CONSTANTS
  Procs <- MCProcs
  NoProc = "nobody"
  MaxFloor = 2
  Environments <- MCSound

INVARIANTS

PROPERTIES
  ImplementsNonceFloors
  WritesResume
