SPECIFICATION FairSpec

CONSTANTS
  Profile <- MCProfile
  NumCandidates = 3
  MaxColl = 2
  MaxPrice = 2
  TakeablePrice = 1
  MaxEvents = 1
  None = None

INVARIANTS
  FreshFacts
  NoSecondSubmission

PROPERTIES
  RunEnds

\* A run over the candidates of a pool ends.
CHECK_DEADLOCK FALSE
