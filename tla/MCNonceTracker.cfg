SPECIFICATION FairSpec

CONSTANTS
  Scenario <- MCScenario
  MaxNonce = 3
  None = None

INVARIANTS
  FreshNonce
  NoHole

PROPERTIES
  TurnEnds

\* MaxNonce ends the model where the code goes on.
CHECK_DEADLOCK FALSE
