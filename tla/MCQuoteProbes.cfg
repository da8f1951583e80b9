SPECIFICATION FairSpec

CONSTANTS
  Evaluations <- MCEvaluations
  Aggregators <- MCAggregators
  Direct = "direct_dex"
  Ops <- MCOps
  MaxConcurrent = 1
  MaxAbandoned = 2
  Threshold = 2
  Settling <- MCSettling

INVARIANTS
  PressureBounded
  CircuitsCount

PROPERTIES
  EvaluationsEnd

\* Every evaluation ends.
CHECK_DEADLOCK FALSE
