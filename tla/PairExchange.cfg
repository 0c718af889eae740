SPECIFICATION Spec
CONSTANTS
  r0 = r0
  r1 = r1
  Ranks <- MCRanks
  Root <- MCRoot
  MaxStep = 3
INVARIANTS
  TypeOK
  ExchangesMatch
  GhostRowsCurrent
  AdjointsComplete
  EvaluatesCurrentGraph
  PhaseReleased
PROPERTY
  EvaluationsEnd
CHECK_DEADLOCK FALSE
