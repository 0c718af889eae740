SPECIFICATION Spec
CONSTANTS
  Graphs <- MCGraphs
  FreeBytes <- MCFreeBytes
  Confs <- MCConfs
  DebugPlans <- MCDebugPlans
  Cost <- MCCost
  Total = 64
  MinReserve = 2
  ReserveShare = 20
  Limit = 2
  Threshold = 6
  MinSlack = 1
  Denominator = 6
  MaxInt = 12
  MaxPrepared = 3
INVARIANT
  StateDistinct
