SPECIFICATION FairSpec
CONSTANTS
  p1 = p1
  p2 = p2
  p3 = p3
  good = good
  bad = bad
  Proc = {p1, p2, p3}
  NoReplace = {p1}
  Writers = {p1, p2}
  Digest = {bad}
  Broken = {bad}
  Faults = {"crash", "compile", "timeout"}
  Old = Old
  None = None
INVARIANTS LockedEntryStable
PROPERTIES LoopEnds
