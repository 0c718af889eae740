SPECIFICATION EmptySpec
CONSTANTS
  p1 = p1
  p2 = p2
  good = good
  bad = bad
  Proc = {p1, p2}
  NoReplace = {p1, p2}
  Writers = {p1, p2}
  Digest = {good}
  Broken = {}
  Faults = {}
  Old = Old
  None = None
INVARIANTS ConcurrentMissSucceeds
