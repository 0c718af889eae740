SPECIFICATION Spec
CONSTANTS
  p1 = p1
  p2 = p2
  good = good
  bad = bad
  Proc = {p1, p2}
  NoReplace = {p1}
  Writers = {p1, p2}
  Digest = {good, bad}
  Broken = {bad}
  Faults = {"crash", "damage", "compile", "timeout"}
  Old = Old
  None = None
INVARIANTS TypeOK VisibleIsComplete StagingRemoved EvidenceDiscarded TwoLoadsAtMost
PROPERTIES NeverReplaced SparesNewer ImplementsStore
