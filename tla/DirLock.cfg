SPECIFICATION FairSpec
CONSTANTS
  p1 = p1
  p2 = p2
  p3 = p3
  Proc = {p1, p2, p3}
  Here = here
  There = there
  Far = p3
  HostOf <- MCHostOf
  Faults = {"crash", "age", "timeout"}
  None = None
INVARIANTS TypeOK Exclusion LeftFree
PROPERTIES CrashRecovered
