SPECIFICATION Spec
CONSTANTS
  p1 = p1
  p2 = p2
  p3 = p3
  Proc = {p1, p2, p3}
  Here = here
  There = there
  Far = nobody
  HostOf <- MCHostOf
  Faults = {"crash"}
  None = None
PROPERTIES FreshNotStolen
