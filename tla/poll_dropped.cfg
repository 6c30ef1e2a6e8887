\* Two scans and no suspension: a handler drops a scan another has just added.
SPECIFICATION FairSpec
CONSTANTS
  c1 = c1
  c2 = c2
  p1 = p1
  p2 = p2
  Scan = {c1, c2}
  Pass = {p1}
  MaxSuspends = 0
  None = None
PROPERTY
  ShownScansSettle
CHECK_DEADLOCK FALSE
