\* A client that keeps connecting re-arms the expiry of its leaked slot.
SPECIFICATION FairSpec
CONSTANTS
  s1 = s1
  s2 = s2
  s3 = s3
  p1 = p1
  p2 = p2
  Stream = {s1}
  Process = {p1, p2}
  Home <- TwoHomes
  MAX_CONCURRENT_STREAMS = 1
  TTL = 3
  LIFETIME = 2
  Budget <- OneAbandon
  Absent = Absent
  Never = Never
PROPERTY
  LeakedSlotExpires
