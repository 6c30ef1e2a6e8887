\* Two cases of one content, one uploaded and one named by URL, and any one failure.
SPECIFICATION Spec
CONSTANTS
  c1 = c1
  c2 = c2
  w1 = w1
  w2 = w2
  x1 = x1
  v0 = v0
  v1 = v1
  None = None
  Case = {c1, c2}
  UrlCase = {c2}
  Worker = {w1}
  Content = {x1}
  ContentOf <- OneContent
  Verdict = {v0, v1}
  Signalled = {v1}
  MaxAttempts = 2
  MaxFaults = 1
  Budget <- AnyFault
INVARIANTS
  AnnouncedIsDurable
  CacheIsPersisted
