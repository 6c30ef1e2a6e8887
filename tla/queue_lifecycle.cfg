\* Two cases, two workers, a user who deletes, no failure: the queue implements the abstract case.
SPECIFICATION FairSpec
CONSTANTS
  c1 = c1
  c2 = c2
  w1 = w1
  w2 = w2
  x1 = x1
  v0 = v0
  v1 = v1
  None = None
  Case = {c1, c2}
  UrlCase = {c2}
  Worker = {w1, w2}
  Content = {x1}
  ContentOf <- OneContent
  Verdict = {v0, v1}
  Signalled = {v1}
  MaxAttempts = 2
  MaxFaults = 1
  Budget <- OnlyDelete
PROPERTY
  ImplementsLifecycle
