\* A SQLite call outside the try block raises: the case stays 'processing'.
SPECIFICATION Spec
CONSTANTS
  c1 = c1
  c2 = c2
  w1 = w1
  w2 = w2
  x1 = x1
  v0 = v0
  v1 = v1
  None = None
  Case = {c1}
  UrlCase = {}
  Worker = {w1}
  Content = {x1}
  ContentOf <- OneContent
  Verdict = {v0, v1}
  Signalled = {v1}
  MaxAttempts = 2
  MaxFaults = 1
  Budget <- OnlySqlite
INVARIANT
  NothingStranded
