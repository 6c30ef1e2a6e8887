\* One case, two workers, any two failures of any kind.
SPECIFICATION RunsSpec
CONSTANTS
  c1 = c1
  c2 = c2
  w1 = w1
  w2 = w2
  x1 = x1
  v0 = v0
  v1 = v1
  None = None
  Case = {c2}
  UrlCase = {c2}
  Worker = {w1, w2}
  Content = {x1}
  ContentOf <- OneContent
  Verdict = {v0, v1}
  Signalled = {v1}
  MaxAttempts = 3
  MaxFaults = 2
  Budget <- AnyFault
SYMMETRY Workers
INVARIANTS
  TypeOK
  OneBatch
  SettledShowsItsRows
  CrashSafe
  NoConcurrentRuns
  RunsPerCrash
