\* Two datasets, four epochs; one scan, two passes, two suspensions; two streams that leak; one case, two faults; three files.
SPECIFICATION ProgressSpec
CONSTANTS
  Parts = {"training", "extension", "streams", "console", "queue"}
  d1 = d1
  d2 = d2
  Order <- Curriculum
  Top = 2
  TARGET = 2
  EPOCHS_MAX = 4
  EARLY_STOP_PAT = 2
  MIN_EPOCHS = 3
  BATCH_SIZE = 4
  NaN = NaN
  c1 = c1
  p1 = p1
  p2 = p2
  s1 = s1
  s2 = s2
  h1 = h1
  h2 = h2
  Scan = {c1}
  Pass = {p1, p2}
  MaxSuspends = 2
  None = None
  Stream = {s1, s2}
  Process = {h1, h2}
  Home <- TwoHomes
  MAX_CONCURRENT_STREAMS = 1
  TTL = 3
  LIFETIME = 2
  Budget <- AnyFault
  Absent = Absent
  Never = Never
  Script <- Lines
  MaxFaults = 1
  MaxLost = 2
  MaxOpens = 2
  Tasks = 3
  Threads = {"first", "second"}
  max_records = 1
INVARIANTS
  TypesOK
  MarkedHasBest
  OutcomesAreReal
  StreamShowsRecord
  EveryFileRan
PROPERTIES
  RunsEnd
  ScansSettle
  PollingStops
  IdleHeals
  VerdictSeen
CHECK_DEADLOCK FALSE
