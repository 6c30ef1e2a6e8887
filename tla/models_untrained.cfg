\* The models of safety.cfg alone, with DEEPTRUTH_AUDIO_CHECKPOINT exported.
SPECIFICATION SafetySpec
CONSTANTS
  Parts = {"models"}
  Member = {1, 2, 3, 4, 5, 6}
  NoRefusal = NoRefusal
  LIMIT = 2
  WINDOW = 4
  SECOND = 2
  Slow = 1
  Fast = 1
  MaxTime = 9
  s1 = s1
  s2 = s2
  s3 = s3
  p1 = p1
  p2 = p2
  Stream = {s1, s2, s3}
  Process = {p1, p2}
  Home <- TwoHomes
  MAX_CONCURRENT_STREAMS = 2
  TTL = 3
  LIFETIME = 2
  Budget <- AnyFault
  Absent = Absent
  Never = Never
  None = None
  Url = {"page", "cdn", "mirror", "origin"}
  MAX_REDIRECTS = 2
  MIN_DOWNLOAD = 2
  MAX_DOWNLOAD = 3
  MaxSize = 4
  MAX_ATTEMPTS = 2
  u1 = u1
  l1 = l1
  x1 = x1
  x2 = x2
  Case = {u1, l1}
  Upload = {u1}
  Paged = {u1}
  Content = {x1, x2}
  Bytes <- FirstBytes
  MaxDeaths = 1
  MaxChanges = 1
  Deleted = {l1}
  Run = {"r1", "r2"}
  MaxKills = 1
  Forcing = TRUE
  i1 = i1
  i2 = i2
  w1 = w1
  m1 = m1
  m2 = m2
  m3 = m3
  Media = {m1, m2, m3}
  Kind <- KindOf
  Face = {m1}
  Order <- Curriculum
  Part <- Pictures
  Embedded = {i1}
  Crop = {i2}
  Remote <- Folder
  Exported = TRUE
  MaxPerChild = 2
  MaxAttempts = 2
  MaxTasks = 3
  MaxSyncs = 1
  Slug = {"g1", "g2", "f1", "f2", "v1", "v2", "gv", "a1"}
  Group <- GroupOf
  Auc <- Weight
  Steps = 20
  Grid = {0, 1, 13, 20}
  Frames = {0, 5, 6}
  Threshold <- Thresholds
  MIN_FACE_FRAMES = 6
  NO_FACE_WEIGHT <- Fifth
  r1 = r1
  r2 = r2
  f1 = f1
  Clip = {r1, r2, f1}
  Real = {r1, r2}
  Orig <- Origin
  Shuffled <- Dealt
  CapReal = 2
  CapFake = 2
  TrainShare = 34
  ValShare = 34
  MaxFaults = 1
INVARIANTS
  UntrainedIsSilent
CHECK_DEADLOCK FALSE
