SPECIFICATION Spec
CONSTANTS
  j1 = j1
  j2 = j2
  j3 = j3
  r1 = r1
  r2 = r2
  w1 = w1
  w2 = w2
  t1 = t1
  k1 = k1
  k2 = k2
  Jobs = {j1, j2, j3}
  Records = {r1}
  Keys = {k1}
  Payload <- PriorityTalk
  MaxRetries = 1
  IngestWorkers = {w1}
  ReviewWorkers = {w1, w2}
  Tools = {}
  QueueDepth = 2
  JobLimit = 3
  MergeLimit = 3
  CandidateLimit = 2
  RecordLimit = 2
  Conflicts = {}
  AutoWrite = TRUE
  MayCrash = TRUE
  FaultAt = {}
SYMMETRY RecordSymmetry
INVARIANT RecordHeldByOne
INVARIANT MergedIsOneTalk
