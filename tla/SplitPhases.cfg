SPECIFICATION FairSpec
CONSTANTS
  j1 = j1
  j2 = j2
  j3 = j3
  r1 = r1
  r2 = r2
  w1 = w1
  w2 = w2
  t1 = t1
  k1 = k1
  k2 = k2
  Jobs = {j1}
  Records = {r1, r2}
  Keys = {k1}
  Payload <- SameTalk
  MaxRetries = 1
  IngestWorkers = {w1}
  ReviewWorkers = {w2}
  Tools = {}
  QueueDepth = 1
  JobLimit = 2
  MergeLimit = 2
  CandidateLimit = 2
  RecordLimit = 2
  Conflicts = {}
  AutoWrite = TRUE
  MayCrash = FALSE
  FaultAt = {}
PROPERTY SettledJobEnds
