SPECIFICATION LiveSpec
CONSTANTS
  j1 = j1
  w1 = w1
  w2 = w2
  c1 = c1
  o1 = o1
  Jobs = {j1}
  Workers = {w1}
  Commands = {c1}
  Operators = {o1}
  NextCron <- LeapCron
  NoTick = NoTick
  NoRun = NoRun
  MaxRetries = 1
  Backoff = 1
  Horizon = 3
  RetryCap = 3
  MaxDeaths = 1
  MaxSwitches = 1
INVARIANT TypeOK
INVARIANT JobRunByOne
INVARIANT RunningIsRun
INVARIANT OffStaysOff
INVARIANT RetriesMatchStatus
PROPERTY DueJobRuns
CHECK_DEADLOCK FALSE
