SPECIFICATION Spec
CONSTANTS
  j1 = j1
  w1 = w1
  w2 = w2
  c1 = c1
  o1 = o1
  Jobs = {j1}
  Workers = {w1, w2}
  Commands = {}
  Operators = {}
  NextCron <- LeapCron
  NoTick = NoTick
  NoRun = NoRun
  MaxRetries = 1
  Backoff = 1
  Horizon = 3
  RetryCap = 3
  MaxDeaths = 1
  MaxSwitches = 1
PROPERTY ClaimsWhatItSaw
CHECK_DEADLOCK FALSE
