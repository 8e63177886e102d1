SPECIFICATION FairSpec
CONSTANTS
  w1 = w1
  w2 = w2
  j1 = j1
  j2 = j2
  k1 = k1
  k2 = k2
  t1 = t1
  t2 = t2
  t3 = t3
  t4 = t4
  None = None
  Workers = {w1, w2}
  Jobs = {j1}
  Keys = {k1}
  Tokens = {t1, t2, t3}
  DailyLimit = 1
  MaxAttempts = 1
  Days = 1
  MaxFaults = 1
  MaxCrashes = 1
  MaxRestores = 0
  MaxSlow = 1
CHECK_DEADLOCK FALSE
PROPERTIES StoredIsDecided UnusedIsReturned
