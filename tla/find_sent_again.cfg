SPECIFICATION Spec
CONSTANTS
  w1 = w1
  w2 = w2
  j1 = j1
  j2 = j2
  k1 = k1
  k2 = k2
  t1 = t1
  t2 = t2
  t3 = t3
  t4 = t4
  None = None
  Workers = {w1, w2}
  Jobs = {j1}
  Keys = {k1, k2}
  Tokens = {t1, t2, t3}
  DailyLimit = 2
  MaxAttempts = 3
  Days = 2
  MaxFaults = 0
  MaxCrashes = 0
  MaxRestores = 0
  MaxSlow = 1
CHECK_DEADLOCK FALSE
PROPERTIES NeverSentAgain
