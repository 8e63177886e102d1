SPECIFICATION FairSpec
CONSTANTS
  d1 = d1
  d2 = d2
  d3 = d3
  w1 = w1
  w2 = w2
  m1 = m1
  m2 = m2
  None = None
  Deliveries = {d1, d2, d3}
  Workers = {w1, w2}
  Host <- TwoHosts
  Fingerprints = {m1, m2}
  Fingerprint <- LastConflicts
  MaxAttempts = 2
  HandlerErrors = {"retryable", "terminal"}
  MaxFaults = 0
  MaxCrashes = 1
CHECK_DEADLOCK FALSE
INVARIANTS TypeOK
PROPERTIES DeliversAtMostOnce Settles Returns
