SPECIFICATION Spec
CONSTANTS
  d1 = d1
  d2 = d2
  d3 = d3
  w1 = w1
  w2 = w2
  m1 = m1
  m2 = m2
  None = None
  Deliveries = {d1, d2, d3}
  Workers = {w1, w2}
  Host <- TwoHosts
  Fingerprints = {m1, m2}
  Fingerprint <- OneMessage
  MaxAttempts = 1
  HandlerErrors = {"terminal"}
  MaxFaults = 0
  MaxCrashes = 0
CHECK_DEADLOCK FALSE
INVARIANTS AtMostOneEffect
