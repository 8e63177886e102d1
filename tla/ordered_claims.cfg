SPECIFICATION FairSpec
CONSTANTS
  d1 = d1
  d2 = d2
  d3 = d3
  m1 = m1
  m2 = m2
  None = None
  Deliveries = {d1, d3}
  Messages = {m1, m2}
  Message <- Redelivered
  Sequence <- Successive
  MaxAttempts = 2
  HandlerErrors = {"retryable"}
  MaxFaults = 1
  MaxCrashes = 1
  MaxSkews = 0
CHECK_DEADLOCK FALSE
PROPERTIES ClaimEnds
