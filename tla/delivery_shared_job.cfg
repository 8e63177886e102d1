SPECIFICATION Spec
CONSTANTS
  d1 = d1
  d2 = d2
  d3 = d3
  w1 = w1
  w2 = w2
  m1 = m1
  m2 = m2
  None = None
  Deliveries = {d1, d2, d3}
  Workers = {w1}
  Host <- OneHost
  Fingerprints = {m1, m2}
  Fingerprint <- OneMessage
  MaxAttempts = 1
  HandlerErrors = {"retryable", "terminal"}
  MaxFaults = 1
  MaxCrashes = 1
CHECK_DEADLOCK FALSE
SYMMETRY AnyOrder
INVARIANTS OneRunnerPerJob RetryBudget AttemptEvidence AnsweredOnlyAfterEffect
PROPERTIES JobOutcomeFinal
