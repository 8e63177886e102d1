SPECIFICATION Spec
CONSTANTS
  d1 = d1
  d2 = d2
  d3 = d3
  m1 = m1
  m2 = m2
  None = None
  Deliveries = {d1, d2, d3}
  Messages = {m1, m2}
  Message <- Redelivered
  Sequence <- Successive
  MaxAttempts = 1
  HandlerErrors = {"terminal"}
  MaxFaults = 1
  MaxCrashes = 1
  MaxSkews = 1
CHECK_DEADLOCK FALSE
INVARIANTS TypeOK CheckpointTruthful
PROPERTIES NoLateEffect EffectsInOrder FencedOut
