SPECIFICATION FairSpec
CONSTANTS
  h1 = h1
  h2 = h2
  retry = retry
  cancel = cancel
  q1 = q1
  q2 = q2
  None = None
  Hosts = {h1, h2}
  Commands = {retry, cancel}
  Requests = {q1, q2}
  Kind <- Kinds
  HostOf <- Served
  MaxAutomatic = 2
  MaxAttempts = 2
  MaxUpsets = 1
CHECK_DEADLOCK FALSE
INVARIANTS TypeOK OneLiveAttempt AnswerIsTheRuns CancelIsKept CommandActsOnce FailedIsOver
PROPERTIES AutomaticRerunsAreKnown RunSettles
