SPECIFICATION FairSpec
CONSTANTS
  w1 = w1
  w2 = w2
  None = None
  Workers = {w1, w2}
  MaxJobs = 1
  MaxEdits = 1
  MaxUpsets = 2
CHECK_DEADLOCK FALSE
INVARIANTS TypeOK NeverRefetched FailedIsClean SucceededIsCommitted
PROPERTIES HeldEnds
