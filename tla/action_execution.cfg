SPECIFICATION FairSpec
CONSTANTS
  e1 = e1
  e2 = e2
  v1 = v1
  r1 = r1
  worker = worker
  None = None
  Calls = {e1, e2, v1, r1, worker}
  Kind <- Kinds
  MaxThrows = 1
  MaxUpsets = 1
CHECK_DEADLOCK FALSE
INVARIANTS TypeOK AskedOnce OutcomeIsTrue OutcomesHaveFeedback
PROPERTIES PublishedIsFinal FeedbackIsPublished
