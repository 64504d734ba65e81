\* One job that may fail, stall, be deleted or gain a result by hand, under two workers and two reviewers.
SPECIFICATION FairSpec
CONSTANTS
  None = None
  Jobs = {j1}
  Workers = {w1, w2}
  Reviewers = {u1, u2}
  FrameCount = 1
  MockCount = 1
  MaxFound = 1
  MaxAttempts = 3
  MaxManual = 1
  Faults = 1
  Lost = 1
  Stalls = 1
INVARIANTS
  DraftsOnce
  AcceptedOnce
PROPERTIES
  ReviewIsFinal
  QueuedIsReviewed
CHECK_DEADLOCK FALSE
