SPECIFICATION OneLeaderSpec
CONSTANTS
  Server = {s1, s2, s3}
  None = None
  s1 = s1
  s2 = s2
  s3 = s3
  DurableState = TRUE
  Heartbeats = FALSE
  MaxAppend = 2
  ULongMax = 99
  MaxTerm = 1
  MaxRequests = 2
  MaxInFlight = 99
  MaxErrors = 0
  MaxRestarts = 0
PROPERTY CommitWithoutHeartbeat
CHECK_DEADLOCK FALSE
