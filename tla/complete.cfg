SPECIFICATION TwoLeadersSpec
CONSTANTS
  Server = {s1, s2, s3}
  None = None
  s1 = s1
  s2 = s2
  s3 = s3
  DurableState = TRUE
  Heartbeats = FALSE
  MaxAppend = 2
  ULongMax = 99
  MaxTerm = 4
  MaxRequests = 0
  MaxInFlight = 99
  MaxErrors = 4
  MaxRestarts = 0
PROPERTY LeaderCompleteness
CHECK_DEADLOCK FALSE
