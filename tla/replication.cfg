SPECIFICATION SplitSpec
CONSTANTS
  Server = {s1, s2, s3}
  None = None
  s1 = s1
  s2 = s2
  s3 = s3
  DurableState = TRUE
  Heartbeats = FALSE
  MaxAppend = 2
  ULongMax = 99
  MaxTerm = 2
  MaxRequests = 1
  MaxErrors = 1
  MaxInFlight = 3
  MaxRestarts = 0
INVARIANT LogMatching
INVARIANT BusyHasCall
PROPERTY LeaderAppendOnly
CONSTRAINT InFlightBound
CHECK_DEADLOCK FALSE
