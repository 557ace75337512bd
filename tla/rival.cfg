SPECIFICATION Spec
CONSTANTS
  Server = {s1, s2, s3}
  None = None
  s1 = s1
  s2 = s2
  s3 = s3
  DurableState = FALSE
  Heartbeats = FALSE
  MaxAppend = 2
  ULongMax = 99
  MaxTerm = 1
  MaxRequests = 0
  MaxErrors = 0
  MaxRestarts = 1
  MaxInFlight = 5
SYMMETRY ServerSymmetry
CONSTRAINT InFlightBound
INVARIANT NoRivalLeader
CHECK_DEADLOCK FALSE
