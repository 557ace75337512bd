SPECIFICATION Spec
CONSTANTS
  Server = {s1, s2, s3}
  None = None
  s1 = s1
  s2 = s2
  s3 = s3
  DurableState = TRUE
  Heartbeats = TRUE
  MaxAppend = 2
  ULongMax = 99
  MaxTerm = 1
  MaxRequests = 1
  MaxErrors = 0
  MaxRestarts = 1
  MaxInFlight = 99
SYMMETRY ServerSymmetry
INVARIANT TypeOK
INVARIANT ElectionSafety
INVARIANT NoRivalLeader
PROPERTY ImplementsElection
CHECK_DEADLOCK FALSE
