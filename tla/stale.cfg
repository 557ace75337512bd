SPECIFICATION Spec
CONSTANTS
  Server = {s1, s2, s3}
  None = None
  s1 = s1
  s2 = s2
  s3 = s3
  DurableState = TRUE
  Heartbeats = FALSE
  MaxAppend = 2
  ULongMax = 99
  MaxTerm = 2
  MaxRequests = 0
  MaxErrors = 0
  MaxRestarts = 0
  MaxInFlight = 5
SYMMETRY ServerSymmetry
CONSTRAINT InFlightBound
PROPERTY StaleResponseIgnored
CHECK_DEADLOCK FALSE
