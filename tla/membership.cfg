SPECIFICATION EitherSpec
SYMMETRY Symmetry
CONSTANTS
  Leader = s1
  Founders = {s1, s2, s3}
  Newcomer = {s4}
  Nobody = nobody
  Start = 3
  StopGap = 1
  Batch = 1
  MaxRetries = 1
  MaxRequests = 2
  Voter = {1, 2, 3}
  Rank <- MCRank
  MaxTerm = 2
  MaxSteps = 2
  MaxLate = 1
  MaxFaults = 2
CONSTRAINT TogetherBound
CHECK_DEADLOCK FALSE
INVARIANT TypeOK
INVARIANT LeaverAgreed
INVARIANT LogIsPrefix
INVARIANT JoinerCommitsCommitted
PROPERTY AddsCaughtUp
PROPERTY CandidateHadMajority
INVARIANT NeverIdle
INVARIANT RoundGoesOn
