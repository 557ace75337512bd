SPECIFICATION Spec
CONSTANTS
  Leader = l
  Follower = f
  Distance = 2
  Reserved = 1
  Size = 4
  Block = 2
  MaxAppend = 2
  MaxIndex = 4
  MaxErrors = 1
CHECK_DEADLOCK FALSE
INVARIANT BeforeStartIsKnown
