SPECIFICATION Spec
CONSTANTS
  small = small
  large = large
  Value <- MCValue
  Size <- MCSize
  BufSize = 99
  MaxIndex = 3
  MaxPack = 2
INVARIANT LastEntrySurvives
