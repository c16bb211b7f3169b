SPECIFICATION TrimSpec
CONSTANTS
  Sizes = {0, 1, 3, 4}
  Limits <- MCLimits
  MaxCount = 4
  UsizeMax = 12
INVARIANTS
  TrimTypeOK
  LongestPrefix
CHECK_DEADLOCK FALSE
