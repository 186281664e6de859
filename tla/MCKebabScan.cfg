CONSTANTS
  Loops <- MCLoops
  MaxLength = 5
  TextLimit = 6
SPECIFICATION ScanSpec
CHECK_DEADLOCK FALSE
INVARIANT
  AcceptsExactlyKebab
