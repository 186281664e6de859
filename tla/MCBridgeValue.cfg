CONSTANTS
  MaxDepth = 5
  MaxString = 2
  MaxBytes = 3
  MaxEntries = 4
  MaxContent = 18
  MaxValues = 16
  MaxName = 2
  MaxId = 3
  Values <- MCValues
  Fragile <- MCFragile
  Atoms <- MCAtoms
SPECIFICATION HookSpec
CHECK_DEADLOCK FALSE
INVARIANTS
  RoundTrip
  Canonical
  RefusesOutOfLimits
  ReplacesOneThing
  RefusesOnlyTheOversized
