CONSTANTS
  Root <- MCRoot
  Entries <- MCEntries
  Trees <- MCTrees
  Changes <- MCChanges
  Suffix <- MCSuffix
  MaxChanges = 1
  MaxNames = 12
  MaxHops = 3
  NoPath = NoPath
SPECIFICATION Spec
CHECK_DEADLOCK FALSE
INVARIANTS
  FatalOnlyAfterChange
  RunsFromPackage
  LoadsPlainPackages
