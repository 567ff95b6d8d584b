\* Runs of a two-cell layer of one or two levels that may be interrupted.
CONSTANTS
  Tasks <- MCTasks
  NumCells = 2
  MaxLevels = 2
  Layouts <- ChainLayouts
  Contents <- MixedContents
  Selections <- AnyCells
  ThreadChoices = {0, 2}
  MaxRuns = 2
  TasksMayDie = TRUE
  WritesMayFail = TRUE
  CrashesAllowed = TRUE
SPECIFICATION FairSpec
INVARIANTS
  IndexResolves
  NothingMissing
PROPERTIES
  WholeFilesKept
  CompileReturns
CHECK_DEADLOCK FALSE
