SPECIFICATION Spec
CONSTANTS
  Jobs <- MCJobs
  MaxUnwritten = 1
INVARIANTS
  TilesCoverArea
  EveryTileIsReached
CHECK_DEADLOCK FALSE
