SPECIFICATION Spec
CONSTANTS
  Cells <- MCCells
  Layers <- MCLayers
  Resources <- MCResources
  Pictures <- MCPictures
  ModelFiles <- MCModelFiles
  Parts <- MCParts
  NumThreads = 2
  MaxRuns = 2
  WritesMayFail = TRUE
INVARIANTS
  
  RastersAreComplete
CHECK_DEADLOCK FALSE
