\* Three sources, raw and intermediate, built in two runs and edited between.
CONSTANTS
  raw = raw
  mid = mid
  end = end
  Sources = {raw, mid, end}
  NoSource = none
  Parents <- MCParents
  Buildable = {mid, end}
  Layers <- MCLayers
  Versions = {v1, v2, hollow}
  Hollow = {hollow}
  Partial = partial
  Absent = absent
  MaxDepth = 4
  MaxTime = 3
  MaxRuns = 2
  WritesMayFail = TRUE
  CrashesAllowed = TRUE
SPECIFICATION FairSpec
INVARIANTS
  NewerMeansMatching
  BuiltFromParent
PROPERTIES
  BuildReturns
CHECK_DEADLOCK FALSE
