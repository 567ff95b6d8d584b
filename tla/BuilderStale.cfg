\* A source two steps away from the one that is edited; nothing goes wrong.
CONSTANTS
  raw = raw
  mid = mid
  end = end
  Sources = {raw, mid, end}
  NoSource = none
  Parents <- ChainParents
  Buildable = {mid, end}
  Layers <- EndLayer
  Versions = {v1, v2}
  Hollow = {}
  Partial = partial
  Absent = absent
  MaxDepth = 4
  MaxTime = 3
  MaxRuns = 2
  WritesMayFail = FALSE
  CrashesAllowed = FALSE
SPECIFICATION Spec
INVARIANT MadeFromCurrentData
CHECK_DEADLOCK FALSE
