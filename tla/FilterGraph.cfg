\* Every graph of up to five filters, on five features.
CONSTANTS
  NumFeatures = 5
  Shapeless = {2}
  NumGroups = 2
  GroupOf <- MCGroupOf
  Filters <- MCFilters
  MaxFilters = 5
  Modes = {"nodes", "store"}
SPECIFICATION FairSpec
INVARIANTS
  
  OutputIsWhole
  BatchesKeptApart
PROPERTIES
  Ends
CHECK_DEADLOCK FALSE
