SPECIFICATION MCSpec
CONSTANTS
    ONE = 10
    Threshold = 50
    Distance = 10
    Batches <- MCBatches
    Window <- MCWindow
    Samples <- MCSamples
    Marks <- MCMarks
    max_cache_size = 3
    ignore_z = FALSE
    MaxTicks = 5
INVARIANTS WithinExtent 
PROPERTIES  NothingLost CacheIsLRU
CHECK_DEADLOCK FALSE
