CONSTANTS
  Threads = {t1, t2, t3}
  SpuriousWakeups = TRUE
  MaxSignals = 3
  MaxGranted = 4
SPECIFICATION FairSpec
INVARIANTS
  NoLostWakeup
  NoSignalDropped
PROPERTIES
  TimedBlockReturns
  
CHECK_DEADLOCK FALSE
