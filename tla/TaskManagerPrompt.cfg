\* Workers that get to their task before the manager looks at them again, and
\* a client that uses the manager as MapLayerCompiler does.
CONSTANTS
  Tasks = {k1, k2, k3}
  NullTasks = {}
  NoTask = none
  MaxThreads = 2
  TimedWait = TRUE
  ThreadsMayDie = TRUE
  AbandonAllowed = FALSE
  WorkersPrompt = TRUE
SPECIFICATION FairSpec

  
  
PROPERTIES
  WaitReturns
  
  
  
CHECK_DEADLOCK FALSE
