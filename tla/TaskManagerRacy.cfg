\* Every interleaving of manager and workers, threads that die, NULL tasks,
\* wait() without timeout, and a manager destroyed at any time.
CONSTANTS
  Tasks = {k1, k2, k3}
  NullTasks = {k3}
  NoTask = none
  MaxThreads = 2
  TimedWait = FALSE
  ThreadsMayDie = TRUE
  AbandonAllowed = TRUE
  WorkersPrompt = FALSE
SPECIFICATION Spec
INVARIANTS
  FalseMeansDone
  OnePlaceEach
PROPERTIES
  StartsOnce
CHECK_DEADLOCK FALSE
