CONSTANTS
  w1 = w1
  w2 = w2
  Worker = {w1, w2}
  MaxTasks = 1
  Handle = "WAIT"
  Spurious = FALSE
  NULL = NULL
SPECIFICATION FairSpec
CHECK_DEADLOCK FALSE
PROPERTIES JoinsAllThreads
