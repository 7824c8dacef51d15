SPECIFICATION Spec
CONSTANTS
  NumItems = 2
  Chunks = 1
  DiskMayFill = FALSE
  w1 = w1
  w2 = w2
  w3 = w3
  Workers = {w1, w2, w3}
  MayDie = {w1, w2, w3}
  Looping = {w1, w2, w3}
  MaxPerPass <- OneEach
  None = None
SYMMETRY Symmetry
INVARIANTS NoConcurrentRuns RemovedOnlyIfHandled
PROPERTIES ImplementsQueueAbs
CHECK_DEADLOCK FALSE
