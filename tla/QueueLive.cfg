SPECIFICATION FairSpec
CONSTANTS
  NumItems = 2
  Chunks = 2
  DiskMayFill = FALSE
  w1 = w1
  w2 = w2
  w3 = w3
  Workers = {w1, w2}
  MayDie = {}
  Looping = {w1, w2}
  MaxPerPass <- NoMax
  None = None
INVARIANTS ItemComplete SomeWorkerSurvives
PROPERTIES OncePerWorker EventuallyRemoved
