SPECIFICATION FairSpec
CONSTANTS
  NumItems = 2
  Chunks = 2
  DiskMayFill = FALSE
  w1 = w1
  w2 = w2
  w3 = w3
  Workers = {w1, w2}
  MayDie = {w1, w2}
  Looping = {w1}
  MaxPerPass <- OnlyW2
  None = None
PROPERTY EventuallyRemoved
CHECK_DEADLOCK FALSE
