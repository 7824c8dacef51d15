SPECIFICATION Spec
CONSTANTS
  NumItems = 1
  Chunks = 1
  DiskMayFill = FALSE
  w1 = w1
  w2 = w2
  w3 = w3
  Workers = {w1, w2}
  MayDie = {}
  Looping = {w1, w2}
  MaxPerPass <- NoMax
  None = None
PROPERTY HandledDetected
