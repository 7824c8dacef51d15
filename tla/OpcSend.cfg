SPECIFICATION OpcSpec
CONSTANTS
  NumLeds = 2
  Colors = {"off", "red"}
  Room = 4
  Backlog = 1
  MaxBreaks = 1
INVARIANT TrueMeansSent
CHECK_DEADLOCK FALSE
