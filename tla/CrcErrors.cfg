SPECIFICATION CrcSpec
CONSTANTS
  Bytes = {{}, {0}, {0, 1, 2, 3, 4, 5, 6, 7}}
  Length = 2
  Errors = {{0}, {7}}
  Seed = 65535
INVARIANT DetectsErrors
CHECK_DEADLOCK FALSE
