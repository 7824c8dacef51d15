SPECIFICATION Spec
CONSTANTS
  Alloc = 5
  Base = 2
  MaxOverruns = 4
INVARIANTS Consistent RoundTrip
PROPERTIES EveryByteCounted PoppedBytesStay
