\* The ring to its end.
CONSTANTS
  MaxNodes = 3
  MinRing = 3
  Sizes = {3}
  LocalSeqLen = 1
  SocketCapacity = 1
  MaxCalls = 1
CHECK_DEADLOCK FALSE
SPECIFICATION Spec
INVARIANT RingSums
