\* Two nodes share the positions of a sequence; nothing fails.
CONSTANTS
  MaxNodes = 2
  MinRing = 8
  Sizes = {2}
  LocalSeqLen = 1
  SocketCapacity = 1
  MaxCalls = 1
CHECK_DEADLOCK FALSE
SPECIFICATION Spec
INVARIANT AttendsWholePrefix
