\* One attempt, nothing fails.
CONSTANTS
  NWorkers = 3
  MaxAttempts = 1
CHECK_DEADLOCK FALSE
SPECIFICATION Spec
INVARIANT SocketsLeadToPeers
