CONSTANTS
  SeqLen = 6
  NBatches = 4
  PpSize = 2
  ChunkSize = 0
  ChunkThreshold = 2
  LogitsModes = {0, 1, 2}
  PromptLengths = {2, 3, 5, 8}
  StepLimits = {4, 7}
  MaxRequests = 3
  MaxActive = 2
  Contents = {"a", "b"}
  TokensOf <- TokensOfContent
  MaxMessages = 3
  MaxTokens = {0, 1}
CHECK_DEADLOCK FALSE
SPECIFICATION FairSpec
INVARIANTS StaysInContext LogitsFresh ContextIsDialog RoundRobinFair ReusedRowsAreOurs
PROPERTY Ends
