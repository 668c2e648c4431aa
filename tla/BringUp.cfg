\* Three workers, so that two race for the listener of the third, and a root
\* that is started a second time.
CONSTANTS
  NWorkers = 3
  MaxAttempts = 2
CHECK_DEADLOCK FALSE
SPECIFICATION FairSpec
INVARIANTS TypeOK OneSocketPerNode
PROPERTIES AttemptEnds WorkersListenAgain
