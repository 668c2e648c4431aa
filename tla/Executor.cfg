\* Two threads, passes of two steps, steps that fail or stall, two passes.
CONSTANTS
  Threads = {t1, t2}
  NSteps = 2
  CanFail = TRUE
  MaxRuns = 2
CHECK_DEADLOCK FALSE
SPECIFICATION FairSpec
INVARIANTS TypeOK Lockstep RunIsOver
PROPERTIES KeepsContract ForwardReturns DestructorReturns
