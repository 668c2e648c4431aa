\* Five stages, stage 2 bypassed at most twice in a row, waves of up to two
\* chunks over sockets that hold one activation; the root, the bypassed or the
\* last stage may be killed.
CONSTANTS
  PpSize = 5
  Target = 2
  MaxConsecutive = 2
  MaxRejectStreak = 2
  Modes = {"off", "shadow", "execute"}
  NetTurbo = TRUE
  SocketCapacity = 1
  Mortal = {0, 2, 4}
  MaxSteps = 4
  MaxWave = 2
CHECK_DEADLOCK FALSE
SPECIFICATION FairSpec
INVARIANTS
  TypeOK
  NoStageFails
  AnswerFollowsRoute
  KvMatchesDecisions
  SkipWindowBound
  FreshDecodeIsFull
  BacklogBound
PROPERTIES KeepsContract StepAnswered WorkersStop
