\* A prompt of more chunks than the sockets of the pipeline hold.
CONSTANTS
  PpSize = 3
  Target = 1
  MaxConsecutive = 2
  MaxRejectStreak = 2
  Modes = {"off"}
  NetTurbo = TRUE
  SocketCapacity = 1
  Mortal = {}
  MaxSteps = 7
  MaxWave = 7
CHECK_DEADLOCK FALSE
SPECIFICATION FairSpec
PROPERTY WaveDrained
