\* Sockets in blocking mode (--net-turbo 0).
CONSTANTS
  PpSize = 4
  Target = 2
  MaxConsecutive = 2
  MaxRejectStreak = 2
  Modes = {"execute"}
  NetTurbo = FALSE
  SocketCapacity = 1
  Mortal = {}
  MaxSteps = 2
  MaxWave = 1
CHECK_DEADLOCK FALSE
SPECIFICATION FairSpec
PROPERTY ProbeReturns
