\* Up to four nodes: every topology of them, a stage with several layers, four
\* stages for three layers, a layer that is left over, experts or none.
CONSTANTS
  MaxNodes = 4
  Layers = {3}
  Experts = {0, 2}
  Net <- SmallNet
  Node <- SmallNode
  SocketCapacity = 1
  MaxFailures = 1
CHECK_DEADLOCK FALSE
SPECIFICATION FairSpec
INVARIANTS TypeOK InStep WeightsPlaced
PROPERTY LoadingEnds
