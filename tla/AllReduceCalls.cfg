\* Up to four nodes: an even ring with slices of one value, an odd one with
\* slices of two over sockets that hold one, and the star for all others; slices
\* of two positions of the key-value buffers.
CONSTANTS
  MaxNodes = 4
  MinRing = 3
  Sizes = {4, 6}
  LocalSeqLen = 2
  SocketCapacity = 1
  MaxCalls = 2
CHECK_DEADLOCK FALSE
SPECIFICATION FairSpec
INVARIANTS TypeOK StarSums RingReduces KvGathered CallsClose
PROPERTY CallsReturn
