SPECIFICATION FairSpec
CONSTANTS BufferDepth = 1
          Traffics <- MCTraffics
          None = None
INVARIANTS IInv StuckOnlyFaceToFace
PROPERTY EverythingDelivered
CHECK_DEADLOCK FALSE
