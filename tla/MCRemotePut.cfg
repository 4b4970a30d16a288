SPECIFICATION FairSpec
CONSTANTS Cores = {0, 1}
          Plans <- MCPlans
          AddrSpace = 4096
          MaxBurst = 16
          FifoDepth = 2
          NetDepth = 1
          None = None
INVARIANT IInv
PROPERTIES ImplementsRemoteMemory EveryWordLands
CHECK_DEADLOCK FALSE
