SPECIFICATION Spec
CONSTANTS Cores = {c1, c2}
          FifoDepth = 1
          MaxFlits = 1
          MaxRounds = 1
INVARIANT NothingArrivesWhileComputing
CHECK_DEADLOCK FALSE
