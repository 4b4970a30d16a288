\* Three cores, two calls of bsp_sync each, up to two flits in a call, which
\* is one more than the FIFO holds.
SPECIFICATION Spec
CONSTANTS Cores = {c1, c2, c3}
          FifoDepth = 1
          MaxFlits = 2
          MaxRounds = 2
SYMMETRY CoreSymmetry
INVARIANTS StartBarrier EndBarrier SendOnlyInside IInv
PROPERTY ImplementsBarrier
