\* Two cores, two flits in a call, which is one more than the FIFO holds.
SPECIFICATION FairSpec
CONSTANTS Cores = {c1, c2}
          FifoDepth = 1
          MaxFlits = 2
          AccessTime = 1
          PollPeriod = 5
INVARIANT IInv
PROPERTIES NoMissedPulse EveryCallReturns
