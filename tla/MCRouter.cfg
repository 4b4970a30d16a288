SPECIFICATION FairSpec
CONSTANTS routerX = 0
          routerY = 0
          BufferDepth = 2
          InPorts = {1, 2, 4}
          Dests <- MCDests
          MaxMessages <- MCMaxMessages
          MaxLen <- MCMaxLen
          None = None
INVARIANTS IInv ExactlyOnceInOrder NoInterleaving
PROPERTY ImplementsWormholeRouter EverythingLeaves
CHECK_DEADLOCK FALSE
