SPECIFICATION FairSpec
CONSTANTS Lines <- MCLines
          Offsets = {0, 1}
          Bytes <- MCBytes
          Values = {0, 1, 5}
          L1Sets = 2
          L2Sets = 4
          DataRequests <- MCDataRequests
          InstrRequests <- MCInstrRequests
          Contents <- MCContents
          Ack = Ack
          NoData = NoData
INVARIANT CachesInv
PROPERTIES InstructionsUnharmed ImplementsFlatMemory EveryRequestAnswered
