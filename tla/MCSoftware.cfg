SPECIFICATION Spec
CONSTANTS Width = 16
          WordBytes = 2
          LineWords = 2
          BufferBytes = 24
          Zero = Zero
          PadByte = PadByte
          Unknown = Unknown
          Tasks <- MCTasks
          Cores = {0, 1, 2}
          Scenarios <- MCScenarios
          Printings <- MCPrintings
          DB = 24
          CYCLES_PER_SYMBOL = 24
          PtyRoom = 2
          Talks <- MCTalks
INVARIANTS RoutinesRight ProgramsRight ImagesRight BspRight CharactersRight
PROPERTIES EveryCoreFinishes EverythingPrinted
CHECK_DEADLOCK FALSE
