SPECIFICATION Spec
CONSTANTS
    Ports = {1}
    MaxThreads = 5
    LastPage = 1
    HexPageSize = 7
    AppOffset = 2
    MaxSend = 3
    HexBuffer = 4
    LineSize = 2
    Tries = 3
    DfuPageSize = 3
    Span = 6
    HexFiles <- SmallFiles
    Files <- Releases
    Versions = {5, 6}
    LoaderPages = 2
INVARIANTS UpdateSafe ImagesSafe ImagesWritten
PROPERTIES RestartsFinished BootloadReturns
CHECK_DEADLOCK FALSE
