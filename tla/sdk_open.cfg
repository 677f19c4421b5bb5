SPECIFICATION Spec
CONSTANTS
    SerialPorts <- ThreePorts
    MaxCount = 2
    MaxQueries = 2
    Values = {1, 2}
    MaxUploads = 2
    Handles = {0, 1}
    MaxPackets = 4
    MaxSessions = 2
    ChunkSize = 1
    MaxDiskSpace = 2
    AskedSizes = {1, 2}
    MinFileCount = 1
    MaxFileCount = 10
    MaxData = 6
    Records <- Fixes
    Speeds = {1, 2}
    MaxFixes = 2
    MaxSatellites = 7
    MaxSignals = 9
    MaxCommands = 2
    ChunkRoom = 4
    SortedSpace = 12
    SortedFile = 6
    MaxSorted = 4
INVARIANT AllAnswered
CHECK_DEADLOCK FALSE
