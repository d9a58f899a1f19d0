CONSTANTS
    Capacity = 1
    MaxTurns = 2
    MaxLines = 1
    MaxSwaps = 1
    MaxFaults = 1
    InboxCapacity = 1
    Attempts = 2
    SocketCapacity = 1
    MaxFrames = 1
SPECIFICATION FairSpec
PROPERTY WritesAreBounded
CHECK_DEADLOCK FALSE
