CONSTANTS
    Capacity = 1
    MaxTurns = 1
    MaxLines = 1
    MaxSwaps = 1
    MaxFaults = 1
    InboxCapacity = 1
    Attempts = 2
    SocketCapacity = 1
    MaxFrames = 3
SPECIFICATION FairSpec
PROPERTY SendIsBounded
CHECK_DEADLOCK FALSE
