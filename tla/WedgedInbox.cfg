CONSTANTS
    Capacity = 1
    MaxTurns = 2
    MaxLines = 1
    MaxSwaps = 1
    MaxFaults = 1
    InboxCapacity = 1
    Attempts = 2
    SocketCapacity = 1
    MaxFrames = 3
SPECIFICATION Spec
INVARIANT ReceiptResolves
CHECK_DEADLOCK FALSE
