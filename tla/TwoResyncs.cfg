CONSTANTS
    Writers = {loop, swap}
    Resyncs = {r1, r2}
    MaxRows = 3
    MaxState = 2
    MaxLost = 0
SYMMETRY Symmetry
SPECIFICATION FeedSpec
PROPERTY QueuedNotDropped
CHECK_DEADLOCK FALSE
