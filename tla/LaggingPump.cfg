CONSTANTS
    Writers = {loop, swap}
    Resyncs = {r1}
    MaxRows = 3
    MaxState = 2
    MaxLost = 1
SYMMETRY Symmetry
SPECIFICATION FeedSpec
INVARIANT NoneSkipped
CHECK_DEADLOCK FALSE
