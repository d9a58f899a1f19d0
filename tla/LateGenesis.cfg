CONSTANTS
    Writers = {loop, swap}
    Resyncs = {r1}
    MaxRows = 3
    MaxState = 2
    MaxLost = 0
SYMMETRY Symmetry
SPECIFICATION FeedSpec
INVARIANT NothingMissing
CHECK_DEADLOCK FALSE
