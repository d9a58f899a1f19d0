CONSTANTS
    Writers = {loop, swap}
    Resyncs = {r1, r2}
    MaxRows = 3
    MaxState = 1
    MaxLost = 1
SYMMETRY Symmetry
SPECIFICATION FeedSpec
INVARIANTS
    BroadcastInOrder
    NoHole
    SettledIsComplete
CHECK_DEADLOCK FALSE
