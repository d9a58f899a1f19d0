CONSTANTS
    a = a
    b = b
    join = join
    last = last
    orphan = orphan
    stuck = stuck
    behind = behind
    ok = ok
    lost = lost
    Tasks = {a, b, join, last, orphan, stuck, behind}
    Earlier = {ok, lost}
    Deps <- MCDeps
    Prior <- MCPrior
    Routed = {a, b, join, last, stuck, behind}
    MaxRework = 2
    Timeout = 2
    MaxApprovals = 2
SPECIFICATION FairSpec
INVARIANTS
    DepsFirst
    AssignedIsAsked
    NoStranded
PROPERTIES
    NoWorkDiscarded
    FinalStates
    Finishes
CHECK_DEADLOCK FALSE
