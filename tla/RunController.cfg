CONSTANTS
    Workers = {w1}
    Lead = lead
    Sprints = 2
    Harnesses = {claude, pi}
    Default = claude
    NoAgent = noagent
    NoHarness = noharness
    ControlCapacity = 1
    MaxSwaps = 2
    MaxFaults = 1
    MaxBoth = 2
SPECIFICATION FairSpec
INVARIANTS
    ControlsMatchCrew
    RefusedOnlyAfterGivingUp
PROPERTIES
    UnservedIsAnswered
    CommandsReturn
    BoundaryPasses
CHECK_DEADLOCK FALSE
