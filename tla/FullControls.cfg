CONSTANTS
    Workers = {w1}
    Lead = lead
    Sprints = 2
    Harnesses = {claude, pi}
    Default = claude
    NoAgent = noagent
    NoHarness = noharness
    ControlCapacity = 1
    MaxSwaps = 2
    MaxFaults = 0
    MaxBoth = 2
SPECIFICATION FairSpec
PROPERTIES
    SwapsAreBounded
CHECK_DEADLOCK FALSE
