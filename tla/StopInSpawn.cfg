CONSTANTS
    Workers = {w1}
    Lead = lead
    Sprints = 2
    Harnesses = {claude, pi}
    Default = claude
    NoAgent = noagent
    NoHarness = noharness
    ControlCapacity = 1
    MaxSwaps = 1
    MaxFaults = 1
    MaxBoth = 1
SPECIFICATION Spec
INVARIANT StopAbortsCrew
CHECK_DEADLOCK FALSE
