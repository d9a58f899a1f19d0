CONSTANTS
    Starters = {a, b}
    Old = o
    RoleOrder <- OneRole
    Sprints = 2
    Brief = {b}
SPECIFICATION FairSpec
INVARIANTS
    Exclusive
    CompletedMeansLanded
PROPERTIES
    RepoOnlyUnderLock
    StoppedRunLetsGo
CHECK_DEADLOCK FALSE
