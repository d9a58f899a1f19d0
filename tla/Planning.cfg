CONSTANTS
    Ids = {"a", "b", "c", "d"}
    Unknown = {"x"}
    Dags <- MCDags
    Crews <- MCCrews
    SprintSizes = {0, 1, 2}
SPECIFICATION Spec
INVARIANTS
    CrewIsPlanned
    VerdictIsRight
    SprintsInOrder
CHECK_DEADLOCK FALSE
