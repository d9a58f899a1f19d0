CONSTANTS
    Starters = {a, b, c}
    Old = o
    RoleOrder <- OneRole
    Sprints = 1
    Brief = {a, b, c}
SPECIFICATION Spec
INVARIANT Exclusive
CHECK_DEADLOCK FALSE
