CONSTANTS
    t1 = t1
    t2 = t2
    test = test
    rm = rm
    page = page
    lead = lead
    worker = worker
    Tasks = {t1, t2}
    None = None
    MaxRework = 2
    MaxRounds = 3
    MaxApprovals = 1
    Runs = {test, rm, page}
    Refused = {rm}
    Dod <- MCDod
SPECIFICATION AcceptanceFairSpec
PROPERTY ChecksAreBounded
CHECK_DEADLOCK FALSE
