CONSTANTS
    lead = lead
    worker = worker
    change = change
    result = result
    corr = corr
    Agents = {lead, worker}
    Msgs = {change, result}
    From <- MCFrom
    To <- MCTo
    CorrOf <- MCCorrOf
    NeedsAck = {change}
    BestEffort = {result}
    Guarded = {change, result}
    MaxDelivery = 3
    MaxRounds = 0
    SeenCapacity = 1
    OutboundBuffer = 2
    SendAttempts = 2
    MaxBreaks <- MCMaxBreaks
SPECIFICATION Spec
INVARIANT ReceivedIsNotFailed
CHECK_DEADLOCK FALSE
