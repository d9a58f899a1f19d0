CONSTANTS
    a1 = a1
    Agents = {a1}
    Conns = {c1, c2}
    Owner <- MCOwner
    OutboundBuffer = 2
    NoConn = NoConn
SPECIFICATION Spec
INVARIANT WelcomeIsFirst
CHECK_DEADLOCK FALSE
