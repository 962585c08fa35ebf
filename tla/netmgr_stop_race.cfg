SPECIFICATION Spec
CONSTANTS
    a1 = a1  a2 = a2  d1 = d1  d2 = d2  k1 = k1  k2 = k2
    User = User  None = None
    Accept = {a1}
    Dial = {}
    Svr = {k1}
    TypeOf <- OneType
    Roles <- OneRole
    Target <- OneTarget
    MaxConn = 2
    QueueCap = 2
    MaxCalls = 1
INVARIANT NothingQueuedAfterStop
CHECK_DEADLOCK FALSE
