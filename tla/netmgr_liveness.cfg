SPECIFICATION FairSpec
CONSTANTS
    a1 = a1  a2 = a2  d1 = d1  d2 = d2  k1 = k1  k2 = k2
    User = User  None = None
    Accept = {a1}
    Dial = {d1, d2}
    Svr = {k1}
    TypeOf <- OneType
    Roles <- OneRole
    Target <- OneTarget
    MaxConn = 1
    QueueCap = 1
    MaxCalls = 1
PROPERTIES DeadSessionLeaves StopReturns FrontReturns
CHECK_DEADLOCK FALSE
