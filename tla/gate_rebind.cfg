SPECIFICATION FairSpec
CONSTANTS
    c1 = c1  c2 = c2  c3 = c3  s1 = s1  s2 = s2
    NoConn = NoConn  NoSession = NoSession
    Conn = {c1, c2}
    Socket = {c1, c2}
    TCP = {c1, c2}
    Session = {s1, s2}
    Claims <- Rebinding
INVARIANTS NoOrphanSocket FinishedHandlerIsForgotten
PROPERTIES BindsOnlyConnected EndedSocketIsForgotten StopWaitsOnlyForLateConnections
CHECK_DEADLOCK FALSE
