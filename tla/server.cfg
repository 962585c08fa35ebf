SPECIFICATION FairSpec
CONSTANTS
    p1 = p1  p2 = p2  plain = plain  websocket = websocket
    NoFile = NoFile  Broken = Broken  Invalid = Invalid  None = None
    Proc = {p1, p2}
    NameOf <- MCNameOf
    ServicesOf <- MCServicesOf
    HostOf <- OneHost
    StartsWith <- OwnNames
    Inputs <- MCInputs
    Request = {plain, websocket}
    Hijacked = {websocket}
INVARIANTS TypeOK WorldOutlivesRequests StopsWhatItStarted SocketsMatchServices ServingStaysRegistered EnvironmentConsistent
PROPERTIES StopsInReverse StaleEntryExpires SignalEndsProcess
CHECK_DEADLOCK FALSE
