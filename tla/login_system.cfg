SPECIFICATION SysSpec
CONSTANTS
    k1 = k1  k2 = k2  c1 = c1  c2 = c2  r1 = r1  r2 = r2  alice = alice
    None = None  NoConn = NoConn  NoSession = NoSession  NoCall = NoCall
    Login = {k1, k2}
    Session = {k1, k2}
    Conn = {c1, c2}
    Socket = {}
    Request = {r1, r2}
    Identity = {alice}
    IdentityOf <- SamePlayer
    Case = {k1}
    ConnOf <- Conns
    RequestOf <- Calls
INVARIANTS SysTypeOK CredentialBindsOnce CaseResultTrue
PROPERTY ImplementsGate
CHECK_DEADLOCK FALSE
