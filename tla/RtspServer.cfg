SPECIFICATION FairServerSpec
CONSTANTS
    Host = {h1, h2}
    SessionId = {s1, s2}
    Port = {p1}
    Conn = {c1}
    NoSession = NoSession
    NoHost = NoHost
    NoPort = NoPort
    NoConn = NoConn
    Period = 1
    MaxLate = 1
INVARIANTS ServerTypeOK IdleBounded
PROPERTIES TimeoutTakesAll ClosedMeansReclaimed
CHECK_DEADLOCK FALSE
CONSTANTS
    Requests <- SomeRequests
    SetupRequests <- SomeSetupRequests
