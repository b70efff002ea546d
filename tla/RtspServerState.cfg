SPECIFICATION Spec
CONSTANTS
    Host = {h1, h2}
    SessionId = {s1, s2}
    Port = {p1, p2}
    NoSession = NoSession
    NoHost = NoHost
    NoPort = NoPort
INVARIANTS SenderPresent StreamsIndexed IndexComplete
PROPERTIES SessionLife LeaveTogether
CHECK_DEADLOCK FALSE
CONSTANTS
    Requests <- AllRequests
    SetupRequests <- AllSetupRequests
