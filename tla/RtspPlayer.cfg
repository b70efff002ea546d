SPECIFICATION FairSpec
CONSTANTS
    SessionId = {s1, s2}
    NoSession = NoSession
    TheHost = TheHost
    NoHost = NoHost
    Port = {p1}
    NoPort = NoPort
    MaxCalls = 3
    MaxClients = 2
    Calls <- CallsOfClients
    Methods = {}
    MknOptions = {TRUE}
    Presses = {"SETUP", "PLAY", "PAUSE", "TEARDOWN"}
INVARIANTS StatesAgree
PROPERTIES AbandonedReclaimed NoRequestHangs
CHECK_DEADLOCK FALSE
