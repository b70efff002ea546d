SPECIFICATION Spec
CONSTANTS
    SessionId = {s1, s2}
    NoSession = NoSession
    MaxCalls = 3
    MaxFlight = 1
    Methods = {"SETUP", "PLAY", "PAUSE", "TEARDOWN"}
    Responses <- AnyResponses
SYMMETRY Symmetry
INVARIANTS HandledOnce FewReaders ReceiverMatches StatisticsFollow RequestsInOrder
CHECK_DEADLOCK FALSE
