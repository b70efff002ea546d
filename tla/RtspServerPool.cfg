SPECIFICATION FairSpec
CONSTANTS
    Thread = {t1, t2, t3}
    Session = {s1, s2}
    MaxRequests = 2
    NoThread = NoThread
    NoSession = NoSession
INVARIANTS TypeOK SpinHasHelper
PROPERTIES DestroyerReturns GracefulReturns StopHangsOnlyOnStreams
CHECK_DEADLOCK FALSE
