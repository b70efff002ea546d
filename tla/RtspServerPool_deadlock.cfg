SPECIFICATION FairSpec
CONSTANTS
    Thread = {t1, t2}
    Session = {s1}
    MaxRequests = 2
    NoThread = NoThread
    NoSession = NoSession
PROPERTIES DestroyerReturns
CHECK_DEADLOCK FALSE
