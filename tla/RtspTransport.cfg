SPECIFICATION Spec
CONSTANTS
    PortMod = 8
    Base = 2
    SsrcDigits = 2
    OwnPorts = {4, 5}
    MaxParams = 3
    OfferedPorts = {0, 6}
    OfferedSsrcs = {0, 1, 3}
    Offers <- AllOffers
INVARIANTS StreamReachesReceiver OwnOfferWorks FailsOnlyOnShortSsrc
CHECK_DEADLOCK FALSE
