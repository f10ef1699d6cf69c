CONSTANTS
    m1 = m1
    m2 = m2
    NoMessage = NoMessage
    Messages = {m1, m2}
    Hosts = {h1, h2}
    KindOf <- OneUnroutable
    MaxRetries = 3
    MaxDequeueCount = 3
    RenewalMayFail = TRUE
    MaxFaults = 2
SPECIFICATION FairSpec
INVARIANTS
    TypeOK
    NothingLost
    PoisonIsReported
PROPERTIES
    TicketIsFinal
    EveryRequestSettles
CHECK_DEADLOCK FALSE
