CONSTANTS
    m1 = m1
    m2 = m2
    NoMessage = NoMessage
    Messages = {m1, m2}
    Hosts = {h1, h2}
    KindOf <- TwoRequests
    MaxRetries = 2
    MaxDequeueCount = 2
    RenewalMayFail = FALSE
    MaxFaults = 0
SPECIFICATION Spec
INVARIANTS
    PoisonHasTicket
CHECK_DEADLOCK FALSE
