CONSTANTS
    m1 = m1
    m2 = m2
    m3 = m3
    f = f
    NoMessage = NoMessage
    Messages = {m1, m2}
    Hosts = {h1}
    KindOf <- Requests
    Facilities = {f}
    FacilityOf <- OneFacility
    MaxRetries = 1
    MaxDequeueCount = 2
    RenewalMayFail = TRUE
    MaxFaults = 1
SPECIFICATION PipelineSpec
INVARIANTS
    AtMostOneTicket
    CompletedIsInGift
PROPERTIES
    AmendmentsAreKept
CHECK_DEADLOCK FALSE
