CONSTANTS
    f1 = f1
    Attempts = {a1, a2}
    Facilities = {f1}
    WorkPackages = {w1, w2}
    None = None
    FacilityOf <- OneFacility
    Payload <- MCPayload
    Reference <- MCReference
    Requests <- MCRequests
SPECIFICATION FairValidatedSpec
INVARIANTS
    NothingUnsupportedIsCreated
    ErrorsNameTheFaults
PROPERTIES
    EveryAttemptAnswers
CHECK_DEADLOCK FALSE
