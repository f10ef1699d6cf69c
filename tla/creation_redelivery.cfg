CONSTANTS
    f1 = f1
    Attempts = {a1, a2, a3}
    Facilities = {f1}
    WorkPackages = {w1, w2, w3}
    None = None
    FacilityOf <- OneFacility
    Payload <- WidePayload
SPECIFICATION Spec
SYMMETRY Symmetry
INVARIANTS
    TypeOK
    ApprovedIsComplete
    AccrualSchedulesLinked
    CreatedIsDurable
    RefusedMeansNotApproved
    LeftoversAreLogged
PROPERTIES
    PublicationContract
CHECK_DEADLOCK FALSE
