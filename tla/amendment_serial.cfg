CONSTANTS
    a1 = a1
    a2 = a2
    a3 = a3
    a4 = a4
    Attempts = {a1, a2, a3, a4}
    WorkPackages = {w1, w2}
    None = None
    KindOf <- OneOfEach
    NewValue <- OneOfEachValue
    Follows <- MixedFollows
    Percentage = 85
    InitialFacility <- Cash
    Serial = TRUE
SPECIFICATION Spec
SYMMETRY Symmetry
INVARIANTS
    TypeOK
    DraftWithinFacility
    CreatedHasNewAmount
PROPERTIES
    AmendmentContract
CHECK_DEADLOCK FALSE
