CONSTANTS
    a1 = a1
    a2 = a2
    a3 = a3
    a4 = a4
    Attempts = {a1}
    WorkPackages = {w1}
    None = None
    KindOf <- OneIncrease
    NewValue <- OneIncreaseValue
    Follows <- MixedFollows
    Percentage = 85
    InitialFacility <- Cash
    Serial = TRUE
SPECIFICATION Spec
SYMMETRY Symmetry
INVARIANTS
    ErrorDeletesWorkPackage
CHECK_DEADLOCK FALSE
