CONSTANTS
    a1 = a1
    a2 = a2
    a3 = a3
    a4 = a4
    Attempts = {a1, a2}
    WorkPackages = {w1, w2}
    None = None
    KindOf <- TwoExpiries
    NewValue <- TwoExpiriesValue
    Follows <- MixedFollows
    Percentage = 85
    InitialFacility <- Cash
    Serial = FALSE
SPECIFICATION Spec
PROPERTIES
    OrderFollowsCurrentExpiry
CHECK_DEADLOCK FALSE
