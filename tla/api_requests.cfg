SPECIFICATION Spec
CONSTANTS
    None = None
    Identifiers <- MCIdentifiers
    Texts <- MCTexts
    Dates <- MCDates
    Amounts <- MCAmounts
    Currencies <- MCCurrencies
    Today = 3
    Workloads <- MCWorkloads
    MaxFaults = 2
INVARIANTS
    TypeOK
    CreatedIsReadBack
    OnePartyPerIdentifier
    AnsweredPartyIsRated
    RatingFollowsCustomerType
    RefusalChangesNothing
    CreatedDealIsRestricted
    FeesAreOnActiveFacilities
    FeeAmountsAddUp
    LoanDatesAgree
PROPERTIES
    NotFoundIsAbsent
    AmendmentReachesItsLimit
    WholeSetIsUpdated
    PatchKeepsTheRest
    EveryRequestIsAnswered
