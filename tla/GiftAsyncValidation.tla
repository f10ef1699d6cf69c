------------------------ MODULE GiftAsyncValidation ------------------------
(***************************************************************************)
(* GiftFacilityAsyncValidationService.creation, call by call, in front of  *)
(* GiftFacilityService.create: each attempt asks GIFT and MDM for the      *)
(* reference data that its payload needs, one service after the other, and *)
(* looks up every code of the payload in the answers.                      *)
(*                                                                         *)
(* A status that GiftHttpService returns (400, 401, 403, 404) carries no   *)
(* list: reading one from it throws, but the GET of a product type reads   *)
(* it as "not supported".  A fault is <<entity, position, field>>, what    *)
(* the text of a validation error names; positions start at 1, and that of *)
(* the overview is 0.                                                      *)
(***************************************************************************)
EXTENDS GiftFacilityCreation, Integers, Sequences, FiniteSets

CONSTANTS
    Reference,   \* what GIFT and MDM hold of each kind of code
    Requests     \* what clients may send: functions from facilities to payloads

\* A null in a payload, and a field that is left out.
Null == None

\* SHARE_PERCENTAGE.MIN and MAX, in tenths of a percent.
MIN == 1
MAX == 1000

IsPayload(payload) ==
    /\ DOMAIN payload = {"productTypeCode", "currency", "counterparties", "fixedFees",
                         "obligations"}
    /\ payload.counterparties \in
         Seq([roleCode : STRING, sharePercentage : Int \cup {Null}])
    /\ payload.fixedFees = Null \/ payload.fixedFees \in
                                    Seq([feeTypeCode : STRING, currency : STRING])
    /\ payload.obligations \in Seq([currency : STRING, subtypeCode : STRING \cup {Null}])

\* What is wrong with a payload, said without the code's helpers.
Faults(payload) ==
    LET fees == IF payload.fixedFees = Null THEN <<>> ELSE payload.fixedFees
        shareholders == {r \in DOMAIN Reference.counterpartyRoles :
                           Reference.counterpartyRoles[r]}
        subtypes == {s.code : s \in {t \in Reference.obligationSubtypes :
                                       t.productTypeCode = payload.productTypeCode}}
        Unsupported(entity, entities, field, supported) ==
            {<<entity, i, field>> : i \in {j \in 1..Len(entities) :
                                             entities[j][field] \notin supported}}
        WithoutShare(i) ==
            /\ payload.counterparties[i].roleCode \in shareholders
            /\ payload.counterparties[i].sharePercentage \notin MIN..MAX
    IN  {<<"overview", 0, "currency">> : x \in {payload.currency} \ Reference.currencies}
        \cup {<<"overview", 0, "productTypeCode">> :
                x \in {payload.productTypeCode} \ Reference.productTypes}
        \cup {<<"counterparties", i, "sharePercentage">> :
                i \in {j \in 1..Len(payload.counterparties) : WithoutShare(j)}}
        \cup Unsupported("counterparties", payload.counterparties, "roleCode",
                         DOMAIN Reference.counterpartyRoles)
        \cup Unsupported("fixedFees", fees, "currency", Reference.currencies)
        \cup Unsupported("fixedFees", fees, "feeTypeCode", Reference.feeTypes)
        \cup Unsupported("obligations", payload.obligations, "currency", Reference.currencies)
        \cup Unsupported("obligations", payload.obligations, "subtypeCode",
                         subtypes \cup {Null})

HasFees(payload) == payload.fixedFees \notin {Null, <<>>}

\* Payload counts what there is to post of a payload that passes.
ASSUME ValidationAssumption ==
    /\ Null \notin Int
    /\ \A r \in Requests : \A f \in Facilities :
         /\ IsPayload(r[f])
         /\ Faults(r[f]) = {} /\ r[f].fixedFees # Null =>
              /\ Len(r[f].counterparties) = Payload[f][Counterparty]
              /\ Len(r[f].fixedFees) = Payload[f][FixedFee]
              /\ Len(r[f].obligations) = Payload[f][Obligation]

VARIABLES
    request,   \* the payload of each facility
    heard,     \* how the services an attempt has asked have answered
    errors     \* asyncValidationErrors of each attempt

validation == <<request, heard, errors>>
validatedVars ==
    <<pc, wp, posted, refused, result, severe, wpState, wpFacility, events,
      request, heard, errors>>

ValidatedInit ==
    /\ Init
    /\ request \in Requests
    /\ heard = [a \in Attempts |-> <<>>]
    /\ errors = [a \in Attempts |-> {}]

PayloadOf(a) == request[FacilityOf[a]]

-----------------------------------------------------------------------------
(* The helpers of async validation.                                        *)

MapEntitiesByField(entities, fieldName) == [i \in DOMAIN entities |-> entities[i][fieldName]]

GenerateArrayOfErrors(fieldValues, supportedValues, parentEntityName, fieldName) ==
    {<<parentEntityName, i, fieldName>> :
        i \in {j \in DOMAIN fieldValues : fieldValues[j] \notin supportedValues}}

\* stripPayload and generateHighLevelErrors: the overview is not an array and
\* is passed over.
GenerateHighLevelErrors(payload, fieldName, supportedValues) ==
    UNION {GenerateArrayOfErrors(MapEntitiesByField(payload[entity], fieldName),
                                 supportedValues, entity, fieldName) :
              entity \in {"fixedFees", "obligations"}}

GenerateFirstOverviewError(payload, isSupportedProductType, supportedCurrencies) ==
    \* variant: an else between the two checks
    IF payload.currency \notin supportedCurrencies THEN {<<"overview", 0, "currency">>}
    ELSE IF isSupportedProductType THEN {} ELSE {<<"overview", 0, "productTypeCode">>}

GenerateOverviewErrors(payload, isSupportedProductType, supportedCurrencies) ==
    {<<"overview", 0, "currency">> : x \in {payload.currency} \ supportedCurrencies}
    \cup (IF isSupportedProductType THEN {} ELSE {<<"overview", 0, "productTypeCode">>})

\* A role that GIFT does not have has no flag.
GenerateCounterpartySharePercentageErrors(counterpartyRoles, counterparties) ==
    {<<"counterparties", i, "sharePercentage">> :
        i \in {j \in DOMAIN counterparties :
                 LET role == counterparties[j].roleCode
                     sharePercentage == counterparties[j].sharePercentage
                 IN  /\ role \in DOMAIN counterpartyRoles
                     /\ counterpartyRoles[role]
                     /\ \/ sharePercentage \in {Null, 0}
                        \/ sharePercentage < MIN
                        \/ sharePercentage > MAX}}

\* The codes that are given, as <<position, code>>: the list is closed up, and
\* the position is the one among them.
GetObligationSubtypeCodes(obligations) ==
    LET given == {i \in DOMAIN obligations : obligations[i].subtypeCode # Null}
    IN  {<<Cardinality({j \in given : j <= i}), obligations[i].subtypeCode>> : i \in given}

AllObligationSubtypes(productTypeCode) ==   \* variant: those of any product type
    {subtype.code : subtype \in Reference.obligationSubtypes}

\* MdmService.getAllObligationSubtypesByProductTypeCode
ObligationSubtypesOf(productTypeCode) ==
    {subtype.code : subtype \in {s \in Reference.obligationSubtypes :
                                   s.productTypeCode = productTypeCode}}

GenerateObligationSubtypeCodeErrors(subtypes, providedSubtypeCodes) ==
    {<<"obligations", provided[1], "subtypeCode">> :
        provided \in {p \in providedSubtypeCodes : p[2] \notin subtypes}}

\* What the other services answer with.
GetAllRoleCodes == DOMAIN Reference.counterpartyRoles
GetSupportedCurrencies == Reference.currencies
GetAllFeeTypeCodes == Reference.feeTypes

\* GiftProductTypeService.isSupported: any status but 200 means no.
IsSupported(a) ==
    /\ PayloadOf(a).productTypeCode \in Reference.productTypes
    /\ \A i \in DOMAIN heard[a] : heard[a][i] # "refused"

AsyncValidationErrors(a) ==
    LET payload == PayloadOf(a)
    IN  GenerateOverviewErrors(payload, IsSupported(a), GetSupportedCurrencies)
        \cup GenerateHighLevelErrors(payload, "currency", GetSupportedCurrencies)
        \cup GenerateArrayOfErrors(MapEntitiesByField(payload.counterparties, "roleCode"),
                                   GetAllRoleCodes, "counterparties", "roleCode")
        \cup GenerateCounterpartySharePercentageErrors(Reference.counterpartyRoles,
                                                       payload.counterparties)
        \cup GenerateArrayOfErrors(MapEntitiesByField(payload.fixedFees, "feeTypeCode"),
                                   GetAllFeeTypeCodes, "fixedFees", "feeTypeCode")
        \cup GenerateObligationSubtypeCodeErrors(
                 ObligationSubtypesOf(payload.productTypeCode),
                 GetObligationSubtypeCodes(payload.obligations))

-----------------------------------------------------------------------------
(* GiftFacilityAsyncValidationService.creation                             *)

\* The services an attempt asks, in order.
Services(a) ==
    LET payload == PayloadOf(a)
    IN  <<"counterpartyRoles", "productType", "currencies">>
        \o (IF HasFees(payload) THEN <<"feeTypes">> ELSE <<>>)
        \o (IF GetObligationSubtypeCodes(payload.obligations) # {}
            THEN <<"obligationSubtypes">> ELSE <<>>)

Asks(a, service) ==
    /\ pc[a] = "received"
    /\ Len(heard[a]) < Len(Services(a))
    /\ service = Services(a)[Len(heard[a]) + 1]

Hears(a, answer) == heard' = [heard EXCEPT ![a] = Append(@, answer)]

IsLast(a) == Len(heard[a]) + 1 = Len(Services(a))

\* The local variables of creation(), and its errors, are out of scope.
Forget(a) ==
    /\ heard' = [heard EXCEPT ![a] = <<>>]
    /\ errors' = [errors EXCEPT ![a] = {}]
    /\ UNCHANGED request

\* fixedFees may be null in a payload, where only undefined gets a default:
\* the currencies of the fees cannot be read.
Unreadable(a, service) == service = "currencies" /\ PayloadOf(a).fixedFees = Null

\* The call, or what follows it, throws; or GIFT never answers.  MDM is called
\* with a timeout.
Fails(a, service) ==
    /\ Asks(a, service)
    /\ AsyncValidation(a)
    /\ \/ pc'[a] = "finally" /\ result'[a] = "error"
       \/ pc'[a] = "unanswered" /\ service # "obligationSubtypes"
    /\ Forget(a)

GoesOn(a, service) ==
    /\ Asks(a, service)
    /\ ~IsLast(a)
    /\ ~Unreadable(a, service)
    /\ Hears(a, "answered") \/ (service = "productType" /\ Hears(a, "refused"))
    /\ UNCHANGED <<request, errors, vars>>

\* create() returns a 400 with the errors, or goes on when there is none.
Concludes(a, service) ==
    /\ Asks(a, service)
    /\ IsLast(a)
    /\ ~Unreadable(a, service)
    /\ AsyncValidation(a)
    /\ LET found == AsyncValidationErrors(a)
       IN  \/ found = {} /\ pc'[a] = "creating" /\ Forget(a)
           \/ /\ found # {}
              /\ pc'[a] = "finally" /\ result'[a] = "refused"
              /\ Hears(a, "answered")
              /\ errors' = [errors EXCEPT ![a] = found]
              /\ UNCHANGED request

Creation(a) ==
    \E service \in {"counterpartyRoles", "productType", "currencies", "feeTypes",
                    "obligationSubtypes"} :
        Fails(a, service) \/ GoesOn(a, service) \/ Concludes(a, service)

\* What create() does before and after async validation.
AroundValidation(a) ==
    \/ /\ \/ heard[a] = <<>> /\ RejectPayload(a)
          \/ CreateInitialFacility(a)
          \/ \E e \in Entities(FacilityOf[a]) : CreateOne(a, e)
          \/ CheckResponses(a)
          \/ Approved(a)
       /\ UNCHANGED validation
    \/ FinallyHandler(a) /\ Forget(a)

ValidatedHandle(a) == Creation(a) \/ AroundValidation(a)

ValidatedNext == \E a \in Attempts : ValidatedHandle(a) \/ (Crash(a) /\ Forget(a))

ValidatedSpec == ValidatedInit /\ [][ValidatedNext]_validatedVars

\* A call of MDM returns or throws, and one of GIFT does or is never answered;
\* in each case but the last the handler goes on.
FairValidatedSpec ==
    ValidatedSpec /\ \A a \in Attempts : WF_validatedVars(ValidatedHandle(a))

-----------------------------------------------------------------------------
(* Properties                                                              *)

\* GIFT never has a facility, not even in an open work package, from a payload
\* with a code that it or MDM does not support, whichever services were out and
\* however the attempts of a facility overlap (creation, before create-facility).
NothingUnsupportedIsCreated ==
    \A w \in WorkPackages :
        wpFacility[w] # None => Faults(request[wpFacility[w]]) = {}

SubtypeFaults(faults) == {fault \in faults : fault[3] = "subtypeCode"}

\* The errors of a 400 of async validation are the faults of the payload, each
\* named by its own entity and position, none missing and none made up.  The
\* exceptions are two: the position of an obligation's subtype is right only
\* when every obligation has one (their number is right always), and a product
\* type whose GET was refused is reported whatever it is.
ErrorsNameTheFaults ==
    \A a \in Attempts :
        LET payload == PayloadOf(a)
            faults == Faults(payload)
            misread == IF \E i \in DOMAIN heard[a] : heard[a][i] = "refused"
                       THEN {<<"overview", 0, "productTypeCode">>} ELSE {}
        IN  errors[a] # {} =>
                /\ errors[a] \ SubtypeFaults(errors[a])
                     = misread \cup (faults \ SubtypeFaults(faults))
                /\ Cardinality(SubtypeFaults(errors[a])) = Cardinality(SubtypeFaults(faults))
                /\ (\A i \in 1..Len(payload.obligations) :
                        payload.obligations[i].subtypeCode # Null)
                     => SubtypeFaults(errors[a]) = SubtypeFaults(faults)
=============================================================================
