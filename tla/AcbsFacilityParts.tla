-------------------------- MODULE AcbsFacilityParts --------------------------
(***************************************************************************)
(* What belongs to a facility: its covenants, guarantees and investors.    *)
(* PATCH reads all the covenants, or guarantees, of a facility and then    *)
(* puts them back one at a time, each with the fields of the request       *)
(* merged over what was read.                                              *)
(***************************************************************************)
EXTENDS AcbsFacility

COVENANT_TYPE_CODES ==
    [UK_CONTRACT_VALUE |-> "43", CHARGEABLE_AMOUNT |-> "46", CHARGEABLE_AMOUNT_NOT_GBP |-> "47"]
COVENANT_NAMES ==
    {"CHARGEABLE AMOUNT", "AMOUNT OF SUPPORTED BOND", "AMOUNT OF SUPPORTED FACILITY"}
FACILITY_GUARANTEE == [lenderTypeCode |-> LENDER_TYPE_CODES.FIRST_LEVEL_OBLIGOR]
FACILITY_INVESTOR ==
    [involvedParty |-> "00000000", lenderTypeCode |-> LENDER_TYPE_CODES.ECGD,
     facilityStatusCode |-> "A"]
GUARANTEE_TYPE_CODES == {"310", "315", "321", "500"}

CreateFacilityCovenantRequestItem ==
    [covenantIdentifier : Identifiers, covenantType : Range(COVENANT_TYPE_CODES),
     maximumLiability : Amounts, currency : Texts, guaranteeExpiryDate : Dates,
     effectiveDate : Dates]

\* At least one of the fields: NonEmptyObjectRequestBodyValidationPipe.
UpdateFacilityCovenantsRequestDto ==
    [targetAmount : Maybe(Amounts), expirationDate : Maybe(Dates)]
        \ {[targetAmount |-> None, expirationDate |-> None]}

GetFacilityCovenantsResponseDto ==
    [facilityIdentifier : Identifiers, portfolioIdentifier : {GLOBAL.portfolioIdentifier},
     covenantIdentifier : Identifiers, covenantType : Range(COVENANT_TYPE_CODES),
     maximumLiability : Amounts, currency : Texts, guaranteeCommencementDate : Dates,
     effectiveDate : Dates, guaranteeExpiryDate : Dates]

AcbsCreateFacilityCovenantRequestDto ==
    [CovenantIdentifier : Identifiers, CovenantTypeCode : Range(COVENANT_TYPE_CODES),
     CovenantName : COVENANT_NAMES \cup Range(FACILITY_TYPE_IDS), LimitKeyValue : Texts,
     PledgeTypeCode : Texts, TargetAmount : Amounts, EffectiveDate : DateTimes,
     ComplianceStatusDate : DateTimes, NextReviewDate : DateTimes, ExpirationDate : DateTimes]

CreateFacilityGuaranteeRequestItem ==
    [effectiveDate : Dates, limitKey : Texts, guaranteeExpiryDate : Dates,
     maximumLiability : Amounts, guarantorParty : Texts,
     guaranteeTypeCode : GUARANTEE_TYPE_CODES]

UpdateFacilityGuaranteesRequestDto ==
    [guaranteedLimit : Maybe(Amounts), expirationDate : Maybe(Dates)]
        \ {[guaranteedLimit |-> None, expirationDate |-> None]}

GetFacilityGuaranteesResponseItem ==
    [facilityIdentifier : Identifiers, portfolioIdentifier : {GLOBAL.portfolioIdentifier},
     guaranteeCommencementDate : Dates, effectiveDate : Dates, guarantorParty : Texts,
     limitKey : Texts, guaranteeExpiryDate : Dates, maximumLiability : Amounts,
     guaranteeTypeCode : GUARANTEE_TYPE_CODES]

AcbsBaseFacilityGuarantee ==
    [LenderTypeCode : {FACILITY_GUARANTEE.lenderTypeCode}, LimitKey : Texts,
     GuarantorPartyIdentifier : Texts, GuaranteeTypeCode : GUARANTEE_TYPE_CODES,
     EffectiveDate : DateTimes, ExpirationDate : DateTimes, GuaranteedLimit : Amounts]

CreateFacilityInvestorRequestItem ==
    [effectiveDate : Dates, guaranteeExpiryDate : Dates, currency : Currencies,
     maximumLiability : Amounts, lenderType : Maybe(Range(LENDER_TYPE_CODES))]

GetFacilityInvestorResponseItem ==
    [facilityIdentifier : Identifiers, portfolioIdentifier : {GLOBAL.portfolioIdentifier},
     guaranteeCommencementDate : Dates, effectiveDate : Dates, currency : Currencies,
     guaranteeExpiryDate : Dates, maximumLiability : Amounts,
     lenderTypeCode : Range(LENDER_TYPE_CODES), involvedParty : {FACILITY_INVESTOR.involvedParty}]

AcbsCreateFacilityPartyDto ==
    [FacilityStatusCode : {FACILITY_INVESTOR.facilityStatusCode},
     InvolvedPartyIdentifier : {FACILITY_INVESTOR.involvedParty},
     EffectiveDate : DateTimes, ExpirationDate : DateTimes,
     LenderTypeCode : Range(LENDER_TYPE_CODES), CurrencyCode : Currencies,
     LimitAmount : Amounts]

CovenantName(covenantType, facilityTypeCode) ==
    IF covenantType \in {COVENANT_TYPE_CODES.CHARGEABLE_AMOUNT,
                         COVENANT_TYPE_CODES.CHARGEABLE_AMOUNT_NOT_GBP}
    THEN "CHARGEABLE AMOUNT"
    ELSE CASE facilityTypeCode = "250" -> "AMOUNT OF SUPPORTED BOND"
           [] \/ facilityTypeCode = "260"
              \/ covenantType = COVENANT_TYPE_CODES.UK_CONTRACT_VALUE /\ facilityTypeCode = "280"
                -> "AMOUNT OF SUPPORTED FACILITY"
           [] OTHER -> facilityTypeCode

CovenantToCreateInAcbs(facilityTypeCode, limitKeyValue, covenant) ==
    LET effectiveDate == AddTime(covenant.effectiveDate)
    IN  [CovenantIdentifier |-> covenant.covenantIdentifier,
         CovenantTypeCode |-> covenant.covenantType,
         CovenantName |-> CovenantName(covenant.covenantType, facilityTypeCode),
         LimitKeyValue |-> limitKeyValue,
         PledgeTypeCode |-> covenant.currency,
         TargetAmount |-> covenant.maximumLiability,
         EffectiveDate |-> effectiveDate,
         ComplianceStatusDate |-> effectiveDate,
         NextReviewDate |-> effectiveDate,
         ExpirationDate |-> AddTime(covenant.guaranteeExpiryDate)]

CovenantOfAcbs(facilityIdentifier, covenant) ==
    [facilityIdentifier |-> facilityIdentifier,
     portfolioIdentifier |-> GLOBAL.portfolioIdentifier,
     covenantIdentifier |-> covenant.CovenantIdentifier,
     covenantType |-> covenant.CovenantTypeCode,
     maximumLiability |-> covenant.TargetAmount,
     currency |-> covenant.PledgeTypeCode,
     guaranteeCommencementDate |-> RemoveTime(covenant.EffectiveDate),
     effectiveDate |-> RemoveTime(covenant.EffectiveDate),
     guaranteeExpiryDate |-> RemoveTime(covenant.ExpirationDate)]

GivenOrNull(value, old) == value   \* variant: what is not given is null

\* What the request gives, or what ACBS had; an amount of zero is given, as a
\* date never is.
Given(value, old) == OrDefault(value, old)

CovenantFieldsToUpdate(request, covenant) ==
    [covenant EXCEPT !.ExpirationDate = Given(AddTimeIfExists(request.expirationDate), @),
                     !.TargetAmount = Given(request.targetAmount, @)]

GuaranteeToCreateInAcbs(guarantee) ==
    [LenderTypeCode |-> FACILITY_GUARANTEE.lenderTypeCode,
     LimitKey |-> guarantee.limitKey,
     GuarantorPartyIdentifier |-> guarantee.guarantorParty,
     GuaranteeTypeCode |-> guarantee.guaranteeTypeCode,
     EffectiveDate |-> GetEarliestDateFromTodayAnd(guarantee.effectiveDate),
     ExpirationDate |-> AddTime(guarantee.guaranteeExpiryDate),
     GuaranteedLimit |-> RoundTo2DecimalPlaces(guarantee.maximumLiability)]

GuaranteeOfAcbs(facilityIdentifier, guarantee) ==
    [facilityIdentifier |-> facilityIdentifier,
     portfolioIdentifier |-> GLOBAL.portfolioIdentifier,
     guaranteeCommencementDate |-> RemoveTimeIfExists(guarantee.EffectiveDate),
     effectiveDate |-> RemoveTimeIfExists(guarantee.EffectiveDate),
     guarantorParty |-> guarantee.GuarantorPartyIdentifier,
     limitKey |-> guarantee.LimitKey,
     guaranteeExpiryDate |-> RemoveTimeIfExists(guarantee.ExpirationDate),
     maximumLiability |-> guarantee.GuaranteedLimit,
     guaranteeTypeCode |-> guarantee.GuaranteeTypeCode]

GuaranteeFieldsToUpdate(request, guarantee) ==
    [guarantee EXCEPT !.ExpirationDate = Given(AddTimeIfExists(request.expirationDate), @),
                      !.GuaranteedLimit = Given(request.guaranteedLimit, @)]

FacilityPartyToCreateInAcbs(investor) ==
    [FacilityStatusCode |-> FACILITY_INVESTOR.facilityStatusCode,
     InvolvedPartyIdentifier |-> FACILITY_INVESTOR.involvedParty,
     EffectiveDate |-> AddTime(investor.effectiveDate),
     ExpirationDate |-> AddTime(investor.guaranteeExpiryDate),
     LenderTypeCode |-> OrDefault(investor.lenderType, FACILITY_INVESTOR.lenderTypeCode),
     CurrencyCode |-> investor.currency,
     LimitAmount |-> investor.maximumLiability]

FacilityInvestorOfAcbs(facilityIdentifier, investor) ==
    [facilityIdentifier |-> facilityIdentifier,
     portfolioIdentifier |-> GLOBAL.portfolioIdentifier,
     guaranteeCommencementDate |-> RemoveTime(investor.EffectiveDate),
     effectiveDate |-> RemoveTime(investor.EffectiveDate),
     currency |-> investor.CurrencyCode,
     guaranteeExpiryDate |-> RemoveTime(investor.ExpirationDate),
     maximumLiability |-> investor.LimitAmount,
     lenderTypeCode |-> investor.LenderTypeCode,
     involvedParty |-> investor.InvolvedPartyIdentifier]

-----------------------------------------------------------------------------
(* Calls of ACBS.  It answers with no covenants for a facility it does not *)
(* have.  What is replaced is found again by what identifies it: the       *)
(* covenant's identifier, or the guarantee's type and its party.           *)

AcbsCreateCovenantForFacility(r, facilityIdentifier, covenant, Then) ==
    Write(r, {"FacilityNotFound"},
          IfFacilityExists(facilityIdentifier, "FacilityNotFound",
              Ok(Added(r, "FacilityCovenant", facilityIdentifier, covenant))), Then)

AcbsGetCovenantsForFacility(facilityIdentifier) ==
    GetCall({}, Ok(DataOf("FacilityCovenant", facilityIdentifier)))

\* A PUT of a part of a facility, which ACBS looks for among those it found.
AcbsReplace(r, found, data, Then) ==
    Write(r, {"FacilityNotFound"},
          IF found = {} THEN Refusal("FacilityNotFound")
          ELSE Ok(Replaced(r, CHOOSE i \in found : TRUE, data)),
          Then)

AcbsReplaceCovenantForFacility(r, facilityIdentifier, covenant, Then) ==
    AcbsReplace(r,
        {i \in Indexes("FacilityCovenant", facilityIdentifier) :
            acbs[i].data.CovenantIdentifier = covenant.CovenantIdentifier},
        covenant, Then)

AcbsCreateGuaranteeForFacility(r, facilityIdentifier, guarantee, Then) ==
    Write(r, {"FacilityNotFound"},
          IfFacilityExists(facilityIdentifier, "FacilityNotFound",
              Ok(Added(r, "FacilityGuarantee", facilityIdentifier, guarantee))), Then)

AcbsGetGuaranteesForFacility(facilityIdentifier) ==
    LET guarantees == DataOf("FacilityGuarantee", facilityIdentifier)
    IN  GetCall({}, IF guarantees = <<>> THEN Null ELSE Ok(guarantees))

AcbsReplaceGuaranteeForFacility(r, facilityIdentifier, guarantee, Then) ==
    AcbsReplace(r,
        {i \in Indexes("FacilityGuarantee", facilityIdentifier) :
            /\ acbs[i].data.GuaranteeTypeCode = guarantee.GuaranteeTypeCode
            /\ acbs[i].data.GuarantorPartyIdentifier = guarantee.GuarantorPartyIdentifier},
        guarantee, Then)

AcbsCreatePartyForFacility(r, facilityIdentifier, party, Then) ==
    Write(r, {"FacilityNotFound"},
          IfFacilityExists(facilityIdentifier, "FacilityNotFound",
              Ok(Added(r, "FacilityParty", facilityIdentifier, party))), Then)

\* Its failures are wrapped as those of a write.
AcbsGetFacilityPartiesForFacility(facilityIdentifier) ==
    [GetCall({}, IF FacilityExists(facilityIdentifier)
                 THEN Ok(DataOf("FacilityParty", facilityIdentifier)) ELSE Null)
        EXCEPT !.ofWrite = TRUE]

-----------------------------------------------------------------------------
(* The handlers.                                                           *)

AnswerFacility(r, status) == Reply(r, status, [facilityIdentifier |-> FacilityIdentifier(r)])

\* The answer to a GET of the parts that Get finds.
ReplyEach(r, OfAcbs(_, _), parts) ==
    Reply(r, 200, [i \in DOMAIN parts |-> OfAcbs(FacilityIdentifier(r), parts[i])])

\* A GET or PATCH whose parameter is validated, up to its first call.
ReceivesFor(r, op, valid, label) ==
    /\ Receives(r, op)
    /\ Validated(r, FacilityIdentifier(r) \in Identifiers /\ valid, Goto(r, label, None))

\* An array body whose first item is taken only after the facility is read.
ReceivesArrayFor(r, op, Item, label) ==
    ReceivesFor(r, op, \A item \in Range(Body(r)) : item \in Item, label)

ReceivesItemFor(r, op, Item, label) ==
    /\ Receives(r, op)
    /\ ValidatedItem(r, FacilityIdentifier(r) \in Identifiers, Item, Goto(r, label, None))

\* FacilityController's read of the facility, by other controllers.
ReadFacilityThen(r, Then(_)) ==
    LET Found(facility) ==
            IF Body(r) = <<>> THEN Throw(r, "TypeError") ELSE Then(facility)
    IN  Get(r, AcbsGetFacilityByIdentifier(FacilityIdentifier(r)), Found)

CreateCovenantForFacility(r) ==
    LET Read(facility) == Goto(r, "createCovenant", facility)
    IN  \/ ReceivesArrayFor(r, "POST/facilities/<facilityIdentifier>/covenants",
                            CreateFacilityCovenantRequestItem, "getFacilityOfCovenant")
        \/ pc[r] = "getFacilityOfCovenant" /\ ReadFacilityThen(r, Read)
        \/ /\ pc[r] = "createCovenant"
           /\ AcbsCreateCovenantForFacility(r, FacilityIdentifier(r),
                  CovenantToCreateInAcbs(local[r].FacilityTypeCode,
                                         local[r].BorrowerPartyIdentifier, Body(r)[1]),
                  AnswerFacility(r, 201))

GetCovenantsForFacility(r) ==
    LET Found(covenants) == ReplyEach(r, CovenantOfAcbs, covenants)
    IN  \/ ReceivesFor(r, "GET/facilities/<facilityIdentifier>/covenants", TRUE, "getCovenants")
        \/ /\ pc[r] = "getCovenants"
           /\ Get(r, AcbsGetCovenantsForFacility(FacilityIdentifier(r)), Found)

PutNextButLast(r, label, parts) ==   \* variant: stops one early
    IF Len(parts) < 2 THEN AnswerFacility(r, 200) ELSE Goto(r, label, parts)

\* The next of what is left to put back, or the answer.
PutNext(r, label, parts) ==
    IF parts = <<>> THEN AnswerFacility(r, 200) ELSE Goto(r, label, parts)

UpdateCovenantsForFacility(r) ==
    LET Found(covenants) == PutNext(r, "putCovenant", covenants)
    IN  \/ ReceivesFor(r, "PATCH/facilities/<facilityIdentifier>/covenants",
                       Body(r) \in UpdateFacilityCovenantsRequestDto, "getCovenantsToUpdate")
        \/ /\ pc[r] = "getCovenantsToUpdate"
           /\ Get(r, AcbsGetCovenantsForFacility(FacilityIdentifier(r)), Found)
        \/ /\ pc[r] = "putCovenant"
           /\ AcbsReplaceCovenantForFacility(r, FacilityIdentifier(r),
                  CovenantFieldsToUpdate(Body(r), Head(local[r])),
                  PutNext(r, "putCovenant", Tail(local[r])))

CreateGuaranteeForFacility(r) ==
    \/ ReceivesItemFor(r, "POST/facilities/<facilityIdentifier>/guarantees",
                       CreateFacilityGuaranteeRequestItem, "createFacilityGuarantee")
    \/ /\ pc[r] = "createFacilityGuarantee"
       /\ AcbsCreateGuaranteeForFacility(r, FacilityIdentifier(r),
              GuaranteeToCreateInAcbs(Body(r)[1]), AnswerFacility(r, 201))

GetGuaranteesForFacility(r) ==
    LET Found(guarantees) == ReplyEach(r, GuaranteeOfAcbs, guarantees)
    IN  \/ ReceivesFor(r, "GET/facilities/<facilityIdentifier>/guarantees", TRUE,
                       "getFacilityGuarantees")
        \/ /\ pc[r] = "getFacilityGuarantees"
           /\ Get(r, AcbsGetGuaranteesForFacility(FacilityIdentifier(r)), Found)

UpdateGuaranteesForFacility(r) ==
    LET Found(guarantees) == PutNext(r, "putGuarantee", guarantees)
    IN  \/ ReceivesFor(r, "PATCH/facilities/<facilityIdentifier>/guarantees",
                       Body(r) \in UpdateFacilityGuaranteesRequestDto,
                       "getGuaranteesToUpdate")
        \/ /\ pc[r] = "getGuaranteesToUpdate"
           /\ Get(r, AcbsGetGuaranteesForFacility(FacilityIdentifier(r)), Found)
        \/ /\ pc[r] = "putGuarantee"
           /\ AcbsReplaceGuaranteeForFacility(r, FacilityIdentifier(r),
                  GuaranteeFieldsToUpdate(Body(r), Head(local[r])),
                  PutNext(r, "putGuarantee", Tail(local[r])))

CreateInvestorForFacility(r) ==
    \/ ReceivesItemFor(r, "POST/facilities/<facilityIdentifier>/investors",
                       CreateFacilityInvestorRequestItem, "createFacilityInvestor")
    \/ /\ pc[r] = "createFacilityInvestor"
       /\ AcbsCreatePartyForFacility(r, FacilityIdentifier(r),
              FacilityPartyToCreateInAcbs(Body(r)[1]), AnswerFacility(r, 201))

GetInvestorsForFacility(r) ==
    LET Found(investors) == ReplyEach(r, FacilityInvestorOfAcbs, investors)
    IN  \/ ReceivesFor(r, "GET/facilities/<facilityIdentifier>/investors", TRUE,
                       "getFacilityInvestors")
        \/ /\ pc[r] = "getFacilityInvestors"
           /\ Get(r, AcbsGetFacilityPartiesForFacility(FacilityIdentifier(r)), Found)

FacilityPartHandler(r) ==
    \/ CreateCovenantForFacility(r)
    \/ GetCovenantsForFacility(r)
    \/ UpdateCovenantsForFacility(r)
    \/ CreateGuaranteeForFacility(r)
    \/ GetGuaranteesForFacility(r)
    \/ UpdateGuaranteesForFacility(r)
    \/ CreateInvestorForFacility(r)
    \/ GetInvestorsForFacility(r)
=============================================================================
