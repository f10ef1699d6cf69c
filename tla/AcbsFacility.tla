---------------------------- MODULE AcbsFacility ----------------------------
(***************************************************************************)
(* Facilities: FacilityController, FacilityService, AcbsFacilityService.   *)
(* PUT /facilities reads the facility and then either writes it back with  *)
(* the request merged over what was read (issue, amendExpiryDate), or asks *)
(* for a bundle with the difference of the amounts (amendAmount).          *)
(***************************************************************************)
EXTENDS AcbsBundle

FACILITY ==
    [facilityInitialStatusCode |-> "P",
     capitalConversionFactorCode |-> [x \in {"250", "260"} |-> IF x = "250" THEN "1" ELSE "5"],
     capitalConversionFactorCodeFallback |-> "1",
     probabilityofDefault |-> 0,
     compBalPctReserveUnissued |-> 75,
     compBalPctReserveIssued |-> 100]

FACILITY_AMOUNT_TRANSACTION == [initialBundleStatusCode |-> SUBMIT_FOR_POSTING]
FACILITY_STAGES == [UNISSUED |-> "06", ISSUED |-> "07"]
FACILITY_TYPE_IDS == [BSS |-> "250", EWCS |-> "260", GEF |-> "280"]
FACILITY_UPDATE_OPERATIONS == {"issue", "amendExpiryDate", "amendAmount"}

\* The capital conversion factor is required of GEF facilities and the date
\* of issue of issued ones.
IsBaseFacilityRequestItem(item) ==
    /\ item.dealIdentifier \in Identifiers
    /\ item.productTypeId \in Range(FACILITY_TYPE_IDS)
    /\ item.currency \in Currencies
    /\ item.facilityStageCode \in Range(FACILITY_STAGES)
    /\ {item.maximumLiability, item.interestOrFeeRate, item.forecastPercentage} \subseteq Amounts
    /\ {item.dealBorrowerIdentifier, item.obligorPartyIdentifier, item.exposurePeriod,
        item.obligorIndustryClassification, item.agentBankIdentifier, item.riskCountryCode,
        item.riskStatusCode, item.creditRatingCode, item.premiumFrequencyCode,
        item.delegationType} \subseteq Texts
    /\ {item.effectiveDate, item.guaranteeExpiryDate, item.nextQuarterEndDate} \subseteq Dates
    /\ item.probabilityOfDefault \in Maybe(Amounts)
    /\ item.capitalConversionFactorCode \in
         IF item.productTypeId = FACILITY_TYPE_IDS.GEF THEN Texts ELSE Maybe(Texts)
    /\ item.issueDate \in
         IF item.facilityStageCode = FACILITY_STAGES.ISSUED THEN Dates ELSE Maybe(Dates)

IsBaseFacilityRequestItemWithFacilityIdentifier(item) ==
    IsBaseFacilityRequestItem(item) /\ item.facilityIdentifier \in Identifiers

IsFacilityUnissued(facilityStageCode) == facilityStageCode = FACILITY_STAGES.UNISSUED

\* buildFacilityStageDerivedValuesToCreate.
FacilityStageDerivedValues(facilityStageCode, issueDate) ==
    IF IsFacilityUnissued(facilityStageCode)
    THEN [CompBalPctReserve |-> FACILITY.compBalPctReserveUnissued,
          UserDefinedDate1 |-> None, IsUserDefinedDate1Zero |-> TRUE]
    ELSE [CompBalPctReserve |-> FACILITY.compBalPctReserveIssued,
          UserDefinedDate1 |-> AddTimeIfExists(issueDate), IsUserDefinedDate1Zero |-> FALSE]

CapitalConversionFactorCode(facility) ==
    LET codes == FACILITY.capitalConversionFactorCode
    IN  IF facility.capitalConversionFactorCode # None THEN facility.capitalConversionFactorCode
        ELSE IF facility.productTypeId \in DOMAIN codes THEN codes[facility.productTypeId]
        ELSE FACILITY.capitalConversionFactorCodeFallback

BuildBaseAcbsFacilityRequest(facility, facilityIdentifier) ==
    LET derived == FacilityStageDerivedValues(facility.facilityStageCode, facility.issueDate)
    IN  [CompBalPctReserve |-> derived.CompBalPctReserve,
         UserDefinedDate1 |-> derived.UserDefinedDate1,
         IsUserDefinedDate1Zero |-> derived.IsUserDefinedDate1Zero,
         FacilityIdentifier |-> facilityIdentifier,
         OriginalEffectiveDate |-> GetEarliestDateFromTodayAnd(facility.effectiveDate),
         BookingDate |-> AddTime(Today),
         ExpirationDate |-> AddTime(facility.guaranteeExpiryDate),
         OfficerRiskDate |-> AddTime(Today),
         CreditReviewRiskDate |-> AddTime(Today),
         UserDefinedDate2 |-> AddTime(facility.nextQuarterEndDate),
         CapitalConversionFactorCode |-> CapitalConversionFactorCode(facility),
         ProbabilityofDefault |-> OrDefault(facility.probabilityOfDefault,
                                            FACILITY.probabilityofDefault),
         DealIdentifier |-> facility.dealIdentifier,
         DealBorrowerPartyIdentifier |-> facility.dealBorrowerIdentifier,
         BorrowerPartyIdentifier |-> facility.obligorPartyIdentifier,
         FacilityTypeCode |-> facility.productTypeId,
         CurrencyCode |-> facility.currency,
         LimitAmount |-> facility.maximumLiability,
         ExternalReferenceIdentifier |-> facility.exposurePeriod,
         IndustryClassificationCode |-> facility.obligorIndustryClassification,
         AgentBankPartyIdentifier |-> facility.agentBankIdentifier,
         RiskCountryCode |-> facility.riskCountryCode,
         CreditReviewRiskTypeCode |-> facility.riskStatusCode,
         OfficerRiskRatingTypeCode |-> facility.creditRatingCode,
         FacilityReviewFrequencyTypeCode |-> facility.premiumFrequencyCode,
         FacilityUserDefinedList1Code |-> facility.facilityStageCode,
         FacilityUserDefinedList6Code |-> facility.delegationType,
         UserDefinedAmount3 |-> facility.interestOrFeeRate,
         CompBalPctAmount |-> facility.forecastPercentage]

BuildCreateAcbsFacilityRequest(facility) ==
    [FacilityInitialStatusCode |-> FACILITY.facilityInitialStatusCode]
    ++ BuildBaseAcbsFacilityRequest(facility, facility.facilityIdentifier)

AcbsFacilityRequestFieldsForIssueAndAmendExpiryDate(request, facility) ==
    [request EXCEPT !.OfficerRiskDate = AddTime(facility.effectiveDate),
                    !.CreditReviewRiskDate = AddTime(facility.effectiveDate)]

\* { ...existing, ...request, ...dates }, without the status that ACBS keeps.
BuildAcbsUpdateFacilityRequest(facility, facilityIdentifier, existing) ==
    AcbsFacilityRequestFieldsForIssueAndAmendExpiryDate(
        BuildBaseAcbsFacilityRequest(facility, facilityIdentifier), facility)
    ++ [field \in DOMAIN existing \ {"FacilityStatusCode"} |-> existing[field]]

AmendFacilityTypeCodeSwapped(newValue, oldValue) ==   \* variant: the wrong way round
    IF newValue < oldValue THEN FACILITY_TRANSACTION_TYPE_CODES.PLUS
    ELSE FACILITY_TRANSACTION_TYPE_CODES.MINUS

\* getAmendFacilityTypeConsumerCode and getUpdatedTransactionAmount.
AmendFacilityTypeCode(newValue, oldValue) ==
    IF newValue > oldValue THEN FACILITY_TRANSACTION_TYPE_CODES.PLUS
    ELSE FACILITY_TRANSACTION_TYPE_CODES.MINUS

UpdatedTransactionAmount(newValue, oldValue) ==
    IF newValue > oldValue THEN newValue - oldValue ELSE oldValue - newValue

BuildAmendFacilityAmountMessage(facility, existing) ==
    [type |-> "FacilityAmountTransaction",
     FacilityIdentifier |-> existing.FacilityIdentifier,
     EffectiveDate |-> existing.OriginalEffectiveDate,
     LimitKeyValue |-> existing.BorrowerPartyIdentifier,
     TypeCode |-> AmendFacilityTypeCode(facility.maximumLiability, existing.LimitAmount),
     TransactionAmount |-> UpdatedTransactionAmount(facility.maximumLiability,
                                                    existing.LimitAmount)]

\* getFacilityByIdentifier: both dates are the one ACBS calls date 2.
FacilityOfAcbs(facility, obligorName) ==
    [facilityIdentifier |-> facility.FacilityIdentifier,
     portfolioIdentifier |-> GLOBAL.portfolioIdentifier,
     capitalConversionFactorCode |-> facility.CapitalConversionFactorCode,
     guaranteeCommencementDate |-> RemoveTimeIfExists(facility.UserDefinedDate2),
     guaranteeExpiryDate |-> RemoveTimeIfExists(facility.ExpirationDate),
     nextQuarterEndDate |-> RemoveTimeIfExists(facility.UserDefinedDate2),
     facilityInitialStatus |-> facility.FacilityInitialStatusCode,
     facilityOverallStatus |-> facility.FacilityStatusCode,
     guaranteePercentage |-> facility.CompBalPctReserve,
     effectiveDate |-> RemoveTimeIfExists(facility.OriginalEffectiveDate),
     issueDate |-> RemoveTimeIfExists(facility.UserDefinedDate1),
     obligorName |-> obligorName,
     probabilityOfDefault |-> facility.ProbabilityofDefault,
     dealIdentifier |-> facility.DealIdentifier,
     dealBorrowerIdentifier |-> facility.DealBorrowerPartyIdentifier,
     obligorPartyIdentifier |-> facility.BorrowerPartyIdentifier,
     productTypeId |-> facility.FacilityTypeCode,
     currency |-> facility.CurrencyCode,
     maximumLiability |-> facility.LimitAmount,
     exposurePeriod |-> facility.ExternalReferenceIdentifier,
     obligorIndustryClassification |-> facility.IndustryClassificationCode,
     agentBankIdentifier |-> facility.AgentBankPartyIdentifier,
     riskCountryCode |-> facility.RiskCountryCode,
     riskStatusCode |-> facility.CreditReviewRiskTypeCode,
     creditRatingCode |-> facility.OfficerRiskRatingTypeCode,
     premiumFrequencyCode |-> facility.FacilityReviewFrequencyTypeCode,
     facilityStageCode |-> facility.FacilityUserDefinedList1Code,
     delegationType |-> facility.FacilityUserDefinedList6Code,
     interestOrFeeRate |-> facility.UserDefinedAmount3,
     forecastPercentage |-> facility.CompBalPctAmount]

\* The fields that ACBS has of every facility.
AcbsBaseFields ==
    {"FacilityIdentifier", "OriginalEffectiveDate", "BookingDate", "ExpirationDate",
     "OfficerRiskDate", "CreditReviewRiskDate", "UserDefinedDate2", "UserDefinedDate1",
     "IsUserDefinedDate1Zero", "CompBalPctReserve", "DealIdentifier", "FacilityTypeCode",
     "CurrencyCode", "FacilityUserDefinedList1Code", "UserDefinedAmount3", "CompBalPctAmount",
     "DealBorrowerPartyIdentifier", "BorrowerPartyIdentifier", "ExternalReferenceIdentifier",
     "IndustryClassificationCode", "AgentBankPartyIdentifier", "RiskCountryCode",
     "CreditReviewRiskTypeCode", "OfficerRiskRatingTypeCode", "FacilityReviewFrequencyTypeCode",
     "FacilityUserDefinedList6Code", "CapitalConversionFactorCode", "ProbabilityofDefault"}

IsAcbsBaseFacilityRequest(facility) ==
    /\ facility.FacilityIdentifier \in Identifiers
    /\ {facility.OriginalEffectiveDate, facility.BookingDate, facility.ExpirationDate,
        facility.OfficerRiskDate, facility.CreditReviewRiskDate,
        facility.UserDefinedDate2} \subseteq DateTimes
    /\ facility.UserDefinedDate1 \in Maybe(DateTimes)
    /\ facility.IsUserDefinedDate1Zero \in BOOLEAN
    /\ facility.CompBalPctReserve \in {75, 100}
    /\ facility.DealIdentifier \in Identifiers
    /\ facility.FacilityTypeCode \in Range(FACILITY_TYPE_IDS)
    /\ facility.CurrencyCode \in Currencies
    /\ facility.FacilityUserDefinedList1Code \in Range(FACILITY_STAGES)
    /\ {facility.UserDefinedAmount3, facility.CompBalPctAmount} \subseteq Amounts
    /\ {facility.DealBorrowerPartyIdentifier, facility.BorrowerPartyIdentifier,
        facility.ExternalReferenceIdentifier, facility.IndustryClassificationCode,
        facility.AgentBankPartyIdentifier, facility.RiskCountryCode,
        facility.CreditReviewRiskTypeCode, facility.OfficerRiskRatingTypeCode,
        facility.FacilityReviewFrequencyTypeCode,
        facility.FacilityUserDefinedList6Code} \subseteq Texts
    /\ facility.CapitalConversionFactorCode \in Texts \cup {"1", "5"}
    /\ facility.ProbabilityofDefault \in Amounts \cup {FACILITY.probabilityofDefault}

IsAcbsFacility(facility) ==
    /\ IsAcbsBaseFacilityRequest(facility)
    /\ AcbsBaseFields \cup {"LimitAmount", "FacilityInitialStatusCode"} \subseteq DOMAIN facility
    /\ facility.LimitAmount \in Int
    /\ facility.FacilityInitialStatusCode = FACILITY.facilityInitialStatusCode
    /\ facility.FacilityStatusCode \in Range(FACILITY_STATUSES)

IsGetFacilityByIdentifierResponse(facility) ==
    /\ facility.facilityIdentifier \in Identifiers
    /\ {facility.guaranteeCommencementDate, facility.guaranteeExpiryDate,
        facility.nextQuarterEndDate, facility.effectiveDate} \subseteq Dates
    /\ facility.issueDate \in Maybe(Dates)
    /\ facility.facilityOverallStatus \in Range(FACILITY_STATUSES)
    /\ facility.guaranteePercentage \in {75, 100}
    /\ facility.maximumLiability \in Int
    /\ facility.dealIdentifier \in Identifiers
    /\ facility.productTypeId \in Range(FACILITY_TYPE_IDS)
    /\ facility.currency \in Currencies
    /\ facility.facilityStageCode \in Range(FACILITY_STAGES)
    /\ {facility.interestOrFeeRate, facility.forecastPercentage} \subseteq Amounts
    /\ {facility.dealBorrowerIdentifier, facility.obligorPartyIdentifier,
        facility.exposurePeriod, facility.obligorIndustryClassification,
        facility.agentBankIdentifier, facility.riskCountryCode, facility.riskStatusCode,
        facility.creditRatingCode, facility.premiumFrequencyCode,
        facility.delegationType} \subseteq Texts
    /\ facility.capitalConversionFactorCode \in Texts \cup {"1", "5"}

CreateFacilityResponse == [facilityIdentifier : Identifiers]
UpdateFacilityFacilityIdentifierResponse == CreateFacilityResponse
UpdateFacilityBundleIdentifierResponse == CreateBundleResponse

-----------------------------------------------------------------------------
(* AcbsFacilityService.  ACBS refuses a second facility of an identifier.  *)

FacilityIndex(facilityIdentifier) ==
    CHOOSE i \in FacilityIndexes(acbs, facilityIdentifier) : TRUE

IfFacilityExists(facilityIdentifier, text, result) ==
    IF FacilityExists(facilityIdentifier) THEN result ELSE Refusal(text)

AcbsGetFacilityByIdentifier(facilityIdentifier) ==
    GetCall({"FacilityNotFound"},
        IF FacilityExists(facilityIdentifier)
        THEN Ok(acbs[FacilityIndex(facilityIdentifier)].data)
        ELSE Refusal("FacilityNotFound"))

AcbsCreateFacility(r, facilityIdentifier, facility, Then) ==
    Write(r, {},
          IF FacilityExists(facilityIdentifier) THEN Refusal("other")
          ELSE Ok(Added(r, "Facility", None,
                        [FacilityIdentifier |-> facilityIdentifier,
                         FacilityStatusCode |-> FACILITY_STATUSES.PENDING] ++ facility)),
          Then)

AcbsUpdateFacilityByIdentifier(r, facilityIdentifier, facility, Then) ==
    LET i == FacilityIndex(facilityIdentifier)
    IN  Write(r, {"FacilityNotFound"},
              IfFacilityExists(facilityIdentifier, "FacilityNotFound",
                  Ok(Replaced(r, i,
                      [FacilityIdentifier |-> facilityIdentifier,
                       FacilityStatusCode |-> acbs[i].data.FacilityStatusCode] ++ facility))),
              Then)

-----------------------------------------------------------------------------
(* The handlers.                                                           *)

FacilityIdentifier(r) == Params(r).facilityIdentifier

GetFacility(r) ==
    LET Found(facility) ==
            \E obligorName \in Texts : Reply(r, 200, FacilityOfAcbs(facility, obligorName))
    IN  \/ /\ Receives(r, "GET/facilities/<facilityIdentifier>")
           /\ Validated(r, FacilityIdentifier(r) \in Identifiers, Goto(r, "getFacility", None))
        \/ /\ pc[r] = "getFacility"
           /\ Get(r, AcbsGetFacilityByIdentifier(FacilityIdentifier(r)), Found)

CreateFacility(r) ==
    \/ /\ Receives(r, "POST/facilities")
       /\ ValidatedItems(r, \A item \in Range(Body(r)) :
                                IsBaseFacilityRequestItemWithFacilityIdentifier(item),
                         Goto(r, "createFacility", None))
    \/ /\ pc[r] = "createFacility"
       /\ AcbsCreateFacility(r, Body(r)[1].facilityIdentifier,
              BuildCreateAcbsFacilityRequest(Body(r)[1]),
              Reply(r, 201, [facilityIdentifier |-> Body(r)[1].facilityIdentifier]))

\* updateFacilityByOperation, up to its first call; issueFacilityByIdentifier
\* refuses what does not issue the facility.
ReceiveFacilityUpdate(r) ==
    LET issues == Body(r).issueDate # None /\ ~IsFacilityUnissued(Body(r).facilityStageCode)
    IN  /\ Receives(r, "PUT/facilities/<facilityIdentifier>")
        /\ Validated(r, /\ Params(r).op \in FACILITY_UPDATE_OPERATIONS
                        /\ FacilityIdentifier(r) \in Identifiers
                        /\ IsBaseFacilityRequestItem(Body(r)),
                     IF Params(r).op = "issue" /\ ~issues THEN Throw(r, "BadRequestException")
                     ELSE Goto(r, "getFacilityToUpdate", None))

GetFacilityToUpdate(r) ==
    LET Found(facility) ==
            Goto(r, IF Params(r).op = "amendAmount" THEN "amendFacility" ELSE "putFacility",
                 facility)
    IN  /\ pc[r] = "getFacilityToUpdate"
        /\ Get(r, AcbsGetFacilityByIdentifier(FacilityIdentifier(r)), Found)

\* issueFacilityByIdentifier and amendFacilityExpiryDateByIdentifier.
UpdateFacility(r) ==
    /\ pc[r] = "putFacility"
    /\ AcbsUpdateFacilityByIdentifier(r, FacilityIdentifier(r),
           BuildAcbsUpdateFacilityRequest(Body(r), FacilityIdentifier(r), local[r]),
           Reply(r, 200, [facilityIdentifier |-> FacilityIdentifier(r)]))

AmendFacilityAmount(r) ==
    /\ pc[r] = "amendFacility"
    /\ CreateBundleInformation(r, 200,
           BundleInformation(FACILITY_AMOUNT_TRANSACTION.initialBundleStatusCode, None,
                             <<BuildAmendFacilityAmountMessage(Body(r), local[r])>>))

FacilityHandler(r) ==
    \/ GetFacility(r)
    \/ CreateFacility(r)
    \/ ReceiveFacilityUpdate(r)
    \/ GetFacilityToUpdate(r)
    \/ UpdateFacility(r)
    \/ AmendFacilityAmount(r)
=============================================================================
