------------------------ MODULE TfsApiReadBack_proofs ------------------------
(***************************************************************************)
(* That what is sent to ACBS and then read from it is what was asked for:  *)
(* what the conversions of the code come to, one after the other, then     *)
(* that what a request writes stays as it was sent while clients wait, and *)
(* last that a GET finds it.                                               *)
(***************************************************************************)
EXTENDS TfsApiTypes_proofs

-----------------------------------------------------------------------------
(* What is read back of what was sent.                                     *)

\* The fields that may be read other than as they were asked for.
ReadDifferently ==
    {"effectiveDate", "guaranteeCommencementDate", "issueDate", "maximumLiability",
     "dealCustomerUsageRate", "indexRateChangeFrequency", "dealValue"}

LEMMA ReadAsItIs ==
  ASSUME NEW op, NEW asked, NEW name, name \notin ReadDifferently
  PROVE  MayRead(op, asked, name) = {asked[name]}
BY DEF MayRead, ReadDifferently

\* Dates come back as they were sent, or as today if that is earlier.
LEMMA DatesReadBack ==
  ASSUME NEW date \in Dates
  PROVE  /\ RemoveTime(AddTime(date)) = date
         /\ RemoveTimeIfExists(AddTime(date)) = date
         /\ RemoveTimeIfExists(GetEarliestDateFromTodayAnd(date)) = Earliest(Today, date)
         /\ RemoveTime(GetEarliestDateFromTodayAnd(date)) = Earliest(Today, date)
<1>1. Earliest(Today, date) \in Dates
  BY AcbsHttpAssumption DEF Earliest
<1>2. \A d \in Dates : AddTime(d) # None /\ AddTime(d)[1] = d
  BY AcbsHttpAssumption DEF AddTime
<1> QED BY <1>1, <1>2 DEF RemoveTime, RemoveTimeIfExists, GetEarliestDateFromTodayAnd

\* A party, as it is sent and then read.
LEMMA PartyReadBack ==
  ASSUME NEW op, NEW party \in CreatePartyRequestItem
  PROVE  IsReadBack(op, party, PartyOfAcbs(BuildAcbsCreatePartyRequest(party)))
<1> DEFINE item == PartyOfAcbs(BuildAcbsCreatePartyRequest(party))
<1>1. DOMAIN item \cap ReadDifferently = {}
  BY DEF PartyOfAcbs, ReadDifferently
<1>2. RemoveTimeIfExists(AddTime(party.officerRiskDate)) = party.officerRiskDate
  BY DatesReadBack DEF CreatePartyRequestItem
<1>3. ASSUME NEW name \in DOMAIN item \cap DOMAIN party, party[name] # None
      PROVE  item[name] = party[name]
  <2>1. name \in {"alternateIdentifier", "industryClassification", "name1", "name2", "name3",
                  "smeType", "citizenshipClass", "officerRiskDate", "countryCode"}
    BY <1>3 DEF PartyOfAcbs
  <2>2. /\ item.alternateIdentifier = party.alternateIdentifier
        /\ item.industryClassification = party.industryClassification
        /\ item.name1 = party.name1
        /\ party.name2 # None => item.name2 = party.name2
        /\ party.name3 # None => item.name3 = party.name3
        /\ item.smeType = party.smeType
        /\ item.citizenshipClass = party.citizenshipClass
        /\ item.officerRiskDate = party.officerRiskDate
        /\ party.countryCode # None => item.countryCode = party.countryCode
    BY <1>2 DEF PartyOfAcbs, BuildAcbsCreatePartyRequest, OrDefault
  <2> HIDE DEF item
  <2> QED BY <1>3, <2>1, <2>2
<1> HIDE DEF item
<1>4. IsReadBack(op, party, item)
  BY <1>1, <1>3, ReadAsItIs DEF IsReadBack
<1> QED BY <1>4 DEF item

\* A deal, as it is sent and then read.
LEMMA DealReadBack ==
  ASSUME NEW deal \in CreateDealRequestItem, NEW name
  PROVE  IsReadBack("POST/deals", deal,
                    DealOfAcbs(BuildAcbsRequestBodyToCreateDeal(deal), name))
<1> DEFINE item == DealOfAcbs(BuildAcbsRequestBodyToCreateDeal(deal), name)
<1>1. DOMAIN item \cap ReadDifferently = {"guaranteeCommencementDate", "dealValue"}
  BY DEF DealOfAcbs, ReadDifferently
<1>2. item.guaranteeCommencementDate = Earliest(Today, deal.guaranteeCommencementDate)
  BY DatesReadBack DEF CreateDealRequestItem, DealOfAcbs, BuildAcbsRequestBodyToCreateDeal
<1>3. /\ item.guaranteeCommencementDate \in MayRead("POST/deals", deal, "guaranteeCommencementDate")
      /\ item.dealValue \in MayRead("POST/deals", deal, "dealValue")
  BY <1>2 DEF MayRead, DealOfAcbs, BuildAcbsRequestBodyToCreateDeal
<1>4. ASSUME NEW field \in (DOMAIN item \cap DOMAIN deal) \ ReadElsewhere("POST/deals"),
             field \notin ReadDifferently
      PROVE  item[field] = deal[field]
  <2>1. field \in {"dealIdentifier", "currency", "obligorPartyIdentifier",
                   "obligorIndustryClassification"}
    BY <1>4 DEF CreateDealRequestItem, ReadElsewhere, ReadDifferently
  <2>2. /\ item.dealIdentifier = deal.dealIdentifier
        /\ item.currency = deal.currency
        /\ item.obligorPartyIdentifier = deal.obligorPartyIdentifier
        /\ item.obligorIndustryClassification = deal.obligorIndustryClassification
    BY DEF DealOfAcbs, BuildAcbsRequestBodyToCreateDeal
  <2> HIDE DEF item
  <2> QED BY <2>1, <2>2
<1> HIDE DEF item
<1>5. IsReadBack("POST/deals", deal, item)
  BY <1>1, <1>3, <1>4, ReadAsItIs DEF IsReadBack
<1> QED BY <1>5 DEF item

\* A guarantee of a deal, as it is sent and then read.
LEMMA DealGuaranteeReadBack ==
  ASSUME NEW op, NEW guarantee \in CreateDealGuaranteeRequestItem, NEW dealIdentifier
  PROVE  IsReadBack(op, guarantee,
                    DealGuaranteeOfAcbs(dealIdentifier, DealGuaranteeToCreateInAcbs(guarantee)))
<1> DEFINE item == DealGuaranteeOfAcbs(dealIdentifier, DealGuaranteeToCreateInAcbs(guarantee))
<1>1. DOMAIN item \cap DOMAIN guarantee =
        {"effectiveDate", "limitKey", "guaranteeExpiryDate", "maximumLiability",
         "guarantorParty"}
  BY DEF DealGuaranteeOfAcbs, CreateDealGuaranteeRequestItem
<1>2. /\ item.effectiveDate = Earliest(Today, guarantee.effectiveDate)
      /\ item.guaranteeExpiryDate = guarantee.guaranteeExpiryDate
      /\ item.limitKey = guarantee.limitKey
      /\ guarantee.guarantorParty # None => item.guarantorParty = guarantee.guarantorParty
      /\ item.maximumLiability = RoundTo2DecimalPlaces(guarantee.maximumLiability)
  BY DatesReadBack DEF DealGuaranteeOfAcbs, DealGuaranteeToCreateInAcbs, OrDefault,
                       CreateDealGuaranteeRequestItem
<1> HIDE DEF item
<1>3. item.effectiveDate \in MayRead(op, guarantee, "effectiveDate")
  BY <1>2 DEF MayRead
<1>4. item.maximumLiability \in MayRead(op, guarantee, "maximumLiability")
  BY <1>2 DEF MayRead
<1>5. {"limitKey", "guaranteeExpiryDate", "guarantorParty"} \cap ReadDifferently = {}
  BY DEF ReadDifferently
<1>6. IsReadBack(op, guarantee, item)
  BY <1>1, <1>2, <1>3, <1>4, <1>5, ReadAsItIs DEF IsReadBack
<1> QED BY <1>6 DEF item

\* An investor in a deal, as it is sent and then read.
LEMMA DealInvestorReadBack ==
  ASSUME NEW op, NEW investor \in CreateDealInvestorRequestItem, NEW dealIdentifier
  PROVE  IsReadBack(op, investor,
                    DealInvestorOfAcbs(dealIdentifier, DealInvestorToCreateInAcbs(investor)))
<1> DEFINE item == DealInvestorOfAcbs(dealIdentifier, DealInvestorToCreateInAcbs(investor))
<1>1. DOMAIN item \cap DOMAIN investor = {"lenderType", "effectiveDate", "expiryDate"}
  BY DEF DealInvestorOfAcbs, CreateDealInvestorRequestItem
<1>2. /\ item.effectiveDate = Earliest(Today, investor.effectiveDate)
      /\ investor.expiryDate # None => item.expiryDate = investor.expiryDate
      /\ investor.lenderType # None => item.lenderType = investor.lenderType
  BY DatesReadBack DEF DealInvestorOfAcbs, DealInvestorToCreateInAcbs, OrDefault,
                       CreateDealInvestorRequestItem, Maybe
<1> HIDE DEF item
<1>3. item.effectiveDate \in MayRead(op, investor, "effectiveDate")
  BY <1>2 DEF MayRead
<1>4. {"lenderType", "expiryDate"} \cap ReadDifferently = {}
  BY DEF ReadDifferently
<1>5. IsReadBack(op, investor, item)
  BY <1>1, <1>2, <1>3, <1>4, ReadAsItIs DEF IsReadBack
<1> QED BY <1>5 DEF item

\* A covenant, as it is sent and then read.
LEMMA CovenantReadBack ==
  ASSUME NEW op, NEW covenant \in CreateFacilityCovenantRequestItem,
         NEW facilityTypeCode, NEW limitKeyValue, NEW facilityIdentifier
  PROVE  IsReadBack(op, covenant,
             CovenantOfAcbs(facilityIdentifier,
                            CovenantToCreateInAcbs(facilityTypeCode, limitKeyValue, covenant)))
<1> DEFINE item == CovenantOfAcbs(facilityIdentifier,
                       CovenantToCreateInAcbs(facilityTypeCode, limitKeyValue, covenant))
<1>1. DOMAIN item \cap DOMAIN covenant =
        {"covenantIdentifier", "covenantType", "maximumLiability", "currency",
         "guaranteeExpiryDate", "effectiveDate"}
  BY DEF CovenantOfAcbs, CreateFacilityCovenantRequestItem
<1>2. /\ item.covenantIdentifier = covenant.covenantIdentifier
      /\ item.covenantType = covenant.covenantType
      /\ item.maximumLiability = covenant.maximumLiability
      /\ item.currency = covenant.currency
      /\ item.guaranteeExpiryDate = covenant.guaranteeExpiryDate
      /\ item.effectiveDate = covenant.effectiveDate
  BY DatesReadBack DEF CovenantOfAcbs, CovenantToCreateInAcbs, CreateFacilityCovenantRequestItem
<1> HIDE DEF item
<1>3. item.effectiveDate \in MayRead(op, covenant, "effectiveDate")
  BY <1>2 DEF MayRead
<1>4. item.maximumLiability \in MayRead(op, covenant, "maximumLiability")
  BY <1>2 DEF MayRead
<1>5. {"covenantIdentifier", "covenantType", "currency", "guaranteeExpiryDate"}
        \cap ReadDifferently = {}
  BY DEF ReadDifferently
<1>6. IsReadBack(op, covenant, item)
  BY <1>1, <1>2, <1>3, <1>4, <1>5, ReadAsItIs DEF IsReadBack
<1> QED BY <1>6 DEF item

\* A guarantee of a facility, as it is sent and then read.
LEMMA FacilityGuaranteeReadBack ==
  ASSUME NEW op, NEW guarantee \in CreateFacilityGuaranteeRequestItem, NEW facilityIdentifier
  PROVE  IsReadBack(op, guarantee,
                    GuaranteeOfAcbs(facilityIdentifier, GuaranteeToCreateInAcbs(guarantee)))
<1> DEFINE item == GuaranteeOfAcbs(facilityIdentifier, GuaranteeToCreateInAcbs(guarantee))
<1>1. DOMAIN item \cap DOMAIN guarantee =
        {"effectiveDate", "limitKey", "guaranteeExpiryDate", "maximumLiability",
         "guarantorParty", "guaranteeTypeCode"}
  BY DEF GuaranteeOfAcbs, CreateFacilityGuaranteeRequestItem
<1>2. /\ item.effectiveDate = Earliest(Today, guarantee.effectiveDate)
      /\ item.guaranteeExpiryDate = guarantee.guaranteeExpiryDate
      /\ item.limitKey = guarantee.limitKey
      /\ item.guarantorParty = guarantee.guarantorParty
      /\ item.guaranteeTypeCode = guarantee.guaranteeTypeCode
      /\ item.maximumLiability = RoundTo2DecimalPlaces(guarantee.maximumLiability)
  BY DatesReadBack DEF GuaranteeOfAcbs, GuaranteeToCreateInAcbs,
                       CreateFacilityGuaranteeRequestItem
<1> HIDE DEF item
<1>3. item.effectiveDate \in MayRead(op, guarantee, "effectiveDate")
  BY <1>2 DEF MayRead
<1>4. item.maximumLiability \in MayRead(op, guarantee, "maximumLiability")
  BY <1>2 DEF MayRead
<1>5. {"limitKey", "guaranteeExpiryDate", "guarantorParty", "guaranteeTypeCode"}
        \cap ReadDifferently = {}
  BY DEF ReadDifferently
<1>6. IsReadBack(op, guarantee, item)
  BY <1>1, <1>2, <1>3, <1>4, <1>5, ReadAsItIs DEF IsReadBack
<1> QED BY <1>6 DEF item

\* An investor in a facility, as it is sent and then read.
LEMMA FacilityInvestorReadBack ==
  ASSUME NEW op, NEW investor \in CreateFacilityInvestorRequestItem, NEW facilityIdentifier
  PROVE  IsReadBack(op, investor,
             FacilityInvestorOfAcbs(facilityIdentifier, FacilityPartyToCreateInAcbs(investor)))
<1> DEFINE item ==
      FacilityInvestorOfAcbs(facilityIdentifier, FacilityPartyToCreateInAcbs(investor))
<1>1. DOMAIN item \cap DOMAIN investor =
        {"effectiveDate", "guaranteeExpiryDate", "currency", "maximumLiability"}
  BY DEF FacilityInvestorOfAcbs, CreateFacilityInvestorRequestItem
<1>2. /\ item.effectiveDate = investor.effectiveDate
      /\ item.guaranteeExpiryDate = investor.guaranteeExpiryDate
      /\ item.currency = investor.currency
      /\ item.maximumLiability = investor.maximumLiability
  BY DatesReadBack DEF FacilityInvestorOfAcbs, FacilityPartyToCreateInAcbs,
                       CreateFacilityInvestorRequestItem
<1> HIDE DEF item
<1>3. item.effectiveDate \in MayRead(op, investor, "effectiveDate")
  BY <1>2 DEF MayRead
<1>4. item.maximumLiability \in MayRead(op, investor, "maximumLiability")
  BY <1>2 DEF MayRead
<1>5. {"guaranteeExpiryDate", "currency"} \cap ReadDifferently = {}
  BY DEF ReadDifferently
<1>6. IsReadBack(op, investor, item)
  BY <1>1, <1>2, <1>3, <1>4, <1>5, ReadAsItIs DEF IsReadBack
<1> QED BY <1>6 DEF item

\* A fixed fee, as it is sent and then read.
LEMMA FeeReadBack ==
  ASSUME NEW op, NEW fee \in CreateFacilityFixedFeeRequestItem,
         NEW facility, NEW facilityIdentifier
  PROVE  IsReadBack(op, fee,
                    FixedFeeOfAcbs(facilityIdentifier, FixedFeeToCreateInAcbs(facility, fee)))
<1> DEFINE item == FixedFeeOfAcbs(facilityIdentifier, FixedFeeToCreateInAcbs(facility, fee))
<1>1. DOMAIN item \cap DOMAIN fee =
        {"amount", "effectiveDate", "expirationDate", "nextDueDate", "nextAccrueToDate",
         "period", "currency", "lenderTypeCode", "incomeClassCode"}
  BY DEF FixedFeeOfAcbs, CreateFacilityFixedFeeRequestItem
<1>2. /\ item.amount = fee.amount
      /\ item.effectiveDate = Earliest(Today, fee.effectiveDate)
      /\ item.expirationDate = fee.expirationDate
      /\ item.nextDueDate = fee.nextDueDate
      /\ item.nextAccrueToDate = fee.nextAccrueToDate
      /\ item.period = fee.period
      /\ item.currency = fee.currency
      /\ item.lenderTypeCode = fee.lenderTypeCode
      /\ fee.incomeClassCode # None => item.incomeClassCode = fee.incomeClassCode
  BY DatesReadBack DEF FixedFeeOfAcbs, FixedFeeToCreateInAcbs, OrDefault,
                       CreateFacilityFixedFeeRequestItem
<1> HIDE DEF item
<1>3. item.effectiveDate \in MayRead(op, fee, "effectiveDate")
  BY <1>2 DEF MayRead
<1>4. {"amount", "expirationDate", "nextDueDate", "nextAccrueToDate", "period", "currency",
       "lenderTypeCode", "incomeClassCode"} \cap ReadDifferently = {}
  BY DEF ReadDifferently
<1>5. IsReadBack(op, fee, item)
  BY <1>1, <1>2, <1>3, <1>4, ReadAsItIs DEF IsReadBack
<1> QED BY <1>5 DEF item

\* What ACBS keeps of the facility that POST /facilities asks for.
FacilityAsSent(facility) ==
    [FacilityIdentifier |-> facility.facilityIdentifier,
     FacilityStatusCode |-> FACILITY_STATUSES.PENDING]
    ++ BuildCreateAcbsFacilityRequest(facility)

LEMMA FacilityKept ==
  ASSUME NEW facility
  PROVE  LET base == BuildBaseAcbsFacilityRequest(facility, facility.facilityIdentifier)
         IN  \A field \in DOMAIN base : FacilityAsSent(facility)[field] = base[field]
<1> DEFINE base == BuildBaseAcbsFacilityRequest(facility, facility.facilityIdentifier)
           initial == [FacilityInitialStatusCode |-> FACILITY.facilityInitialStatusCode]
           kept == [FacilityIdentifier |-> facility.facilityIdentifier,
                    FacilityStatusCode |-> FACILITY_STATUSES.PENDING]
<1>1. /\ "FacilityInitialStatusCode" \notin DOMAIN base
      /\ "FacilityStatusCode" \notin DOMAIN base
      /\ base.FacilityIdentifier = facility.facilityIdentifier
  BY DEF BuildBaseAcbsFacilityRequest
<1>2. /\ DOMAIN initial = {"FacilityInitialStatusCode"}
      /\ DOMAIN kept = {"FacilityIdentifier", "FacilityStatusCode"}
      /\ kept.FacilityIdentifier = facility.facilityIdentifier
  OBVIOUS
<1>3. FacilityAsSent(facility) = kept ++ (initial ++ base)
  BY DEF FacilityAsSent, BuildCreateAcbsFacilityRequest
<1> HIDE DEF base, initial, kept
<1>4. \A field \in DOMAIN base :
        field \in DOMAIN (initial ++ base) /\ (initial ++ base)[field] = base[field]
  <2>1. DOMAIN base \subseteq DOMAIN (initial ++ base)
    BY Merged
  <2>2. \A field \in DOMAIN base \ DOMAIN initial : (initial ++ base)[field] = base[field]
    BY Merged
  <2> QED BY <1>1, <1>2, <2>1, <2>2
<1> DEFINE request == initial ++ base
<1> HIDE DEF request
<1>5. \A field \in DOMAIN base : (kept ++ request)[field] = base[field]
  <2>1. \A field \in DOMAIN request \ DOMAIN kept : (kept ++ request)[field] = request[field]
    BY Merged
  <2>2. \A field \in DOMAIN kept : (kept ++ request)[field] = kept[field]
    BY Merged
  <2>3. \A field \in DOMAIN base : field \in DOMAIN request /\ request[field] = base[field]
    BY <1>4 DEF request
  <2> QED BY <1>1, <1>2, <2>1, <2>2, <2>3
<1> QED BY <1>3, <1>5 DEF request, base

\* A facility, as it is sent and then read.
LEMMA FacilityReadBack ==
  ASSUME NEW facility, IsBaseFacilityRequestItemWithFacilityIdentifier(facility), NEW name
  PROVE  IsReadBack("POST/facilities", facility, FacilityOfAcbs(FacilityAsSent(facility), name))
<1> DEFINE sent == FacilityAsSent(facility)
           base == BuildBaseAcbsFacilityRequest(facility, facility.facilityIdentifier)
           derived == FacilityStageDerivedValues(facility.facilityStageCode, facility.issueDate)
           item == FacilityOfAcbs(sent, name)
<1>1. \A field \in DOMAIN base : sent[field] = base[field]
  BY FacilityKept
<1>2. /\ sent.CapitalConversionFactorCode = CapitalConversionFactorCode(facility)
      /\ sent.UserDefinedDate1 = derived.UserDefinedDate1
      /\ sent.UserDefinedDate2 = AddTime(facility.nextQuarterEndDate)
      /\ sent.ExpirationDate = AddTime(facility.guaranteeExpiryDate)
      /\ sent.OriginalEffectiveDate = GetEarliestDateFromTodayAnd(facility.effectiveDate)
      /\ sent.ProbabilityofDefault = OrDefault(facility.probabilityOfDefault,
                                               FACILITY.probabilityofDefault)
      /\ sent.FacilityIdentifier = facility.facilityIdentifier
      /\ sent.DealIdentifier = facility.dealIdentifier
      /\ sent.DealBorrowerPartyIdentifier = facility.dealBorrowerIdentifier
      /\ sent.BorrowerPartyIdentifier = facility.obligorPartyIdentifier
      /\ sent.FacilityTypeCode = facility.productTypeId
      /\ sent.CurrencyCode = facility.currency
      /\ sent.LimitAmount = facility.maximumLiability
  BY <1>1 DEF BuildBaseAcbsFacilityRequest
<1>3. /\ sent.ExternalReferenceIdentifier = facility.exposurePeriod
      /\ sent.IndustryClassificationCode = facility.obligorIndustryClassification
      /\ sent.AgentBankPartyIdentifier = facility.agentBankIdentifier
      /\ sent.RiskCountryCode = facility.riskCountryCode
      /\ sent.CreditReviewRiskTypeCode = facility.riskStatusCode
      /\ sent.OfficerRiskRatingTypeCode = facility.creditRatingCode
      /\ sent.FacilityReviewFrequencyTypeCode = facility.premiumFrequencyCode
      /\ sent.FacilityUserDefinedList1Code = facility.facilityStageCode
      /\ sent.FacilityUserDefinedList6Code = facility.delegationType
      /\ sent.UserDefinedAmount3 = facility.interestOrFeeRate
      /\ sent.CompBalPctAmount = facility.forecastPercentage
  BY <1>1 DEF BuildBaseAcbsFacilityRequest
<1> HIDE DEF sent, base
<1>4. /\ RemoveTimeIfExists(AddTime(facility.nextQuarterEndDate)) = facility.nextQuarterEndDate
      /\ RemoveTimeIfExists(AddTime(facility.guaranteeExpiryDate)) = facility.guaranteeExpiryDate
      /\ RemoveTimeIfExists(GetEarliestDateFromTodayAnd(facility.effectiveDate))
           = Earliest(Today, facility.effectiveDate)
  BY DatesReadBack DEF IsBaseFacilityRequestItemWithFacilityIdentifier, IsBaseFacilityRequestItem
<1>5. RemoveTimeIfExists(derived.UserDefinedDate1)
        = IF IsFacilityUnissued(facility.facilityStageCode) THEN None ELSE facility.issueDate
  <2>1. facility.issueDate \in Dates \cup {None}
    BY DEF IsBaseFacilityRequestItemWithFacilityIdentifier, IsBaseFacilityRequestItem, Maybe
  <2>2. RemoveTimeIfExists(AddTimeIfExists(facility.issueDate)) = facility.issueDate
    BY <2>1, DatesReadBack DEF AddTimeIfExists, RemoveTimeIfExists
  <2> QED BY <2>2 DEF FacilityStageDerivedValues, RemoveTimeIfExists
<1> HIDE DEF derived
<1>6. /\ item.effectiveDate = Earliest(Today, facility.effectiveDate)
      /\ item.issueDate
           = IF IsFacilityUnissued(facility.facilityStageCode) THEN None ELSE facility.issueDate
      /\ item.maximumLiability = facility.maximumLiability
  BY <1>2, <1>4, <1>5 DEF FacilityOfAcbs
<1>7. /\ facility.capitalConversionFactorCode # None =>
           item.capitalConversionFactorCode = facility.capitalConversionFactorCode
      /\ facility.probabilityOfDefault # None =>
           item.probabilityOfDefault = facility.probabilityOfDefault
      /\ item.nextQuarterEndDate = facility.nextQuarterEndDate
      /\ item.guaranteeExpiryDate = facility.guaranteeExpiryDate
      /\ item.facilityIdentifier = facility.facilityIdentifier
      /\ item.dealIdentifier = facility.dealIdentifier
      /\ item.dealBorrowerIdentifier = facility.dealBorrowerIdentifier
      /\ item.obligorPartyIdentifier = facility.obligorPartyIdentifier
      /\ item.productTypeId = facility.productTypeId
      /\ item.currency = facility.currency
  BY <1>2, <1>4 DEF FacilityOfAcbs, CapitalConversionFactorCode, OrDefault
<1>8. /\ item.exposurePeriod = facility.exposurePeriod
      /\ item.obligorIndustryClassification = facility.obligorIndustryClassification
      /\ item.agentBankIdentifier = facility.agentBankIdentifier
      /\ item.riskCountryCode = facility.riskCountryCode
      /\ item.riskStatusCode = facility.riskStatusCode
      /\ item.creditRatingCode = facility.creditRatingCode
      /\ item.premiumFrequencyCode = facility.premiumFrequencyCode
      /\ item.facilityStageCode = facility.facilityStageCode
      /\ item.delegationType = facility.delegationType
      /\ item.interestOrFeeRate = facility.interestOrFeeRate
      /\ item.forecastPercentage = facility.forecastPercentage
  BY <1>3 DEF FacilityOfAcbs
<1>9. DOMAIN item \ ReadElsewhere("POST/facilities") =
        {"effectiveDate", "issueDate", "maximumLiability"} \cup
        {"capitalConversionFactorCode", "probabilityOfDefault", "nextQuarterEndDate",
         "guaranteeExpiryDate", "facilityIdentifier", "dealIdentifier",
         "dealBorrowerIdentifier", "obligorPartyIdentifier", "productTypeId", "currency",
         "exposurePeriod", "obligorIndustryClassification", "agentBankIdentifier",
         "riskCountryCode", "riskStatusCode", "creditRatingCode", "premiumFrequencyCode",
         "facilityStageCode", "delegationType", "interestOrFeeRate", "forecastPercentage"}
  BY DEF FacilityOfAcbs, ReadElsewhere
<1> HIDE DEF item
<1>10. /\ item.effectiveDate \in MayRead("POST/facilities", facility, "effectiveDate")
       /\ item.issueDate \in MayRead("POST/facilities", facility, "issueDate")
       /\ item.maximumLiability \in MayRead("POST/facilities", facility, "maximumLiability")
  BY <1>6 DEF MayRead
<1>11. ASSUME NEW field \in (DOMAIN item \cap DOMAIN facility) \ ReadElsewhere("POST/facilities"),
              facility[field] # None, field \notin {"effectiveDate", "issueDate", "maximumLiability"}
       PROVE  item[field] \in MayRead("POST/facilities", facility, field)
  <2>1. item[field] = facility[field]
    BY <1>7, <1>8, <1>9, <1>11
  <2>2. field \notin ReadDifferently
    BY <1>9, <1>11 DEF ReadDifferently
  <2> QED BY <2>1, <2>2, ReadAsItIs
<1>12. IsReadBack("POST/facilities", facility, item)
  BY <1>10, <1>11 DEF IsReadBack
<1> QED BY <1>12 DEF item, sent

\* The rate of the first accrual schedule of a loan, and of the second that a loan
\* of the working capital scheme has, are found by their categories.
LEMMA FirstOfOne ==
  ASSUME NEW a, NEW loan, loan.AccrualScheduleList = <<a>>, NEW code, NEW field
  PROVE  OfFirstAccrual(loan, code, field)
           = IF a.AccrualCategoryCode = code THEN a[field] ELSE None
<1> DEFINE accruals == loan.AccrualScheduleList
           found == {k \in DOMAIN accruals : accruals[k].AccrualCategoryCode = code}
<1>1. DOMAIN accruals = {1} /\ accruals[1] = a
  OBVIOUS
<1>2. found = IF a.AccrualCategoryCode = code THEN {1} ELSE {}
  BY <1>1
<1>3. Min({1}) = 1
  BY LeastIsOne
<1>4. OfFirstAccrual(loan, code, field)
        = IF found = {} THEN None ELSE accruals[Min(found)][field]
  BY DEF OfFirstAccrual
<1> HIDE DEF found, accruals
<1> QED BY <1>1, <1>2, <1>3, <1>4

LEMMA FirstOfTwo ==
  ASSUME NEW a, NEW b, NEW loan, loan.AccrualScheduleList = <<a, b>>, NEW code, NEW field,
         a.AccrualCategoryCode # b.AccrualCategoryCode,
         code \in {a.AccrualCategoryCode, b.AccrualCategoryCode}
  PROVE  OfFirstAccrual(loan, code, field)
           = IF a.AccrualCategoryCode = code THEN a[field] ELSE b[field]
<1> DEFINE accruals == loan.AccrualScheduleList
           found == {k \in DOMAIN accruals : accruals[k].AccrualCategoryCode = code}
<1>1. DOMAIN accruals = {1, 2} /\ accruals[1] = a /\ accruals[2] = b
  OBVIOUS
<1>2. found = IF a.AccrualCategoryCode = code THEN {1} ELSE {2}
  BY <1>1
<1>3. Min({1}) = 1 /\ Min({2}) = 2
  BY LeastIsOne
<1>4. OfFirstAccrual(loan, code, field)
        = IF found = {} THEN None ELSE accruals[Min(found)][field]
  BY DEF OfFirstAccrual
<1> HIDE DEF found, accruals
<1> QED BY <1>1, <1>2, <1>3, <1>4

LEMMA AccrualsReadBack ==
  ASSUME NEW loan, NEW message, message.AccrualScheduleList = AccrualSchedules(loan)
  PROVE  /\ OfFirstAccrual(message, ACCRUAL.PAC, "SpreadRate") = loan.spreadRate
         /\ OfFirstAccrual(message, ACCRUAL.INT_RFR, "IndexRateChangeFrequencyCode")
              = IF loan.productTypeGroup = PRODUCT_TYPE_GROUPS.EWCS /\ loan.currency = "USD"
                THEN loan.indexRateChangeFrequency ELSE None
         /\ message.AccrualScheduleList[1].YearBasisCode = loan.yearBasis
<1>1. /\ AccrualPac(loan).AccrualCategoryCode = "PAC01"
      /\ AccrualPac(loan).SpreadRate = loan.spreadRate
      /\ AccrualPac(loan).YearBasisCode = loan.yearBasis
      /\ AccrualNonRfr(loan).AccrualCategoryCode = "CTL01"
      /\ AccrualNonRfr(loan).IndexRateChangeFrequencyCode = loan.indexRateChangeFrequency
      /\ AccrualRfr(loan).AccrualCategoryCode = "CTL01"
      /\ AccrualRfr(loan).IndexRateChangeFrequencyCode = None
  BY DEF AccrualPac, AccrualNonRfr, AccrualRfr, BaseAccrualSchedule, ACCRUAL
<1>2. ACCRUAL.PAC = "PAC01" /\ ACCRUAL.INT_RFR = "CTL01"
  BY DEF ACCRUAL
<1>3. CASE loan.productTypeGroup # PRODUCT_TYPE_GROUPS.EWCS
  <2>1. message.AccrualScheduleList = <<AccrualPac(loan)>>
    BY <1>3 DEF AccrualSchedules
  <2>2. \A code, field : OfFirstAccrual(message, code, field)
          = IF AccrualPac(loan).AccrualCategoryCode = code THEN AccrualPac(loan)[field] ELSE None
    BY <2>1, FirstOfOne
  <2> QED BY <1>1, <1>2, <1>3, <2>1, <2>2
<1>4. CASE loan.productTypeGroup = PRODUCT_TYPE_GROUPS.EWCS
  <2> DEFINE ctl == IF loan.currency = "USD" THEN AccrualNonRfr(loan) ELSE AccrualRfr(loan)
  <2>1. message.AccrualScheduleList = <<AccrualPac(loan), ctl>>
    BY <1>4 DEF AccrualSchedules
  <2>2. /\ ctl.AccrualCategoryCode = "CTL01"
        /\ ctl.IndexRateChangeFrequencyCode
             = IF loan.currency = "USD" THEN loan.indexRateChangeFrequency ELSE None
    BY <1>1
  <2> HIDE DEF ctl
  <2>3. \A field : OfFirstAccrual(message, "PAC01", field) = AccrualPac(loan)[field]
    BY <1>1, <2>1, <2>2, FirstOfTwo
  <2>4. \A field : OfFirstAccrual(message, "CTL01", field) = ctl[field]
    BY <1>1, <2>1, <2>2, FirstOfTwo
  <2> QED BY <1>1, <1>2, <1>4, <2>1, <2>2, <2>3, <2>4
<1> QED BY <1>3, <1>4

LEMMA RepaymentsReadBack ==
  ASSUME NEW loan
  PROVE  /\ RepaymentSchedules(loan)[1].NextDueDate = AddTime(loan.nextDueDate)
         /\ RepaymentSchedules(loan)[1].LoanBillingFrequencyTypeCode
              = loan.loanBillingFrequencyType
<1>1. \A schedule, primary, paymentAmount :
        LET repayment == BaseRepaymentSchedule(loan, schedule, primary, paymentAmount)
        IN  /\ repayment.NextDueDate = AddTime(loan.nextDueDate)
            /\ repayment.LoanBillingFrequencyTypeCode = loan.loanBillingFrequencyType
  BY DEF BaseRepaymentSchedule
<1> DEFINE Repays(repayment) ==
             /\ repayment.NextDueDate = AddTime(loan.nextDueDate)
             /\ repayment.LoanBillingFrequencyTypeCode = loan.loanBillingFrequencyType
<1>2. Repays(RepaymentInt(loan)) /\ Repays(RepaymentPac(loan)) /\ Repays(RepaymentPacBss(loan))
  BY <1>1 DEF RepaymentInt, RepaymentPac, RepaymentPacBss
<1>3. RepaymentSchedules(loan)[1]
        \in {RepaymentInt(loan), RepaymentPac(loan), RepaymentPacBss(loan)}
  BY DEF RepaymentSchedules
<1> QED BY <1>3, <1>2

\* A loan, in the bundle of its request, as it is sent and then read.
LEMMA LoanReadBack ==
  ASSUME NEW op, op # "POST/facilities", NEW loan \in CreateFacilityLoanRequestItem,
         NEW facilityIdentifier, NEW bundle, bundle.PostingDate = AddTime(loan.postingDate)
  PROVE  IsReadBack(op, loan,
                    MapLoanTransaction(bundle, NewLoanMessage(facilityIdentifier, loan)))
<1> DEFINE message == NewLoanMessage(facilityIdentifier, loan)
           item == MapLoanTransaction(bundle, message)
           rate == IF loan.dealCustomerUsageRate = 0 THEN None ELSE loan.dealCustomerUsageRate
<1>1. DOMAIN item \cap DOMAIN loan =
        {"issueDate", "dealCustomerUsageRate", "indexRateChangeFrequency"} \cup
        {"postingDate", "borrowerPartyIdentifier", "productTypeId", "productTypeGroup",
         "currency", "dealCustomerUsageOperationType", "amount", "expiryDate", "spreadRate",
         "yearBasis", "nextDueDate", "loanBillingFrequencyType"}
  BY DEF MapLoanTransaction, CreateFacilityLoanRequestItem
<1>2. /\ message.BorrowerPartyIdentifier = loan.borrowerPartyIdentifier
      /\ message.ProductTypeCode = loan.productTypeId
      /\ message.ProductGroupCode = loan.productTypeGroup
      /\ message.CurrencyCode = loan.currency
      /\ message.LoanAmount = loan.amount
      /\ message.EffectiveDate = GetEarliestDateFromTodayAnd(loan.issueDate)
      /\ message.MaturityDate = AddTime(loan.expiryDate)
      /\ message.DealCustomerUsageRate = rate
      /\ message.DealCustomerUsageOperationType = loan.dealCustomerUsageOperationType
      /\ message.AccrualScheduleList = AccrualSchedules(loan)
      /\ message.RepaymentScheduleList = RepaymentSchedules(loan)
  BY DEF NewLoanMessage
<1> HIDE DEF message
<1>3. /\ OfFirstAccrual(message, ACCRUAL.PAC, "SpreadRate") = loan.spreadRate
      /\ OfFirstAccrual(message, ACCRUAL.INT_RFR, "IndexRateChangeFrequencyCode")
           = IF loan.productTypeGroup = PRODUCT_TYPE_GROUPS.EWCS /\ loan.currency = "USD"
             THEN loan.indexRateChangeFrequency ELSE None
      /\ message.AccrualScheduleList[1].YearBasisCode = loan.yearBasis
  BY <1>2, AccrualsReadBack
<1>4. /\ message.RepaymentScheduleList[1].NextDueDate = AddTime(loan.nextDueDate)
      /\ message.RepaymentScheduleList[1].LoanBillingFrequencyTypeCode
           = loan.loanBillingFrequencyType
  BY <1>2, RepaymentsReadBack
<1>5. /\ RemoveTime(bundle.PostingDate) = loan.postingDate
      /\ RemoveTime(message.EffectiveDate) = Earliest(Today, loan.issueDate)
      /\ RemoveTime(message.MaturityDate) = loan.expiryDate
      /\ RemoveTimeIfExists(AddTime(loan.nextDueDate)) = loan.nextDueDate
  BY <1>2, DatesReadBack DEF CreateFacilityLoanRequestItem
<1>6. /\ item.issueDate = Earliest(Today, loan.issueDate)
      /\ item.dealCustomerUsageRate = rate
      /\ item.indexRateChangeFrequency
           = IF loan.productTypeGroup = PRODUCT_TYPE_GROUPS.EWCS /\ loan.currency = "USD"
             THEN loan.indexRateChangeFrequency ELSE None
  BY <1>2, <1>3, <1>5 DEF MapLoanTransaction
<1>7. /\ item.postingDate = loan.postingDate
      /\ item.borrowerPartyIdentifier = loan.borrowerPartyIdentifier
      /\ item.productTypeId = loan.productTypeId
      /\ item.productTypeGroup = loan.productTypeGroup
      /\ item.currency = loan.currency
      /\ item.dealCustomerUsageOperationType = loan.dealCustomerUsageOperationType
      /\ item.amount = loan.amount
      /\ item.expiryDate = loan.expiryDate
      /\ item.spreadRate = loan.spreadRate
      /\ item.yearBasis = loan.yearBasis
      /\ item.nextDueDate = loan.nextDueDate
      /\ item.loanBillingFrequencyType = loan.loanBillingFrequencyType
  BY <1>2, <1>3, <1>4, <1>5 DEF MapLoanTransaction
<1> HIDE DEF item
<1>8. /\ item.issueDate \in MayRead(op, loan, "issueDate")
      /\ item.dealCustomerUsageRate \in MayRead(op, loan, "dealCustomerUsageRate")
      /\ item.indexRateChangeFrequency \in MayRead(op, loan, "indexRateChangeFrequency")
  BY <1>6 DEF MayRead
<1>9. {"postingDate", "borrowerPartyIdentifier", "productTypeId", "productTypeGroup",
       "currency", "dealCustomerUsageOperationType", "amount", "expiryDate", "spreadRate",
       "yearBasis", "nextDueDate", "loanBillingFrequencyType"} \cap ReadDifferently = {}
  BY DEF ReadDifferently
<1>10. IsReadBack(op, loan, item)
  BY <1>1, <1>7, <1>8, <1>9, ReadAsItIs DEF IsReadBack
<1> QED BY <1>10 DEF item, message

\* Whatever a POST is asked for, the GET of the same thing shows again: each entity
\* is written with one set of ACBS names and read with another, in different
\* services, with defaults, capped dates, derived codes and rounding in between,
\* and every field that both the request and the answer have comes back as it was,
\* or as MayRead says.
THEOREM ConversionsReadBack ==
  /\ \A party \in CreatePartyRequestItem :
       IsReadBack("POST/parties", party, PartyOfAcbs(BuildAcbsCreatePartyRequest(party)))
  /\ \A deal \in CreateDealRequestItem : \A name :
       IsReadBack("POST/deals", deal,
                  DealOfAcbs(BuildAcbsRequestBodyToCreateDeal(deal), name))
  /\ \A guarantee \in CreateDealGuaranteeRequestItem : \A id :
       IsReadBack("POST/deals/<dealIdentifier>/guarantees", guarantee,
                  DealGuaranteeOfAcbs(id, DealGuaranteeToCreateInAcbs(guarantee)))
  /\ \A investor \in CreateDealInvestorRequestItem : \A id :
       IsReadBack("POST/deals/<dealIdentifier>/investors", investor,
                  DealInvestorOfAcbs(id, DealInvestorToCreateInAcbs(investor)))
  /\ \A facility, name :
       IsBaseFacilityRequestItemWithFacilityIdentifier(facility) =>
         IsReadBack("POST/facilities", facility,
                    FacilityOfAcbs(FacilityAsSent(facility), name))
  /\ \A covenant \in CreateFacilityCovenantRequestItem : \A typeCode, limitKey, id :
       IsReadBack("POST/facilities/<facilityIdentifier>/covenants", covenant,
                  CovenantOfAcbs(id, CovenantToCreateInAcbs(typeCode, limitKey, covenant)))
  /\ \A guarantee \in CreateFacilityGuaranteeRequestItem : \A id :
       IsReadBack("POST/facilities/<facilityIdentifier>/guarantees", guarantee,
                  GuaranteeOfAcbs(id, GuaranteeToCreateInAcbs(guarantee)))
  /\ \A investor \in CreateFacilityInvestorRequestItem : \A id :
       IsReadBack("POST/facilities/<facilityIdentifier>/investors", investor,
                  FacilityInvestorOfAcbs(id, FacilityPartyToCreateInAcbs(investor)))
  /\ \A fee \in CreateFacilityFixedFeeRequestItem : \A facility, id :
       IsReadBack("POST/facilities/<facilityIdentifier>/fixed-fees", fee,
                  FixedFeeOfAcbs(id, FixedFeeToCreateInAcbs(facility, fee)))
  /\ \A loan \in CreateFacilityLoanRequestItem : \A bundle, id :
       bundle.PostingDate = AddTime(loan.postingDate) =>
         IsReadBack("POST/facilities/<facilityIdentifier>/loans", loan,
                    MapLoanTransaction(bundle, NewLoanMessage(id, loan)))
BY PartyReadBack, DealReadBack, DealGuaranteeReadBack, DealInvestorReadBack,
   FacilityReadBack, CovenantReadBack, FacilityGuaranteeReadBack,
   FacilityInvestorReadBack, FeeReadBack, LoanReadBack
-----------------------------------------------------------------------------
(* What is in ACBS of a request that creates something.                    *)

\* An entity of request p is what p asked for, of the kinds that are read back.
\* POST /parties and POST /deals write other things too, and so does ACBS when
\* it posts the bundle of a loan.
IsSentFor(p, entity, kind, owner, Item) ==
    entity.kind = kind /\ entity.owner = owner /\ Body(p)[1] \in Item

IsSent(p, entity) ==
    LET asked == Body(p)[1]
    IN  /\ Op(p) = "POST/parties" /\ entity.kind = "Party" =>
             /\ asked \in CreatePartyRequestItem
             /\ entity.data = BuildAcbsCreatePartyRequest(asked)
        /\ Op(p) = "POST/deals" /\ entity.kind = "Deal" =>
             /\ IsSentFor(p, entity, "Deal", GLOBAL.portfolioIdentifier, CreateDealRequestItem)
             /\ entity.data = BuildAcbsRequestBodyToCreateDeal(asked)
        /\ Op(p) = "POST/deals/<dealIdentifier>/guarantees" =>
             /\ IsSentFor(p, entity, "DealGuarantee", DealIdentifier(p),
                          CreateDealGuaranteeRequestItem)
             /\ entity.data = DealGuaranteeToCreateInAcbs(asked)
        /\ Op(p) = "POST/deals/<dealIdentifier>/investors" =>
             /\ IsSentFor(p, entity, "DealParty", DealIdentifier(p),
                          CreateDealInvestorRequestItem)
             /\ entity.data = DealInvestorToCreateInAcbs(asked)
        /\ Op(p) = "POST/facilities" =>
             /\ entity.kind = "Facility"
             /\ IsBaseFacilityRequestItemWithFacilityIdentifier(asked)
             /\ entity.data = FacilityAsSent(asked)
        /\ Op(p) = "POST/facilities/<facilityIdentifier>/covenants" =>
             /\ IsSentFor(p, entity, "FacilityCovenant", FacilityIdentifier(p),
                          CreateFacilityCovenantRequestItem)
             /\ \E typeCode, limitKey :
                    entity.data = CovenantToCreateInAcbs(typeCode, limitKey, asked)
        /\ Op(p) = "POST/facilities/<facilityIdentifier>/guarantees" =>
             /\ IsSentFor(p, entity, "FacilityGuarantee", FacilityIdentifier(p),
                          CreateFacilityGuaranteeRequestItem)
             /\ entity.data = GuaranteeToCreateInAcbs(asked)
        /\ Op(p) = "POST/facilities/<facilityIdentifier>/investors" =>
             /\ IsSentFor(p, entity, "FacilityParty", FacilityIdentifier(p),
                          CreateFacilityInvestorRequestItem)
             /\ entity.data = FacilityPartyToCreateInAcbs(asked)
        /\ Op(p) = "POST/facilities/<facilityIdentifier>/fixed-fees" =>
             /\ IsSentFor(p, entity, "FixedFee", FacilityIdentifier(p),
                          CreateFacilityFixedFeeRequestItem)
             /\ \E facility : entity.data = FixedFeeToCreateInAcbs(facility, asked)
        /\ Op(p) = "POST/facilities/<facilityIdentifier>/loans"
           /\ entity.kind = "BundleInformation" =>
             /\ asked \in CreateFacilityLoanRequestItem
             /\ entity.data.PostingDate = AddTime(asked.postingDate)
             /\ entity.data.BundleMessageList = <<NewLoanMessage(FacilityIdentifier(p), asked)>>

\* A bundle of a later request was posted, which may have amended what p wrote.
LaterPosted(p) == \E b \in DOMAIN acbs : Posted(b) /\ acbs[b].by > p

IsOf(p, i, kind) == i \in DOMAIN acbs /\ acbs[i].by = p /\ acbs[i].kind = kind

\* A 201 names what the path or the body names, or a thing that the request
\* created; so does what POST /parties and POST /deals go on with.
HasCreated(p) ==
    LET body == answer[p].body
    IN  /\ Answered(p, {201}) =>
             /\ Op(p) = "POST/parties" =>
                  \E n \in DOMAIN acbs : body = [partyIdentifier |-> n] /\ IsOf(p, n, "Party")
             /\ Op(p) = "POST/deals" =>
                  /\ body = [dealIdentifier |-> Body(p)[1].dealIdentifier]
                  /\ \E i \in DOMAIN acbs : IsOf(p, i, "Deal")
             /\ Op(p) \in {"POST/deals/<dealIdentifier>/guarantees",
                           "POST/deals/<dealIdentifier>/investors"} =>
                  body = [dealIdentifier |-> DealIdentifier(p)]
             /\ Op(p) = "POST/facilities" =>
                  body = [facilityIdentifier |-> Body(p)[1].facilityIdentifier]
             /\ Op(p) \in {"POST/facilities/<facilityIdentifier>/covenants",
                           "POST/facilities/<facilityIdentifier>/guarantees",
                           "POST/facilities/<facilityIdentifier>/investors",
                           "POST/facilities/<facilityIdentifier>/fixed-fees"} =>
                  body = [facilityIdentifier |-> FacilityIdentifier(p)]
             /\ Op(p) = "POST/facilities/<facilityIdentifier>/loans" =>
                  \E n \in DOMAIN acbs : body = [bundleIdentifier |-> n] /\ IsOf(p, n, "BundleInformation")
        /\ Op(p) = "POST/parties" /\ pc[p] \in {"getRatings", "findCustomers", "createRating"}
           /\ local[p].status = 201 => IsOf(p, local[p].partyIdentifier, "Party")
        /\ Op(p) = "POST/deals" /\ pc[p] = "restrictDeal" =>
             \E i \in DOMAIN acbs : IsOf(p, i, "Deal")

\* What a request wrote is as it asked, unless ACBS has posted a bundle of a
\* later one.
WrittenAsAsked ==
    /\ \A i \in DOMAIN acbs : acbs[i].by \in Requests \cup {0}
    /\ \A p \in Requests : \A i \in DOMAIN acbs :
         acbs[i].by = p => (IsSent(p, acbs[i]) \/ LaterPosted(p)) /\ pc[p] # "received"

\* Nothing is of a later request than the one whose bundle is to be posted.
PendingIsLatest ==
    \A b, i \in DOMAIN acbs : Pending(b) => acbs[i].by <= acbs[b].by

\* In a serial workload all that holds, and what is created is read back.
ReadInv ==
    workload.serial =>
        /\ WrittenAsAsked
        /\ \A p \in Requests : HasCreated(p)
        /\ PendingIsLatest
        /\ CreatedIsReadBack

-----------------------------------------------------------------------------
(* What a step of a request does for that.                                 *)

Creations ==
    {"POST/parties", "POST/deals", "POST/deals/<dealIdentifier>/guarantees",
     "POST/deals/<dealIdentifier>/investors", "POST/facilities",
     "POST/facilities/<facilityIdentifier>/covenants",
     "POST/facilities/<facilityIdentifier>/guarantees",
     "POST/facilities/<facilityIdentifier>/investors",
     "POST/facilities/<facilityIdentifier>/fixed-fees",
     "POST/facilities/<facilityIdentifier>/loans"}

Readings ==
    {"GET/parties", "GET/parties/<partyIdentifier>", "GET/deals/<dealIdentifier>",
     "GET/deals/<dealIdentifier>/guarantees", "GET/deals/<dealIdentifier>/investors",
     "GET/facilities/<facilityIdentifier>", "GET/facilities/<facilityIdentifier>/covenants",
     "GET/facilities/<facilityIdentifier>/guarantees",
     "GET/facilities/<facilityIdentifier>/investors",
     "GET/facilities/<facilityIdentifier>/fixed-fees",
     "GET/facilities/<facilityIdentifier>/loan-transactions/<bundleIdentifier>"}

\* What request r writes is as it asked.
SendsAsAsked(r) ==
    \A i \in DOMAIN acbs' :
        acbs'[i].by = r => (i \in DOMAIN acbs /\ acbs'[i] = acbs[i]) \/ IsSent(r, acbs'[i])

\* The parts of its owner that a GET of a list answers with.
ShowsEach(r, kind, owner, OfAcbs(_, _)) ==
    \A i \in Indexes(kind, owner) : OfAcbs(owner, acbs[i].data) \in Items(r)'

\* A GET that succeeds answers with all that it finds.
ShowsFound(r) ==
    Created(r)' /\ Op(r) \in Readings =>
        /\ UNCHANGED acbs
        /\ Op(r) = "GET/parties" =>
             \A i \in PartiesOf(Params(r).searchText) : PartyOfAcbs(acbs[i].data) \in Items(r)'
        /\ Op(r) = "GET/parties/<partyIdentifier>" =>
             PartyOfAcbs(acbs[Params(r).partyIdentifier].data) \in Items(r)'
        /\ Op(r) = "GET/deals/<dealIdentifier>" =>
             \A i \in DealIndexes(DealIdentifier(r)) :
                 \E name : DealOfAcbs(acbs[i].data, name) \in Items(r)'
        /\ Op(r) = "GET/deals/<dealIdentifier>/guarantees" =>
             ShowsEach(r, "DealGuarantee", DealIdentifier(r), DealGuaranteeOfAcbs)
        /\ Op(r) = "GET/deals/<dealIdentifier>/investors" =>
             ShowsEach(r, "DealParty", DealIdentifier(r), DealInvestorOfAcbs)
        /\ Op(r) = "GET/facilities/<facilityIdentifier>" =>
             \A i \in FacilityIndexes(acbs, FacilityIdentifier(r)) :
                 \E name : FacilityOfAcbs(acbs[i].data, name) \in Items(r)'
        /\ Op(r) = "GET/facilities/<facilityIdentifier>/covenants" =>
             ShowsEach(r, "FacilityCovenant", FacilityIdentifier(r), CovenantOfAcbs)
        /\ Op(r) = "GET/facilities/<facilityIdentifier>/guarantees" =>
             ShowsEach(r, "FacilityGuarantee", FacilityIdentifier(r), GuaranteeOfAcbs)
        /\ Op(r) = "GET/facilities/<facilityIdentifier>/investors" =>
             ShowsEach(r, "FacilityParty", FacilityIdentifier(r), FacilityInvestorOfAcbs)
        /\ Op(r) = "GET/facilities/<facilityIdentifier>/fixed-fees" =>
             ShowsEach(r, "FixedFee", FacilityIdentifier(r), FixedFeeOfAcbs)
        /\ Op(r) = "GET/facilities/<facilityIdentifier>/loan-transactions/<bundleIdentifier>" =>
             LET bundle == acbs[Params(r).bundleIdentifier].data
             IN  MapLoanTransaction(bundle, bundle.BundleMessageList[1]) \in Items(r)'

Serves(r) == SendsAsAsked(r) /\ HasCreated(r)' /\ ShowsFound(r)

LEMMA SameRequests ==
  ASSUME UNCHANGED workload, NEW r
  PROVE  /\ Op(r)' = Op(r) /\ Body(r)' = Body(r) /\ Params(r)' = Params(r)
         /\ FacilityIdentifier(r)' = FacilityIdentifier(r)
         /\ DealIdentifier(r)' = DealIdentifier(r)
BY DEF Op, Body, Params, FacilityIdentifier, DealIdentifier

\* The other operations, of which nothing is read back and which read nothing.
LEMMA OthersServe ==
  ASSUME UNCHANGED workload, NEW r, Op(r) \notin Creations \cup Readings
  PROVE  Serves(r)
<1>1. SendsAsAsked(r)
  BY DEF SendsAsAsked, IsSent, Creations
<1>2. HasCreated(r)'
  BY SameRequests DEF HasCreated, Creations
<1>3. ShowsFound(r)
  BY DEF ShowsFound
<1> QED BY <1>1, <1>2, <1>3 DEF Serves

\* A step that writes nothing, and answers nothing that was created.
LEMMA QuietServes ==
  ASSUME UNCHANGED <<workload, acbs>>, NEW r, ~Created(r)',
         pc'[r] \notin {"getRatings", "findCustomers", "createRating", "restrictDeal"}
  PROVE  Serves(r)
<1>1. SendsAsAsked(r)
  BY DEF SendsAsAsked
<1>2. HasCreated(r)'
  BY DEF HasCreated, Created, Answered
<1>3. ShowsFound(r)
  BY DEF ShowsFound
<1> QED BY <1>1, <1>2, <1>3 DEF Serves

LEMMA GetServes ==
  ASSUME UNCHANGED <<workload, acbs>>, NEW r, Op(r) \in Readings, ShowsFound(r)
  PROVE  Serves(r)
<1>1. Op(r) \notin Creations
  BY DEF Readings, Creations
<1>2. HasCreated(r)'
  BY <1>1, SameRequests DEF HasCreated, Creations
<1> QED BY <1>2 DEF Serves, SendsAsAsked

LEMMA PostServes ==
  ASSUME NEW r, Op(r) \in Creations, SendsAsAsked(r), HasCreated(r)'
  PROVE  Serves(r)
BY DEF Serves, ShowsFound, Readings, Creations

LEMMA ThrowsQuietly ==
  ASSUME ControlOK, NEW r \in Requests, NEW exception, Throw(r, exception)
  PROVE  ~Created(r)' /\ pc'[r] = "done"
<1>1. pc'[r] = "done" /\ answer'[r].status = HttpStatus(exception)
  BY DEF ControlOK, Throw, Reply
<1> QED BY <1>1, Statuses DEF Created, Answered

LEMMA GoesQuietly ==
  ASSUME ControlOK, NEW r \in Requests, NEW label, NEW loc, Goto(r, label, loc), label # "done"
  PROVE  ~Created(r)' /\ pc'[r] = label /\ local'[r] = loc
BY DEF ControlOK, Goto, Created, Answered

LEMMA RepliesWith ==
  ASSUME ControlOK, NEW r \in Requests, NEW status, NEW body, Reply(r, status, body)
  PROVE  pc'[r] = "done" /\ answer'[r].status = status /\ answer'[r].body = body
BY DEF ControlOK, Reply

\* A write that adds what was asked for.
LEMMA AddsAsAsked ==
  ASSUME StoreOK, NEW r, NEW result, IsResult(result), result # Null,
         NEW outcome \in WriteOutcomes(result), acbs' = outcome[2],
         NEW kind, NEW owner, NEW data,
         \A other : result = Ok(other) => other = Added(r, kind, owner, data),
         IsSent(r, [kind |-> kind, owner |-> owner, data |-> data, by |-> r])
  PROVE  /\ SendsAsAsked(r)
         /\ acbs' # acbs => acbs' = Added(r, kind, owner, data)
<1> DEFINE entity == [kind |-> kind, owner |-> owner, data |-> data, by |-> r]
<1>1. acbs' = acbs \/ acbs' = Added(r, kind, owner, data)
  BY WriteTakes
<1>2. acbs \in Seq(Range(acbs))
  BY DEF StoreOK, IsStore
<1>3. CASE acbs' = acbs
  BY <1>3 DEF SendsAsAsked
<1>4. CASE acbs' = Added(r, kind, owner, data)
  <2>1. acbs' = Append(acbs, entity) /\ IsSent(r, entity)
    BY <1>4 DEF Added
  <2> HIDE DEF entity
  <2>2. /\ DOMAIN acbs' = DOMAIN acbs \cup {Len(acbs) + 1}
        /\ acbs'[Len(acbs) + 1] = entity
        /\ \A j \in DOMAIN acbs : acbs'[j] = acbs[j]
    BY <1>2, <2>1, AppendedAre
  <2>3. SendsAsAsked(r)
    BY <2>1, <2>2 DEF SendsAsAsked
  <2> QED BY <1>4, <2>3
<1> QED BY <1>1, <1>3, <1>4

\* What a write that ACBS took added.
LEMMA AddedIs ==
  ASSUME StoreOK, NEW r, NEW kind, NEW owner, NEW data, acbs' = Added(r, kind, owner, data)
  PROVE  /\ Len(acbs) + 1 \in DOMAIN acbs'
         /\ acbs'[Len(acbs) + 1].by = r /\ acbs'[Len(acbs) + 1].kind = kind
<1> DEFINE entity == [kind |-> kind, owner |-> owner, data |-> data, by |-> r]
<1>1. acbs' = Append(acbs, entity) /\ entity.by = r /\ entity.kind = kind
  BY DEF Added
<1> HIDE DEF entity
<1>2. acbs \in Seq(Range(acbs))
  BY DEF StoreOK, IsStore
<1> QED BY <1>1, <1>2, AppendedAre

-----------------------------------------------------------------------------
(* A request begins, which writes nothing.                                 *)

\* The calls that a request makes after it created something.
HavingCreated == {"getRatings", "findCustomers", "createRating", "restrictDeal"}

LEMMA BeginsServe ==
  ASSUME ControlOK, NEW r \in Requests, UNCHANGED workload, NEW op, NEW label,
         Begins(r, op, label), label \notin HavingCreated \cup {"done"}
  PROVE  Serves(r)
<1>1. UNCHANGED acbs
  BY DEF Begins, WithoutAcbs
<1>2. ~Created(r)' /\ pc'[r] \in {label, "done"}
  BY ThrowsQuietly, GoesQuietly DEF Begins
<1> QED BY <1>1, <1>2, QuietServes DEF HavingCreated

LEMMA LoanBeginsServe ==
  ASSUME ControlOK, NEW r \in Requests, UNCHANGED workload, pc[r] = "received", LoanHandler(r)
  PROVE  Serves(r)
<1>1. CASE CreateLoanForFacility(r)
  <2>1. Begins(r, "POST/facilities/<facilityIdentifier>/loans", "createLoan")
    BY <1>1 DEF CreateLoanForFacility, ValidatedItems, Validated, Begins
  <2> QED BY <2>1, BeginsServe DEF HavingCreated
<1>2. CASE UpdateLoanExpiryDate(r)
  <2>1. Begins(r, "PATCH/facilities/<facilityIdentifier>/loans/<loanIdentifier>",
               "getLoanToUpdate")
    BY <1>2 DEF UpdateLoanExpiryDate, ReceivesFor, Validated, Begins
  <2> QED BY <2>1, BeginsServe DEF HavingCreated
<1>3. CASE CreateAmountAmendmentForFixedFees(r)
  <2>1. Begins(r, AmendFeesOp, "amendFees")
    BY <1>3 DEF CreateAmountAmendmentForFixedFees, ReceivesItemFor, ValidatedItem,
                ValidatedItems, Validated, Begins, AmendFeesOp
  <2> QED BY <2>1, BeginsServe DEF HavingCreated
<1> QED BY <1>1, <1>2, <1>3, LoanBeginnings, BeginsServe DEF HavingCreated

LEMMA AnyBeginsServe ==
  ASSUME ControlOK, NEW r \in Requests, UNCHANGED workload, pc[r] = "received", Handle(r)
  PROVE  Serves(r)
<1>1. CASE PartyHandler(r)
  BY <1>1, PartyBeginnings, BeginsServe DEF HavingCreated
<1>2. CASE DealHandler(r)
  BY <1>2, DealBeginnings, BeginsServe DEF HavingCreated
<1>3. CASE FacilityHandler(r)
  BY <1>3, FacilityBeginnings, BeginsServe DEF HavingCreated
<1>4. CASE FacilityPartHandler(r)
  BY <1>4, FacilityPartBeginnings, BeginsServe DEF HavingCreated
<1> QED BY <1>1, <1>2, <1>3, <1>4, LoanBeginsServe DEF Handle

-----------------------------------------------------------------------------
(* Deals.                                                                  *)

\* What a GET of a list of parts shows.
LEMMA ShowsParts ==
  ASSUME StoreOK, NEW kind, NEW owner, NEW i \in Indexes(kind, owner)
  PROVE  \E k \in DOMAIN DataOf(kind, owner) : DataOf(kind, owner)[k] = acbs[i].data
BY EachFound

LEMMA ItemsOfList ==
  ASSUME UNCHANGED workload, NEW r, Op(r) \in Lists, NEW body, answer'[r].body = body,
         NEW k \in DOMAIN body
  PROVE  body[k] \in Items(r)'
BY SameRequests DEF Items, Range

LEMMA ItemAlone ==
  ASSUME UNCHANGED workload, NEW r, Op(r) \notin Lists
  PROVE  answer'[r].body \in Items(r)'
BY SameRequests DEF Items

LEMMA GetDealServes ==
  ASSUME NEW r, Typed(r), pc[r] = "getDeal", GetDeal(r)
  PROVE  Serves(r)
<1> DEFINE call == AcbsGetDealByIdentifier(DealIdentifier(r))
           held == DealIndexes(DealIdentifier(r))
           i == CHOOSE i \in held : TRUE
<1>1. Op(r) = "GET/deals/<dealIdentifier>" /\ ControlOK /\ StoreOK /\ r \in Requests
      /\ UNCHANGED workload
  BY DealCourses, TypedParts
<1>2. PICK outcome \in GetOutcomes(call) :
        /\ UNCHANGED acbs
        /\ IF IsGiven(outcome[1])
           THEN \E name \in {None} \cup Texts : Reply(r, 200, DealOfAcbs(outcome[1].data, name))
           ELSE Throw(r, GetException(call, outcome[1]))
  BY DEF GetDeal, Receives, Get, IsGiven
<1>3. ASSUME IsGiven(outcome[1]), NEW j \in held
      PROVE  \E name : DealOfAcbs(acbs[j].data, name) \in Items(r)'
  <2>1. (held = {} /\ call.result = Null) \/ (held # {} /\ call.result = Ok(acbs[i].data))
    BY DEF AcbsGetDealByIdentifier, GetCall
  <2>2. IsCall(call)
    <3>1. IsResult(call.result)
      BY <2>1 DEF IsResult
    <3>2. call = GetCall({}, call.result) /\ {} \subseteq DOMAIN KnownErrors
      BY DEF AcbsGetDealByIdentifier, GetCall
    <3> HIDE DEF call
    <3> QED BY <3>1, <3>2, GetCalls
  <2> HIDE DEF call
  <2>3. \A data : data = outcome[1].data => call.result = Ok(data)
    BY <1>3, <2>2, GetEnds
  <2> HIDE DEF i
  <2>4. \A data : data = outcome[1].data => data = acbs[i].data
    BY <1>3, <2>1, <2>3, OkOrNull
  <2>5. outcome[1].data = acbs[i].data
    BY <2>4
  <2>6. i \in held
    BY <1>3 DEF i
  <2>7. i = j
    BY <1>1, <1>3, <2>6 DEF DealIndexes, Indexes, StoreOK, IsStore, AreDistinct
  <2>8. PICK name : answer'[r].body = DealOfAcbs(acbs[j].data, name)
    BY <1>1, <1>2, <1>3, <2>5, <2>7, RepliesWith
  <2> QED BY <1>1, <2>8, ItemAlone DEF Lists
<1>4. ShowsFound(r)
  <2>1. CASE ~IsGiven(outcome[1])
    BY <1>1, <1>2, <2>1, ThrowsQuietly DEF ShowsFound
  <2>2. CASE IsGiven(outcome[1])
    BY <1>1, <1>2, <1>3, <2>2 DEF ShowsFound
  <2> QED BY <2>1, <2>2
<1> QED BY <1>1, <1>2, <1>4, GetServes DEF Readings

LEMMA GetDealGuaranteesServes ==
  ASSUME NEW r, Typed(r), pc[r] = "getDealGuarantees", GetGuaranteesForDeal(r)
  PROVE  Serves(r)
<1> DEFINE owner == DealIdentifier(r)
           exists == DealIndexes(owner) # {}
           data == DataOf("DealGuarantee", owner)
           result == IfDealExists(owner, Ok(data))
           call == GetCall({"DealNotFound"}, result)
           Read(guarantees) == [k \in DOMAIN guarantees |->
                                  DealGuaranteeOfAcbs(owner, guarantees[k])]
<1>1. Op(r) = "GET/deals/<dealIdentifier>/guarantees" /\ ControlOK /\ StoreOK /\ r \in Requests
      /\ UNCHANGED workload
  BY DealCourses, TypedParts
<1>2. PICK outcome \in GetOutcomes(call) :
        /\ UNCHANGED acbs
        /\ IF IsGiven(outcome[1]) THEN Reply(r, 200, Read(outcome[1].data))
           ELSE Throw(r, GetException(call, outcome[1]))
  BY DEF GetGuaranteesForDeal, Receives, Get, IsGiven, AcbsGetGuaranteesForDeal
<1>3. IsGiven(outcome[1]) => outcome[1].data = data
  <2>1. AnswersIf(exists, result, data, "DealNotFound")
    BY DEF AnswersIf, IfDealExists
  <2> HIDE DEF exists, result, data
  <2> QED BY <2>1, GivenIf, KnownTexts
<1>4. ASSUME IsGiven(outcome[1])
      PROVE  ShowsEach(r, "DealGuarantee", owner, DealGuaranteeOfAcbs)
  <2>1. answer'[r].body = Read(data)
    <3> HIDE DEF data, call, Read
    <3> QED BY <1>1, <1>2, <1>3, <1>4, RepliesWith
  <2>2. ASSUME NEW k \in DOMAIN data  PROVE DealGuaranteeOfAcbs(owner, data[k]) \in Items(r)'
    <3> HIDE DEF data, owner
    <3>1. k \in DOMAIN Read(data) /\ Read(data)[k] = DealGuaranteeOfAcbs(owner, data[k])
      OBVIOUS
    <3> HIDE DEF Read
    <3> QED BY <1>1, <2>1, <3>1, ItemsOfList DEF Lists
  <2>3. \A i \in Indexes("DealGuarantee", owner) : \E k \in DOMAIN data : data[k] = acbs[i].data
    BY <1>1, ShowsParts
  <2> HIDE DEF data, owner
  <2> QED BY <2>2, <2>3 DEF ShowsEach
<1> HIDE DEF call
<1>5. ShowsFound(r)
  <2>1. CASE ~IsGiven(outcome[1])
    BY <1>1, <1>2, <2>1, ThrowsQuietly DEF ShowsFound
  <2>2. CASE IsGiven(outcome[1])
    BY <1>1, <1>2, <1>4, <2>2 DEF ShowsFound
  <2> QED BY <2>1, <2>2
<1> QED BY <1>1, <1>2, <1>5, GetServes DEF Readings

LEMMA GetDealInvestorsServes ==
  ASSUME NEW r, Typed(r), pc[r] = "getDealInvestors", GetDealInvestors(r)
  PROVE  Serves(r)
<1> DEFINE owner == DealIdentifier(r)
           exists == DealIndexes(owner) # {}
           data == DataOf("DealParty", owner)
           result == IF ~exists THEN Null ELSE Ok(data)
           call == GetCall({}, result)
           Read(investors) == [k \in DOMAIN investors |->
                                  DealInvestorOfAcbs(owner, investors[k])]
<1>1. Op(r) = "GET/deals/<dealIdentifier>/investors" /\ ControlOK /\ StoreOK /\ r \in Requests
      /\ UNCHANGED workload
  BY DealCourses, TypedParts
<1>2. PICK outcome \in GetOutcomes(call) :
        /\ UNCHANGED acbs
        /\ IF IsGiven(outcome[1]) THEN Reply(r, 200, Read(outcome[1].data))
           ELSE Throw(r, GetException(call, outcome[1]))
  <2>1. AcbsGetDealPartiesForDeal(owner) = call
    BY DEF AcbsGetDealPartiesForDeal
  <2> HIDE DEF call
  <2> QED BY <2>1 DEF GetDealInvestors, Receives, Get, IsGiven
<1>3. IsGiven(outcome[1]) => outcome[1].data = data
  <2>1. AnswersOrNull(exists, result, data)
    BY DEF AnswersOrNull
  <2> HIDE DEF exists, result, data
  <2> QED BY <2>1, GivenUnlessNull
<1>4. ASSUME IsGiven(outcome[1])
      PROVE  ShowsEach(r, "DealParty", owner, DealInvestorOfAcbs)
  <2>1. answer'[r].body = Read(data)
    <3> HIDE DEF data, call, Read
    <3> QED BY <1>1, <1>2, <1>3, <1>4, RepliesWith
  <2>2. ASSUME NEW k \in DOMAIN data  PROVE DealInvestorOfAcbs(owner, data[k]) \in Items(r)'
    <3> HIDE DEF data, owner
    <3>1. k \in DOMAIN Read(data) /\ Read(data)[k] = DealInvestorOfAcbs(owner, data[k])
      OBVIOUS
    <3> HIDE DEF Read
    <3> QED BY <1>1, <2>1, <3>1, ItemsOfList DEF Lists
  <2>3. \A i \in Indexes("DealParty", owner) : \E k \in DOMAIN data : data[k] = acbs[i].data
    BY <1>1, ShowsParts
  <2> HIDE DEF data, owner
  <2> QED BY <2>2, <2>3 DEF ShowsEach
<1> HIDE DEF call
<1>5. ShowsFound(r)
  <2>1. CASE ~IsGiven(outcome[1])
    BY <1>1, <1>2, <2>1, ThrowsQuietly DEF ShowsFound
  <2>2. CASE IsGiven(outcome[1])
    BY <1>1, <1>2, <1>4, <2>2 DEF ShowsFound
  <2> QED BY <2>1, <2>2
<1> QED BY <1>1, <1>2, <1>5, GetServes DEF Readings


\* What a request answers in the end, when that is what it created.
LEMMA NamesItsOwner ==
  ASSUME ControlOK, NEW r \in Requests, UNCHANGED workload, NEW body, Reply(r, 201, body),
         \/ /\ Op(r) \in {"POST/deals/<dealIdentifier>/guarantees",
                          "POST/deals/<dealIdentifier>/investors"}
            /\ body = [dealIdentifier |-> DealIdentifier(r)]
         \/ /\ Op(r) = "POST/facilities"
            /\ body = [facilityIdentifier |-> Body(r)[1].facilityIdentifier]
         \/ /\ Op(r) \in {"POST/facilities/<facilityIdentifier>/covenants",
                          "POST/facilities/<facilityIdentifier>/guarantees",
                          "POST/facilities/<facilityIdentifier>/investors",
                          "POST/facilities/<facilityIdentifier>/fixed-fees"}
            /\ body = [facilityIdentifier |-> FacilityIdentifier(r)]
  PROVE  HasCreated(r)'
<1>1. pc'[r] = "done" /\ answer'[r].body = body
  BY RepliesWith
<1> QED BY <1>1, SameRequests DEF HasCreated

LEMMA RefusedCreatesNone ==
  ASSUME ControlOK, NEW r \in Requests, NEW exception, Throw(r, exception)
  PROVE  HasCreated(r)'
BY ThrowsQuietly DEF HasCreated, Created, Answered

LEMMA GoesOnToCreate ==
  ASSUME ControlOK, NEW r \in Requests, NEW label, NEW loc, Goto(r, label, loc),
         label \notin HavingCreated \cup {"done"}
  PROVE  HasCreated(r)'
BY GoesQuietly DEF HasCreated, HavingCreated, Created, Answered

\* A write of what was asked for, if something exists.
LEMMA AddsIfServe ==
  ASSUME StoreOK, NEW r, Op(r) \in Creations, NEW kind, NEW owner, NEW data, NEW exists,
         NEW result, NEW text, AnswersIf(exists, result, Added(r, kind, owner, data), text),
         IsSent(r, [kind |-> kind, owner |-> owner, data |-> data, by |-> r]),
         NEW outcome \in WriteOutcomes(result), acbs' = outcome[2],
         HasCreated(r)'
  PROVE  Serves(r)
<1>1. IsResult(result) /\ result # Null
      /\ \A other : result = Ok(other) => other = Added(r, kind, owner, data)
  BY OkIf
<1>2. SendsAsAsked(r)
  BY <1>1, AddsAsAsked
<1> QED BY <1>2, PostServes

\* What ACBS did when it answers 200.
LEMMA DoneIsTaken ==
  ASSUME NEW exists, NEW result, NEW data, NEW text, AnswersIf(exists, result, data, text),
         NEW outcome \in WriteOutcomes(result), outcome[1].status = 200
  PROVE  outcome[2] = data
<1>1. outcome[1] = result /\ outcome[2] = result.data
  <2>1. outcome \in FaultsLeft \X {acbs} \X {1} => outcome[1] \in Faults
    BY DEF FaultsLeft
  <2>2. ASSUME NEW error \in FaultsLeft, error.status = 0  PROVE error.status # 200
    BY <2>2
  <2> QED BY <2>1, <2>2, FaultsAre DEF WriteOutcomes
<1>2. exists
  BY DoneExists
<1> QED BY <1>1, <1>2, Results DEF AnswersIf

LEMMA CreateDealServes ==
  ASSUME NEW r, Typed(r), CreateDeal(r)
  PROVE  Serves(r)
<1> DEFINE deal == BuildAcbsRequestBodyToCreateDeal(Body(r)[1])
           owner == GLOBAL.portfolioIdentifier
           isNew == DealIndexes(deal.DealIdentifier) = {}
           data == Added(r, "Deal", owner, deal)
           result == IF isNew THEN Ok(data) ELSE Refusal("other")
<1>1. /\ Op(r) = "POST/deals" /\ Body(r)[1] \in CreateDealRequestItem
      /\ ControlOK /\ StoreOK /\ r \in Requests /\ UNCHANGED workload
  BY TypedParts, DealCourses DEF CreateDeal, IsReady, DealReady
<1>2. AnswersIf(isNew, result, data, "other")
  BY DEF AnswersIf
<1>3. IsSent(r, [kind |-> "Deal", owner |-> owner, data |-> deal, by |-> r])
  BY <1>1 DEF IsSent, IsSentFor
<1>4. PICK outcome \in WriteOutcomes(result) :
        /\ acbs' = outcome[2]
        /\ IF outcome[1].status = 200 THEN Goto(r, "restrictDeal", None)
           ELSE Throw(r, WrapAcbsHttpPostOrPutError({}, outcome[1]))
  BY DEF CreateDeal, AcbsCreateDeal, Write, WriteOr
<1> HIDE DEF owner, deal, isNew, result
<1>5. CASE outcome[1].status = 200
  <2>1. acbs' = data
    <3> HIDE DEF data
    <3> QED BY <1>2, <1>4, <1>5, DoneIsTaken
  <2>2. \E i \in DOMAIN acbs' : acbs'[i].by = r /\ acbs'[i].kind = "Deal"
    BY <1>1, <2>1, AddedIs
  <2>3. HasCreated(r)'
    <3>1. ~Created(r)' /\ pc'[r] = "restrictDeal"
      BY <1>1, <1>4, <1>5, GoesQuietly
    <3>2. ~Answered(r, {201})'
      BY <3>1 DEF Created, Answered
    <3>3. Op(r)' = "POST/deals"
      BY <1>1, SameRequests
    <3> QED BY <2>2, <3>1, <3>2, <3>3 DEF HasCreated, IsOf
  <2> QED BY <1>1, <1>2, <1>3, <1>4, <2>3, AddsIfServe DEF Creations
<1>6. CASE outcome[1].status # 200
  BY <1>1, <1>2, <1>3, <1>4, <1>6, RefusedCreatesNone, AddsIfServe DEF Creations
<1> QED BY <1>5, <1>6

LEMMA ExceptOf ==
  ASSUME NEW entity, IsEntity(entity), NEW value, NEW p
  PROVE  [entity EXCEPT !.data = value, !.by = p].kind = entity.kind
<1>1. PICK k, o, d, b : entity = [kind |-> k, owner |-> o, data |-> d, by |-> b]
  BY DEF IsEntity
<1>2. entity.kind = k
  BY <1>1
<1>3. [entity EXCEPT !.data = value] = [kind |-> k, owner |-> o, data |-> value, by |-> b]
  BY <1>1
<1>4. [entity EXCEPT !.data = value, !.by = p] = [[entity EXCEPT !.data = value] EXCEPT !.by = p]
  OBVIOUS
<1>5. [[kind |-> k, owner |-> o, data |-> value, by |-> b] EXCEPT !.by = p] =
        [kind |-> k, owner |-> o, data |-> value, by |-> p]
  OBVIOUS
<1>6. [entity EXCEPT !.data = value, !.by = p] =
        [kind |-> k, owner |-> o, data |-> value, by |-> p]
  BY <1>3, <1>4, <1>5
<1> QED BY <1>2, <1>6

LEMMA ReplacedIs ==
  ASSUME NEW r, NEW i \in DOMAIN acbs, IsEntity(acbs[i]), NEW data,
         acbs' = Replaced(r, i, data)
  PROVE  acbs'[i].kind = acbs[i].kind
<1>1. acbs'[i] = [acbs[i] EXCEPT !.data = data, !.by = r]
  BY DEF Replaced
<1>2. [acbs[i] EXCEPT !.data = data, !.by = r].kind = acbs[i].kind
  BY ExceptOf
<1> QED BY <1>1, <1>2

LEMMA RestrictDealServes ==
  ASSUME NEW r, Typed(r), HasCreated(r), UpdateBorrowingRestrictionForNewDeal(r)
  PROVE  Serves(r)
<1> DEFINE dealIdentifier == Body(r)[1].dealIdentifier
           restriction == BuildBorrowingRestrictionToUpdateInAcbs
           kind == "BorrowingRestriction"
           held == Indexes(kind, dealIdentifier)
           index == CHOOSE i \in held : TRUE
           data == Restricted(r, dealIdentifier, restriction)
           exists == DealIndexes(dealIdentifier) # {}
           result == IfDealExists(dealIdentifier, Ok(data))
<1>1. /\ Op(r) = "POST/deals" /\ Body(r)[1] \in CreateDealRequestItem /\ pc[r] = "restrictDeal"
      /\ ControlOK /\ StoreOK /\ r \in Requests /\ UNCHANGED workload
  BY TypedParts, DealCourses DEF UpdateBorrowingRestrictionForNewDeal, IsReady, DealReady
<1>2. PICK outcome \in WriteOutcomes(result) :
        /\ acbs' = outcome[2]
        /\ IF outcome[1].status = 200
           THEN Reply(r, 201, [dealIdentifier |-> Body(r)[1].dealIdentifier])
           ELSE Throw(r, "InternalServerErrorException")
  BY DEF UpdateBorrowingRestrictionForNewDeal, AcbsUpdateBorrowingRestrictionForDeal, WriteOr,
         AnswerDeal
<1>3. acbs' = acbs \/ acbs' = data
  <2>1. AnswersIf(exists, result, data, "DealNotFound")
    BY DEF AnswersIf, IfDealExists
  <2> HIDE DEF exists, result, data
  <2>2. IsResult(result) /\ result # Null /\ (result = Ok(acbs') => acbs' = data)
    BY <2>1, OkIf
  <2> QED BY <1>2, <2>2, WriteTakes
<1> HIDE DEF result, exists
<1>4. /\ DOMAIN acbs \subseteq DOMAIN acbs'
      /\ \A i \in DOMAIN acbs' : (i \in DOMAIN acbs /\ acbs'[i] = acbs[i])
                                 \/ acbs'[i].kind = kind
      /\ \A i \in DOMAIN acbs : acbs[i].kind = "Deal" => acbs'[i] = acbs[i]
  <2>1. CASE acbs' = acbs
    BY <2>1
  <2>2. CASE acbs' = data /\ held = {}
    <3> DEFINE entity ==
          [kind |-> kind, owner |-> dealIdentifier, data |-> restriction, by |-> r]
    <3>1. acbs' = Append(acbs, entity) /\ entity.kind = kind
      BY <2>2 DEF Restricted, Added
    <3> HIDE DEF entity
    <3>2. acbs \in Seq(Range(acbs))
      BY <1>1 DEF StoreOK, IsStore
    <3> QED BY <3>1, <3>2, AppendedAre
  <2>3. CASE acbs' = data /\ held # {}
    <3>1. index \in DOMAIN acbs /\ acbs[index].kind = kind
      BY <2>3 DEF Indexes
    <3>2. acbs' = Replaced(r, index, restriction)
      BY <2>3 DEF Restricted
    <3> HIDE DEF index, restriction
    <3>3. IsEntity(acbs[index])
      BY <1>1, <3>1 DEF StoreOK, IsStore
    <3>4. acbs'[index].kind = kind
      BY <3>1, <3>2, <3>3, ReplacedIs
    <3>5. DOMAIN acbs' = DOMAIN acbs /\ \A i \in DOMAIN acbs \ {index} : acbs'[i] = acbs[i]
      BY <3>2 DEF Replaced
    <3> QED BY <3>1, <3>4, <3>5
  <2> QED BY <1>3, <2>1, <2>2, <2>3
<1>5. SendsAsAsked(r)
  BY <1>1, <1>4 DEF SendsAsAsked, IsSent
<1>6. \E i \in DOMAIN acbs' : acbs'[i].by = r /\ acbs'[i].kind = "Deal"
  <2>1. \E i \in DOMAIN acbs : acbs[i].by = r /\ acbs[i].kind = "Deal"
    BY <1>1 DEF HasCreated, IsOf
  <2> QED BY <1>4, <2>1
<1>7. HasCreated(r)'
  <2>1. CASE outcome[1].status = 200
    <3>1. pc'[r] = "done" /\ answer'[r].body = [dealIdentifier |-> Body(r)[1].dealIdentifier]
      BY <1>1, <1>2, <2>1, RepliesWith
    <3> QED BY <1>1, <1>6, <3>1, SameRequests DEF HasCreated, IsOf
  <2>2. CASE outcome[1].status # 200
    BY <1>1, <1>2, <2>2, RefusedCreatesNone
  <2> QED BY <2>1, <2>2
<1> QED BY <1>1, <1>5, <1>7, PostServes DEF Creations

LEMMA CreateDealGuaranteeServes ==
  ASSUME NEW r, Typed(r), pc[r] = "createDealGuarantee", CreateGuaranteeForDeal(r)
  PROVE  Serves(r)
<1> DEFINE owner == DealIdentifier(r)
           guarantee == DealGuaranteeToCreateInAcbs(Body(r)[1])
           data == Added(r, "DealGuarantee", owner, guarantee)
           exists == DealIndexes(owner) # {}
           result == IfDealExists(owner, Ok(data))
<1>1. /\ Op(r) = "POST/deals/<dealIdentifier>/guarantees"
      /\ Body(r)[1] \in CreateDealGuaranteeRequestItem
      /\ ControlOK /\ StoreOK /\ r \in Requests /\ UNCHANGED workload
  BY TypedParts, DealCourses DEF IsReady, DealReady
<1>2. AnswersIf(exists, result, data, "DealNotFound")
  BY DEF AnswersIf, IfDealExists
<1>3. IsSent(r, [kind |-> "DealGuarantee", owner |-> owner, data |-> guarantee, by |-> r])
  BY <1>1 DEF IsSent, IsSentFor
<1>4. PICK outcome \in WriteOutcomes(result) :
        /\ acbs' = outcome[2]
        /\ IF outcome[1].status = 200 THEN Reply(r, 201, [dealIdentifier |-> DealIdentifier(r)])
           ELSE Throw(r, WrapAcbsHttpPostOrPutError({"DealNotFound"}, outcome[1]))
  BY DEF CreateGuaranteeForDeal, Receives, AcbsCreateGuaranteeForDeal, Write, WriteOr,
         AnswerDeal
<1> HIDE DEF owner, guarantee, exists, result
<1>5. HasCreated(r)'
  BY <1>1, <1>4, RefusedCreatesNone, NamesItsOwner
<1> QED BY <1>1, <1>2, <1>3, <1>4, <1>5, AddsIfServe DEF Creations

LEMMA CreateDealInvestorServes ==
  ASSUME NEW r, Typed(r), pc[r] = "createDealInvestor", CreateInvestorForDeal(r)
  PROVE  Serves(r)
<1> DEFINE owner == DealIdentifier(r)
           investor == DealInvestorToCreateInAcbs(Body(r)[1])
           data == Added(r, "DealParty", owner, investor)
           exists == DealIndexes(owner) # {}
           result == IfDealExists(owner, Ok(data))
<1>1. /\ Op(r) = "POST/deals/<dealIdentifier>/investors"
      /\ Body(r)[1] \in CreateDealInvestorRequestItem
      /\ ControlOK /\ StoreOK /\ r \in Requests /\ UNCHANGED workload
  BY TypedParts, DealCourses DEF IsReady, DealReady
<1>2. AnswersIf(exists, result, data, "DealNotFound")
  BY DEF AnswersIf, IfDealExists
<1>3. IsSent(r, [kind |-> "DealParty", owner |-> owner, data |-> investor, by |-> r])
  BY <1>1 DEF IsSent, IsSentFor
<1>4. PICK outcome \in WriteOutcomes(result) :
        /\ acbs' = outcome[2]
        /\ IF outcome[1].status = 200 THEN Reply(r, 201, [dealIdentifier |-> DealIdentifier(r)])
           ELSE Throw(r, WrapAcbsHttpPostOrPutError({"DealNotFound"}, outcome[1]))
  BY DEF CreateInvestorForDeal, Receives, AcbsCreateInvestorForDeal, Write, WriteOr,
         AnswerDeal
<1> HIDE DEF owner, investor, exists, result
<1>5. HasCreated(r)'
  BY <1>1, <1>4, RefusedCreatesNone, NamesItsOwner
<1> QED BY <1>1, <1>2, <1>3, <1>4, <1>5, AddsIfServe DEF Creations

LEMMA DealServes ==
  ASSUME NEW r, Typed(r), HasCreated(r), DealHandler(r), pc[r] # "received"
  PROVE  Serves(r)
<1>1. \/ pc[r] = "getDeal" /\ GetDeal(r)
      \/ pc[r] = "getDealGuarantees" /\ GetGuaranteesForDeal(r)
      \/ pc[r] = "getDealInvestors" /\ GetDealInvestors(r)
      \/ pc[r] = "createDealGuarantee" /\ CreateGuaranteeForDeal(r)
      \/ pc[r] = "createDealInvestor" /\ CreateInvestorForDeal(r)
      \/ CreateDeal(r)
      \/ UpdateBorrowingRestrictionForNewDeal(r)
  BY DEF DealHandler, GetDeal, GetGuaranteesForDeal, GetDealInvestors, ReceiveDeal,
         CreateGuaranteeForDeal, CreateInvestorForDeal, Receives
<1> QED BY <1>1, GetDealServes, GetDealGuaranteesServes, GetDealInvestorsServes,
           CreateDealGuaranteeServes, CreateDealInvestorServes, CreateDealServes,
           RestrictDealServes

-----------------------------------------------------------------------------
(* Facilities.                                                             *)

LEMMA GetFacilityServes ==
  ASSUME NEW r, Typed(r), pc[r] = "getFacility", GetFacility(r)
  PROVE  Serves(r)
<1> DEFINE identifier == FacilityIdentifier(r)
           call == AcbsGetFacilityByIdentifier(identifier)
<1>1. Op(r) = "GET/facilities/<facilityIdentifier>" /\ ControlOK /\ StoreOK /\ r \in Requests
      /\ UNCHANGED workload
  BY FacilityCourses, TypedParts
<1>2. PICK outcome \in GetOutcomes(call) :
        /\ UNCHANGED acbs
        /\ IF IsGiven(outcome[1])
           THEN \E name \in Texts : Reply(r, 200, FacilityOfAcbs(outcome[1].data, name))
           ELSE Throw(r, GetException(call, outcome[1]))
  BY DEF GetFacility, Receives, Get, IsGiven
<1>3. ASSUME IsGiven(outcome[1]), NEW j \in FacilityIndexes(acbs, identifier)
      PROVE  \E name : FacilityOfAcbs(acbs[j].data, name) \in Items(r)'
  <2>1. AcbsGetFacilityByIdentifier(identifier).result = Ok(outcome[1].data)
    BY <1>3, GetsFacility, GetEnds
  <2>2. PICK i \in DOMAIN acbs :
          FacilityIndexes(acbs, identifier) = {i} /\ acbs[i].data = outcome[1].data
    BY <1>1, <2>1, FacilityFound
  <2>3. acbs[j].data = outcome[1].data
    BY <1>3, <2>2
  <2> HIDE DEF call
  <2>4. PICK name : answer'[r].body = FacilityOfAcbs(acbs[j].data, name)
    BY <1>1, <1>2, <1>3, <2>3, RepliesWith
  <2> QED BY <1>1, <2>4, ItemAlone DEF Lists
<1> HIDE DEF call
<1>4. ShowsFound(r)
  <2>1. CASE ~IsGiven(outcome[1])
    BY <1>1, <1>2, <2>1, ThrowsQuietly DEF ShowsFound
  <2>2. CASE IsGiven(outcome[1])
    BY <1>1, <1>2, <1>3, <2>2 DEF ShowsFound
  <2> QED BY <2>1, <2>2
<1> QED BY <1>1, <1>2, <1>4, GetServes DEF Readings

LEMMA CreateFacilityServes ==
  ASSUME NEW r, Typed(r), pc[r] = "createFacility", CreateFacility(r)
  PROVE  Serves(r)
<1> DEFINE asked == Body(r)[1]
           isNew == ~FacilityExists(asked.facilityIdentifier)
           facility == FacilityAsSent(asked)
           data == Added(r, "Facility", None, facility)
           result == IF FacilityExists(asked.facilityIdentifier) THEN Refusal("other")
                     ELSE Ok(data)
<1>1. /\ Op(r) = "POST/facilities"
      /\ IsBaseFacilityRequestItemWithFacilityIdentifier(asked)
      /\ ControlOK /\ StoreOK /\ r \in Requests /\ UNCHANGED workload
  BY TypedParts, FacilityCourses DEF IsReady, FacilityReady
<1>2. AnswersIf(isNew, result, data, "other")
  BY DEF AnswersIf, FacilityExists
<1>3. IsSent(r, [kind |-> "Facility", owner |-> None, data |-> facility, by |-> r])
  <2> HIDE DEF facility, asked
  <2>1. facility = FacilityAsSent(Body(r)[1])
    BY DEF facility, asked
  <2> QED BY <1>1, <2>1 DEF IsSent, asked
<1>4. PICK outcome \in WriteOutcomes(result) :
        /\ acbs' = outcome[2]
        /\ IF outcome[1].status = 200
           THEN Reply(r, 201, [facilityIdentifier |-> asked.facilityIdentifier])
           ELSE Throw(r, WrapAcbsHttpPostOrPutError({}, outcome[1]))
  BY DEF CreateFacility, Receives, AcbsCreateFacility, Write, WriteOr, FacilityAsSent
<1> HIDE DEF facility, isNew, result
<1>5. HasCreated(r)'
  BY <1>1, <1>4, RefusedCreatesNone, NamesItsOwner
<1> QED BY <1>1, <1>2, <1>3, <1>4, <1>5, AddsIfServe DEF Creations

LEMMA FacilityServes ==
  ASSUME NEW r, Typed(r), FacilityHandler(r), pc[r] # "received"
  PROVE  Serves(r)
<1>1. \/ pc[r] = "getFacility" /\ GetFacility(r)
      \/ pc[r] = "createFacility" /\ CreateFacility(r)
      \/ pc[r] \in {"getFacilityToUpdate", "putFacility", "amendFacility"}
  BY DEF FacilityHandler, GetFacility, CreateFacility, ReceiveFacilityUpdate,
         GetFacilityToUpdate, UpdateFacility, AmendFacilityAmount, Receives
<1>2. CASE pc[r] \in {"getFacilityToUpdate", "putFacility", "amendFacility"}
  <2>1. Op(r) = "PUT/facilities/<facilityIdentifier>" /\ UNCHANGED workload
    BY <1>2, FacilityCourses, TypedParts
  <2> QED BY <2>1, OthersServe DEF Creations, Readings
<1> QED BY <1>1, <1>2, GetFacilityServes, CreateFacilityServes

-----------------------------------------------------------------------------
(* The parts of facilities.                                                *)

\* A GET of a list answers with all that it finds.
LEMMA ListAnswers ==
  ASSUME NEW r, Typed(r), Op(r) \in Lists, NEW call, IsCall(call), NEW kind, NEW owner,
         \A data : call.result = Ok(data) => data = DataOf(kind, owner),
         NEW read, DOMAIN read = DOMAIN DataOf(kind, owner),
         NEW outcome \in GetOutcomes(call),
         IF IsGiven(outcome[1])
         THEN outcome[1].data = DataOf(kind, owner) => Reply(r, 200, read)
         ELSE Throw(r, GetException(call, outcome[1])),
         Created(r)', NEW i \in Indexes(kind, owner)
  PROVE  \E k \in DOMAIN read : DataOf(kind, owner)[k] = acbs[i].data /\ read[k] \in Items(r)'
<1>1. ControlOK /\ StoreOK /\ r \in Requests /\ UNCHANGED workload
  BY TypedParts
<1>2. IsGiven(outcome[1])
  BY <1>1, ThrowsQuietly
<1>3. Reply(r, 200, read)
  BY <1>2, GetEnds
<1>4. answer'[r].body = read
  BY <1>1, <1>3, RepliesWith
<1>5. PICK k \in DOMAIN DataOf(kind, owner) : DataOf(kind, owner)[k] = acbs[i].data
  BY <1>1, ShowsParts
<1> QED BY <1>1, <1>4, <1>5, ItemsOfList

LEMMA GetCovenantsServes ==
  ASSUME NEW r, Typed(r), pc[r] = "getCovenants", GetCovenantsForFacility(r)
  PROVE  Serves(r)
<1> DEFINE owner == FacilityIdentifier(r)
           call == AcbsGetCovenantsForFacility(owner)
           parts == DataOf("FacilityCovenant", owner)
           Read(found) == [k \in DOMAIN found |-> CovenantOfAcbs(owner, found[k])]
           read == Read(parts)
<1>1. Op(r) = "GET/facilities/<facilityIdentifier>/covenants" /\ ControlOK /\ StoreOK
      /\ r \in Requests /\ UNCHANGED workload
  BY FacilityPartCourses, TypedParts
<1>2. PICK outcome \in GetOutcomes(call) :
        /\ UNCHANGED acbs
        /\ IF IsGiven(outcome[1]) THEN Reply(r, 200, Read(outcome[1].data))
           ELSE Throw(r, GetException(call, outcome[1]))
  BY DEF GetCovenantsForFacility, ReceivesFor, Receives, Get, IsGiven, ReplyEach
<1>3. IsCall(call) /\ \A data : call.result = Ok(data) => data = parts
  BY GetsCovenants
<1>4. IF IsGiven(outcome[1])
      THEN outcome[1].data = parts => Reply(r, 200, read)
      ELSE Throw(r, GetException(call, outcome[1]))
  <2> HIDE DEF call, parts
  <2> QED BY <1>2
<1>5. /\ DOMAIN read = DOMAIN parts
      /\ \A k \in DOMAIN read : read[k] = CovenantOfAcbs(owner, parts[k])
  <2> HIDE DEF parts, owner
  <2> QED OBVIOUS
<1>6. Op(r) \in Lists
  BY <1>1 DEF Lists
<1> HIDE DEF call, read
<1>7. ASSUME Created(r)'  PROVE ShowsEach(r, "FacilityCovenant", owner, CovenantOfAcbs)
  <2>1. ASSUME NEW i \in Indexes("FacilityCovenant", owner)
        PROVE  CovenantOfAcbs(owner, acbs[i].data) \in Items(r)'
    <3>1. \E k \in DOMAIN read : parts[k] = acbs[i].data /\ read[k] \in Items(r)'
      BY <1>2, <1>3, <1>4, <1>5, <1>6, <1>7, ListAnswers
    <3> HIDE DEF parts, owner
    <3> QED BY <1>5, <3>1
  <2> QED BY <2>1 DEF ShowsEach
<1>8. ShowsFound(r)
  BY <1>1, <1>2, <1>7 DEF ShowsFound
<1> QED BY <1>1, <1>2, <1>8, GetServes DEF Readings

LEMMA GetFacilityGuaranteesServes ==
  ASSUME NEW r, Typed(r), pc[r] = "getFacilityGuarantees", GetGuaranteesForFacility(r)
  PROVE  Serves(r)
<1> DEFINE owner == FacilityIdentifier(r)
           call == AcbsGetGuaranteesForFacility(owner)
           parts == DataOf("FacilityGuarantee", owner)
           Read(found) == [k \in DOMAIN found |-> GuaranteeOfAcbs(owner, found[k])]
           read == Read(parts)
<1>1. Op(r) = "GET/facilities/<facilityIdentifier>/guarantees" /\ ControlOK /\ StoreOK
      /\ r \in Requests /\ UNCHANGED workload
  BY FacilityPartCourses, TypedParts
<1>2. PICK outcome \in GetOutcomes(call) :
        /\ UNCHANGED acbs
        /\ IF IsGiven(outcome[1]) THEN Reply(r, 200, Read(outcome[1].data))
           ELSE Throw(r, GetException(call, outcome[1]))
  BY DEF GetGuaranteesForFacility, ReceivesFor, Receives, Get, IsGiven, ReplyEach
<1>3. IsCall(call) /\ \A data : call.result = Ok(data) => data = parts
  BY <1>1, GetsGuarantees
<1>4. IF IsGiven(outcome[1])
      THEN outcome[1].data = parts => Reply(r, 200, read)
      ELSE Throw(r, GetException(call, outcome[1]))
  <2> HIDE DEF call, parts
  <2> QED BY <1>2
<1>5. /\ DOMAIN read = DOMAIN parts
      /\ \A k \in DOMAIN read : read[k] = GuaranteeOfAcbs(owner, parts[k])
  <2> HIDE DEF parts, owner
  <2> QED OBVIOUS
<1>6. Op(r) \in Lists
  BY <1>1 DEF Lists
<1> HIDE DEF call, read
<1>7. ASSUME Created(r)'  PROVE ShowsEach(r, "FacilityGuarantee", owner, GuaranteeOfAcbs)
  <2>1. ASSUME NEW i \in Indexes("FacilityGuarantee", owner)
        PROVE  GuaranteeOfAcbs(owner, acbs[i].data) \in Items(r)'
    <3>1. \E k \in DOMAIN read : parts[k] = acbs[i].data /\ read[k] \in Items(r)'
      BY <1>2, <1>3, <1>4, <1>5, <1>6, <1>7, ListAnswers
    <3> HIDE DEF parts, owner
    <3> QED BY <1>5, <3>1
  <2> QED BY <2>1 DEF ShowsEach
<1>8. ShowsFound(r)
  BY <1>1, <1>2, <1>7 DEF ShowsFound
<1> QED BY <1>1, <1>2, <1>8, GetServes DEF Readings

LEMMA GetFacilityInvestorsServes ==
  ASSUME NEW r, Typed(r), pc[r] = "getFacilityInvestors", GetInvestorsForFacility(r)
  PROVE  Serves(r)
<1> DEFINE owner == FacilityIdentifier(r)
           call == AcbsGetFacilityPartiesForFacility(owner)
           parts == DataOf("FacilityParty", owner)
           Read(found) == [k \in DOMAIN found |-> FacilityInvestorOfAcbs(owner, found[k])]
           read == Read(parts)
<1>1. Op(r) = "GET/facilities/<facilityIdentifier>/investors" /\ ControlOK /\ StoreOK
      /\ r \in Requests /\ UNCHANGED workload
  BY FacilityPartCourses, TypedParts
<1>2. PICK outcome \in GetOutcomes(call) :
        /\ UNCHANGED acbs
        /\ IF IsGiven(outcome[1]) THEN Reply(r, 200, Read(outcome[1].data))
           ELSE Throw(r, GetException(call, outcome[1]))
  BY DEF GetInvestorsForFacility, ReceivesFor, Receives, Get, IsGiven, ReplyEach
<1>3. IsCall(call) /\ \A data : call.result = Ok(data) => data = parts
  BY GetsInvestors
<1>4. IF IsGiven(outcome[1])
      THEN outcome[1].data = parts => Reply(r, 200, read)
      ELSE Throw(r, GetException(call, outcome[1]))
  <2> HIDE DEF call, parts
  <2> QED BY <1>2
<1>5. /\ DOMAIN read = DOMAIN parts
      /\ \A k \in DOMAIN read : read[k] = FacilityInvestorOfAcbs(owner, parts[k])
  <2> HIDE DEF parts, owner
  <2> QED OBVIOUS
<1>6. Op(r) \in Lists
  BY <1>1 DEF Lists
<1> HIDE DEF call, read
<1>7. ASSUME Created(r)'  PROVE ShowsEach(r, "FacilityParty", owner, FacilityInvestorOfAcbs)
  <2>1. ASSUME NEW i \in Indexes("FacilityParty", owner)
        PROVE  FacilityInvestorOfAcbs(owner, acbs[i].data) \in Items(r)'
    <3>1. \E k \in DOMAIN read : parts[k] = acbs[i].data /\ read[k] \in Items(r)'
      BY <1>2, <1>3, <1>4, <1>5, <1>6, <1>7, ListAnswers
    <3> HIDE DEF parts, owner
    <3> QED BY <1>5, <3>1
  <2> QED BY <2>1 DEF ShowsEach
<1>8. ShowsFound(r)
  BY <1>1, <1>2, <1>7 DEF ShowsFound
<1> QED BY <1>1, <1>2, <1>8, GetServes DEF Readings

\* It reads the facility before it writes.
LEMMA ReadsFacilityServes ==
  ASSUME NEW r, Typed(r), Op(r) \in Creations, UNCHANGED acbs,
         NEW label, label \notin HavingCreated \cup {"done"}, NEW facility,
         Goto(r, label, facility) \/ \E exception : Throw(r, exception)
  PROVE  Serves(r)
<1>1. ControlOK /\ r \in Requests /\ UNCHANGED workload
  BY TypedParts
<1>2. ~Created(r)' /\ pc'[r] \in {label, "done"}
  BY <1>1, ThrowsQuietly, GoesQuietly
<1> QED BY <1>1, <1>2, QuietServes DEF HavingCreated

LEMMA GetFacilityOfCovenantServes ==
  ASSUME NEW r, Typed(r), pc[r] = "getFacilityOfCovenant", CreateCovenantForFacility(r)
  PROVE  Serves(r)
<1>1. Op(r) \in Creations
  BY FacilityPartCourses, TypedParts DEF Creations
<1>2. /\ UNCHANGED acbs
      /\ \E facility : Goto(r, "createCovenant", facility) \/ \E exception : Throw(r, exception)
  BY DEF CreateCovenantForFacility, ReceivesArrayFor, ReceivesFor, Receives, ReadFacilityThen, Get
<1> QED BY <1>1, <1>2, ReadsFacilityServes DEF HavingCreated

LEMMA CreateCovenantServes ==
  ASSUME NEW r, Typed(r), pc[r] = "createCovenant", CreateCovenantForFacility(r)
  PROVE  Serves(r)
<1> DEFINE owner == FacilityIdentifier(r)
           exists == FacilityExists(owner)
           part == CovenantToCreateInAcbs(local[r].FacilityTypeCode,
                                          local[r].BorrowerPartyIdentifier, Body(r)[1])
           data == Added(r, "FacilityCovenant", owner, part)
           result == IfFacilityExists(owner, "FacilityNotFound", Ok(data))
<1>1. /\ Op(r) = "POST/facilities/<facilityIdentifier>/covenants"
      /\ Body(r)[1] \in CreateFacilityCovenantRequestItem
      /\ ControlOK /\ StoreOK /\ r \in Requests /\ UNCHANGED workload
  BY FacilityPartCourses, TypedParts DEF IsReady, FacilityPartReady
<1>2. AnswersIf(exists, result, data, "FacilityNotFound")
  BY DEF AnswersIf, IfFacilityExists, FacilityExists
<1>3. IsSent(r, [kind |-> "FacilityCovenant", owner |-> owner, data |-> part, by |-> r])
  BY <1>1 DEF IsSent, IsSentFor
<1>4. PICK outcome \in WriteOutcomes(result) :
        /\ acbs' = outcome[2]
        /\ IF outcome[1].status = 200
           THEN Reply(r, 201, [facilityIdentifier |-> FacilityIdentifier(r)])
           ELSE Throw(r, WrapAcbsHttpPostOrPutError({"FacilityNotFound"}, outcome[1]))
  BY DEF CreateCovenantForFacility, ReceivesArrayFor, ReceivesFor, Receives,
         AcbsCreateCovenantForFacility, Write, WriteOr, AnswerFacility
<1> HIDE DEF owner, part, exists, result
<1>5. HasCreated(r)'
  BY <1>1, <1>4, RefusedCreatesNone, NamesItsOwner
<1> QED BY <1>1, <1>2, <1>3, <1>4, <1>5, AddsIfServe DEF Creations

LEMMA CreateFacilityGuaranteeServes ==
  ASSUME NEW r, Typed(r), pc[r] = "createFacilityGuarantee", CreateGuaranteeForFacility(r)
  PROVE  Serves(r)
<1> DEFINE owner == FacilityIdentifier(r)
           exists == FacilityExists(owner)
           part == GuaranteeToCreateInAcbs(Body(r)[1])
           data == Added(r, "FacilityGuarantee", owner, part)
           result == IfFacilityExists(owner, "FacilityNotFound", Ok(data))
<1>1. /\ Op(r) = "POST/facilities/<facilityIdentifier>/guarantees"
      /\ Body(r)[1] \in CreateFacilityGuaranteeRequestItem
      /\ ControlOK /\ StoreOK /\ r \in Requests /\ UNCHANGED workload
  BY FacilityPartCourses, TypedParts DEF IsReady, FacilityPartReady
<1>2. AnswersIf(exists, result, data, "FacilityNotFound")
  BY DEF AnswersIf, IfFacilityExists, FacilityExists
<1>3. IsSent(r, [kind |-> "FacilityGuarantee", owner |-> owner, data |-> part, by |-> r])
  BY <1>1 DEF IsSent, IsSentFor
<1>4. PICK outcome \in WriteOutcomes(result) :
        /\ acbs' = outcome[2]
        /\ IF outcome[1].status = 200
           THEN Reply(r, 201, [facilityIdentifier |-> FacilityIdentifier(r)])
           ELSE Throw(r, WrapAcbsHttpPostOrPutError({"FacilityNotFound"}, outcome[1]))
  BY DEF CreateGuaranteeForFacility, ReceivesItemFor, Receives,
         AcbsCreateGuaranteeForFacility, Write, WriteOr, AnswerFacility
<1> HIDE DEF owner, part, exists, result
<1>5. HasCreated(r)'
  BY <1>1, <1>4, RefusedCreatesNone, NamesItsOwner
<1> QED BY <1>1, <1>2, <1>3, <1>4, <1>5, AddsIfServe DEF Creations

LEMMA CreateFacilityInvestorServes ==
  ASSUME NEW r, Typed(r), pc[r] = "createFacilityInvestor", CreateInvestorForFacility(r)
  PROVE  Serves(r)
<1> DEFINE owner == FacilityIdentifier(r)
           exists == FacilityExists(owner)
           part == FacilityPartyToCreateInAcbs(Body(r)[1])
           data == Added(r, "FacilityParty", owner, part)
           result == IfFacilityExists(owner, "FacilityNotFound", Ok(data))
<1>1. /\ Op(r) = "POST/facilities/<facilityIdentifier>/investors"
      /\ Body(r)[1] \in CreateFacilityInvestorRequestItem
      /\ ControlOK /\ StoreOK /\ r \in Requests /\ UNCHANGED workload
  BY FacilityPartCourses, TypedParts DEF IsReady, FacilityPartReady
<1>2. AnswersIf(exists, result, data, "FacilityNotFound")
  BY DEF AnswersIf, IfFacilityExists, FacilityExists
<1>3. IsSent(r, [kind |-> "FacilityParty", owner |-> owner, data |-> part, by |-> r])
  BY <1>1 DEF IsSent, IsSentFor
<1>4. PICK outcome \in WriteOutcomes(result) :
        /\ acbs' = outcome[2]
        /\ IF outcome[1].status = 200
           THEN Reply(r, 201, [facilityIdentifier |-> FacilityIdentifier(r)])
           ELSE Throw(r, WrapAcbsHttpPostOrPutError({"FacilityNotFound"}, outcome[1]))
  BY DEF CreateInvestorForFacility, ReceivesItemFor, Receives,
         AcbsCreatePartyForFacility, Write, WriteOr, AnswerFacility
<1> HIDE DEF owner, part, exists, result
<1>5. HasCreated(r)'
  BY <1>1, <1>4, RefusedCreatesNone, NamesItsOwner
<1> QED BY <1>1, <1>2, <1>3, <1>4, <1>5, AddsIfServe DEF Creations

LEMMA FacilityPartServes ==
  ASSUME NEW r, Typed(r), FacilityPartHandler(r), pc[r] # "received"
  PROVE  Serves(r)
<1>1. \/ pc[r] = "getFacilityOfCovenant" /\ CreateCovenantForFacility(r)
      \/ pc[r] = "createCovenant" /\ CreateCovenantForFacility(r)
      \/ pc[r] = "getCovenants" /\ GetCovenantsForFacility(r)
      \/ pc[r] = "createFacilityGuarantee" /\ CreateGuaranteeForFacility(r)
      \/ pc[r] = "getFacilityGuarantees" /\ GetGuaranteesForFacility(r)
      \/ pc[r] = "createFacilityInvestor" /\ CreateInvestorForFacility(r)
      \/ pc[r] = "getFacilityInvestors" /\ GetInvestorsForFacility(r)
      \/ pc[r] \in {"getCovenantsToUpdate", "putCovenant"}
      \/ pc[r] \in {"getGuaranteesToUpdate", "putGuarantee"}
  BY DEF FacilityPartHandler, CreateCovenantForFacility, GetCovenantsForFacility,
         UpdateCovenantsForFacility, CreateGuaranteeForFacility, GetGuaranteesForFacility,
         UpdateGuaranteesForFacility, CreateInvestorForFacility, GetInvestorsForFacility,
         ReceivesArrayFor, ReceivesItemFor, ReceivesFor, Receives
<1>2. CASE \/ pc[r] \in {"getCovenantsToUpdate", "putCovenant"}
           \/ pc[r] \in {"getGuaranteesToUpdate", "putGuarantee"}
  <2>1. /\ Op(r) \in {"PATCH/facilities/<facilityIdentifier>/covenants",
                      "PATCH/facilities/<facilityIdentifier>/guarantees"}
        /\ UNCHANGED workload
    BY <1>2, FacilityPartCourses, TypedParts
  <2> QED BY <2>1, OthersServe DEF Creations, Readings
<1> QED BY <1>1, <1>2, GetFacilityOfCovenantServes, CreateCovenantServes, GetCovenantsServes,
           CreateFacilityGuaranteeServes, GetFacilityGuaranteesServes,
           CreateFacilityInvestorServes, GetFacilityInvestorsServes

-----------------------------------------------------------------------------
(* Fees and loans.                                                         *)

LEMMA GetFeesServes ==
  ASSUME NEW r, Typed(r), pc[r] = "getFees", GetFixedFeesForFacility(r)
  PROVE  Serves(r)
<1> DEFINE owner == FacilityIdentifier(r)
           parts == DataOf("FixedFee", owner)
           known == {}
           result == Ok(parts)
           call == GetCall(known, result)
           Read(found) == [k \in DOMAIN found |-> FixedFeeOfAcbs(owner, found[k])]
           read == Read(parts)
<1>1. Op(r) = "GET/facilities/<facilityIdentifier>/fixed-fees" /\ ControlOK /\ StoreOK
      /\ r \in Requests /\ UNCHANGED workload
  BY LoanCourses, TypedParts
<1>2. PICK outcome \in GetOutcomes(call) :
        /\ UNCHANGED acbs
        /\ IF IsGiven(outcome[1]) THEN Reply(r, 200, Read(outcome[1].data))
           ELSE Throw(r, GetException(call, outcome[1]))
  BY DEF GetFixedFeesForFacility, ReceivesFor, Receives, Get, IsGiven, ReplyEach,
         AcbsGetFixedFeesForFacility
<1>3. IsCall(call) /\ \A data : call.result = Ok(data) => data = parts
  <2> HIDE DEF parts
  <2>1. IsResult(result) /\ \A data : result = Ok(data) => data = parts
    BY OkOrNull
  <2>2. known \subseteq DOMAIN KnownErrors
    OBVIOUS
  <2> HIDE DEF known, result
  <2> QED BY <2>1, <2>2, GetCalls
<1>4. IF IsGiven(outcome[1])
      THEN outcome[1].data = parts => Reply(r, 200, read)
      ELSE Throw(r, GetException(call, outcome[1]))
  <2> HIDE DEF call, parts
  <2> QED BY <1>2
<1>5. /\ DOMAIN read = DOMAIN parts
      /\ \A k \in DOMAIN read : read[k] = FixedFeeOfAcbs(owner, parts[k])
  <2> HIDE DEF parts, owner
  <2> QED OBVIOUS
<1>6. Op(r) \in Lists
  BY <1>1 DEF Lists
<1> HIDE DEF call, read
<1>7. ASSUME Created(r)'  PROVE ShowsEach(r, "FixedFee", owner, FixedFeeOfAcbs)
  <2>1. ASSUME NEW i \in Indexes("FixedFee", owner)
        PROVE  FixedFeeOfAcbs(owner, acbs[i].data) \in Items(r)'
    <3>1. \E k \in DOMAIN read : parts[k] = acbs[i].data /\ read[k] \in Items(r)'
      BY <1>2, <1>3, <1>4, <1>5, <1>6, <1>7, ListAnswers
    <3> HIDE DEF parts, owner
    <3> QED BY <1>5, <3>1
  <2> QED BY <2>1 DEF ShowsEach
<1>8. ShowsFound(r)
  BY <1>1, <1>2, <1>7 DEF ShowsFound
<1> QED BY <1>1, <1>2, <1>8, GetServes DEF Readings

LEMMA GetFacilityOfFeeServes ==
  ASSUME NEW r, Typed(r), pc[r] = "getFacilityOfFee", CreateFixedFeeForFacility(r)
  PROVE  Serves(r)
<1>1. Op(r) \in Creations
  BY LoanCourses, TypedParts DEF Creations
<1>2. /\ UNCHANGED acbs
      /\ \E facility : Goto(r, "createFee", facility) \/ \E exception : Throw(r, exception)
  BY DEF CreateFixedFeeForFacility, ReceivesArrayFor, ReceivesFor, Receives, Get
<1> QED BY <1>1, <1>2, ReadsFacilityServes DEF HavingCreated

LEMMA CreateFeeServes ==
  ASSUME NEW r, Typed(r), pc[r] = "createFee", CreateFixedFeeForFacility(r)
  PROVE  Serves(r)
<1> DEFINE owner == FacilityIdentifier(r)
           fee == FixedFeeToCreateInAcbs(local[r], Body(r)[1])
           identified == [FacilityIdentifier |-> owner,
                          SegmentIdentifier |-> fee.SegmentIdentifier,
                          LenderTypeCode |-> fee.LenderTypeCode]
           isNew == FeeIndexes(acbs, identified) = {}
           data == Added(r, "FixedFee", owner, fee)
           known == {"InvalidPortfolioIdAndFacilityId", "FixedFeeExists"}
           result == IF FeeIndexes(acbs, identified) # {} THEN Refusal("FixedFeeExists")
                     ELSE IfFacilityExists(owner, "InvalidPortfolioIdAndFacilityId", Ok(data))
<1>1. /\ Op(r) = "POST/facilities/<facilityIdentifier>/fixed-fees"
      /\ Body(r)[1] \in CreateFacilityFixedFeeRequestItem
      /\ ControlOK /\ StoreOK /\ r \in Requests /\ UNCHANGED workload
  BY LoanCourses, TypedParts DEF IsReady, LoanReady
<1>2. FacilityExists(owner)
  <2>1. Calls(r)
    BY DEF Calls
  <2> QED BY <2>1, CourseKnows, TypedParts DEF Knows, KnowsFacility
<1>3. AnswersIf(isNew, result, data, "FixedFeeExists")
  BY <1>2 DEF AnswersIf, IfFacilityExists
<1>4. IsSent(r, [kind |-> "FixedFee", owner |-> owner, data |-> fee, by |-> r])
  BY <1>1 DEF IsSent, IsSentFor
<1>5. PICK outcome \in WriteOutcomes(result) :
        /\ acbs' = outcome[2]
        /\ IF outcome[1].status = 200
           THEN Reply(r, 201, [facilityIdentifier |-> FacilityIdentifier(r)])
           ELSE Throw(r, WrapAcbsHttpPostOrPutError(known, outcome[1]))
  BY DEF CreateFixedFeeForFacility, ReceivesArrayFor, ReceivesFor, Receives,
         AcbsCreateFixedFeeForFacility, Write, WriteOr, AnswerFacility
<1> HIDE DEF owner, fee, isNew, known, result
<1>6. HasCreated(r)'
  BY <1>1, <1>5, RefusedCreatesNone, NamesItsOwner
<1> QED BY <1>1, <1>3, <1>4, <1>5, <1>6, AddsIfServe DEF Creations

LEMMA CreateLoanServes ==
  ASSUME NEW r, Typed(r), pc[r] = "createLoan", CreateLoanForFacility(r)
  PROVE  Serves(r)
<1> DEFINE asked == Body(r)[1]
           messages == <<NewLoanMessage(FacilityIdentifier(r), asked)>>
           date == AddTime(asked.postingDate)
           bundle == BundleInformation(FACILITY_LOAN.initialBundleStatusCode, date, messages)
           text == KnownErrorForAction(bundle.BundleMessageList[1])
           kind == "BundleInformation"
           accepted == \A message \in Range(bundle.BundleMessageList) : ~Refused(message)
           data == Added(r, kind, None, bundle)
           result == IF \E message \in Range(bundle.BundleMessageList) : Refused(message)
                     THEN Refusal(text) ELSE Ok(data)
<1>1. /\ Op(r) = "POST/facilities/<facilityIdentifier>/loans"
      /\ asked \in CreateFacilityLoanRequestItem
      /\ ControlOK /\ StoreOK /\ r \in Requests /\ UNCHANGED workload
  BY LoanCourses, TypedParts DEF IsReady, LoanReady, IsCreateFacilityLoanRequestItem
<1>2. AnswersIf(accepted, result, data, text)
  BY DEF AnswersIf
<1>3. IsSent(r, [kind |-> kind, owner |-> None, data |-> bundle, by |-> r])
  <2>1. bundle.PostingDate = date /\ bundle.BundleMessageList = messages
    BY DEF BundleInformation
  <2> HIDE DEF bundle
  <2> QED BY <1>1, <2>1 DEF IsSent
<1>4. PICK outcome \in WriteOutcomes(result) :
        /\ acbs' = outcome[2]
        /\ IF outcome[1].status = 200 THEN Reply(r, 201, [bundleIdentifier |-> Len(acbs) + 1])
           ELSE Throw(r, WrapAcbsHttpPostOrPutError(
                             KnownErrorsForAction(bundle.BundleMessageList[1]), outcome[1]))
  <2>1. CreateBundleInformation(r, 201, bundle)
    BY DEF CreateLoanForFacility, Receives
  <2> HIDE DEF bundle
  <2> QED BY <2>1 DEF CreateBundleInformation, Write, WriteOr
<1> HIDE DEF bundle, accepted, result, text
<1>5. CASE outcome[1].status = 200
  <2>1. acbs' = data
    <3> HIDE DEF data
    <3> QED BY <1>2, <1>4, <1>5, DoneIsTaken
  <2>2. PICK n \in DOMAIN acbs' : n = Len(acbs) + 1 /\ acbs'[n].by = r /\ acbs'[n].kind = kind
    BY <1>1, <2>1, AddedIs
  <2>3. pc'[r] = "done" /\ answer'[r].body = [bundleIdentifier |-> n]
    BY <1>1, <1>4, <1>5, <2>2, RepliesWith
  <2>4. Op(r)' = "POST/facilities/<facilityIdentifier>/loans"
    BY <1>1, SameRequests
  <2>5. HasCreated(r)'
    BY <2>2, <2>3, <2>4 DEF HasCreated, IsOf
  <2> QED BY <1>1, <1>2, <1>3, <1>4, <2>5, AddsIfServe DEF Creations
<1>6. CASE outcome[1].status # 200
  BY <1>1, <1>2, <1>3, <1>4, <1>6, RefusedCreatesNone, AddsIfServe DEF Creations
<1> QED BY <1>5, <1>6

LEMMA GetLoanTransactionServes ==
  ASSUME NEW r, Typed(r), pc[r] = "getLoanTransaction", GetLoanTransactionByBundleIdentifier(r)
  PROVE  Serves(r)
<1> DEFINE n == Params(r).bundleIdentifier
           call == GetBundleInformationByIdentifier(n)
           bundle == acbs[n].data
           body == MapLoanTransaction(bundle, bundle.BundleMessageList[1])
<1>1. /\ Op(r) = "GET/facilities/<facilityIdentifier>/loan-transactions/<bundleIdentifier>"
      /\ ControlOK /\ StoreOK /\ r \in Requests /\ UNCHANGED workload
  BY LoanCourses, TypedParts
<1>2. PICK outcome \in GetOutcomes(call) :
        /\ UNCHANGED acbs
        /\ IF IsGiven(outcome[1])
           THEN LET action == outcome[1].data.BundleMessageList[1]
                IN  ReplyIfOfKind(r, IsNewLoanRequest(action),
                                  MapLoanTransaction(outcome[1].data, action))
           ELSE Throw(r, GetException(call, outcome[1]))
  BY DEF GetLoanTransactionByBundleIdentifier, ReceivesFor, Receives, Get, IsGiven
<1>3. IsGiven(outcome[1]) => outcome[1].data = bundle
  <2> DEFINE exists == n \in DOMAIN acbs /\ acbs[n].kind = "BundleInformation"
             result == IF exists THEN Ok(bundle) ELSE Refusal("BundleInformationNotFound")
  <2>1. call = GetCall({"BundleInformationNotFound"}, result)
    BY DEF GetBundleInformationByIdentifier
  <2>2. AnswersIf(exists, result, bundle, "BundleInformationNotFound")
    BY DEF AnswersIf
  <2> HIDE DEF call, exists, bundle, result
  <2> QED BY <1>2, <2>1, <2>2, GivenIf, KnownTexts
<1> HIDE DEF call
<1>4. Created(r)' => answer'[r].body = body
  <2>1. CASE ~IsGiven(outcome[1])
    BY <1>1, <1>2, <2>1, ThrowsQuietly
  <2>2. CASE IsGiven(outcome[1])
    <3>1. ReplyIfOfKind(r, IsNewLoanRequest(bundle.BundleMessageList[1]), body)
      BY <1>2, <1>3, <2>2
    <3> HIDE DEF body, bundle
    <3> QED BY <1>1, <3>1, RepliesWith, ThrowsQuietly DEF ReplyIfOfKind
  <2> QED BY <2>1, <2>2
<1>5. Created(r)' => body \in Items(r)'
  <2> HIDE DEF body
  <2> QED BY <1>1, <1>4, ItemAlone DEF Lists
<1>6. ShowsFound(r)
  BY <1>1, <1>2, <1>5 DEF ShowsFound
<1> QED BY <1>1, <1>2, <1>6, GetServes DEF Readings

LEMMA LoanServes ==
  ASSUME NEW r, Typed(r), LoanHandler(r), pc[r] # "received"
  PROVE  Serves(r)
<1>1. \/ pc[r] = "getFacilityOfFee" /\ CreateFixedFeeForFacility(r)
      \/ pc[r] = "createFee" /\ CreateFixedFeeForFacility(r)
      \/ pc[r] = "getFees" /\ GetFixedFeesForFacility(r)
      \/ pc[r] = "createLoan" /\ CreateLoanForFacility(r)
      \/ pc[r] = "getLoanTransaction" /\ GetLoanTransactionByBundleIdentifier(r)
      \/ pc[r] \in {"getFacilityToActivate", "createActivation", "getActivation", "amendFees",
                    "getLoans", "amendLoan", "getLoanToUpdate", "putLoan"}
  BY DEF LoanHandler, CreateActivationTransactionForFacility,
         GetActivationTransactionByBundleIdentifier, CreateFixedFeeForFacility,
         GetFixedFeesForFacility, CreateAmountAmendmentForFixedFees, GetLoansForFacility,
         CreateLoanForFacility, GetLoanTransactionByBundleIdentifier,
         CreateAmountAmendmentForLoan, UpdateLoanExpiryDate, ReceivesArrayFor,
         ReceivesItemFor, ReceivesFor, Receives
<1>2. CASE pc[r] \in {"getFacilityToActivate", "createActivation", "getActivation", "amendFees",
                      "getLoans", "amendLoan", "getLoanToUpdate", "putLoan"}
  <2>1. InCourse(r) /\ UNCHANGED workload
    BY TypedParts
  <2>2. Op(r) \notin Creations \cup Readings
    BY <1>2, <2>1, LoanCourses DEF Creations, Readings
  <2> QED BY <2>1, <2>2, OthersServe
<1> QED BY <1>1, <1>2, GetFacilityOfFeeServes, CreateFeeServes, GetFeesServes, CreateLoanServes,
           GetLoanTransactionServes

-----------------------------------------------------------------------------
(* Parties.                                                                *)

\* A set in a sequence, each of it somewhere.
LEMMA EachTaken ==
  ASSUME NEW S, IsFiniteSet(S), NEW i \in S
  PROVE  \E k \in DOMAIN SetToSeq(S) : SetToSeq(S)[k] = i
<1> DEFINE n == Cardinality(S)
           taken == SetToSeq(S)
<1>1. n \in Nat /\ ExistsBijection(1..n, S)
  BY FS_CardinalityType
<1>2. taken \in [1..n -> S] /\ IsInjective(taken)
  <2>1. \E g \in [1..n -> S] : IsInjective(g)
    BY <1>1 DEF ExistsBijection, Bijection, Injection
  <2> HIDE DEF n
  <2> QED BY <2>1 DEF SetToSeq, n
<1>3. taken \in Injection(1..n, S)
  BY <1>2 DEF Injection
<1>4. Cardinality(1..n) = Cardinality(S)
  <2>1. Cardinality(1..n) = IF 1 > n THEN 0 ELSE n - 1 + 1
    BY <1>1, FS_Interval
  <2> QED BY <1>1, <2>1
<1>5. taken \in Surjection(1..n, S)
  BY <1>3, <1>4, FS_Injection
<1>6. \E k \in 1..n : taken[k] = i
  BY <1>5 DEF Surjection
<1>7. DOMAIN taken = 1..n
  BY <1>2
<1> QED BY <1>6, <1>7

LEMMA GetPartiesServes ==
  ASSUME NEW r, Typed(r), pc[r] = "searchForParties", GetPartiesBySearchText(r)
  PROVE  Serves(r)
<1> DEFINE searchText == Params(r).searchText
           call == AcbsGetPartyBySearchText(searchText)
           parts == SetToSeq(PartiesOf(searchText))
           Read(parties) == [k \in DOMAIN parties |-> PartyOfAcbs(acbs[parties[k]].data)]
           read == Read(parts)
<1>1. Op(r) = "GET/parties" /\ ControlOK /\ StoreOK /\ r \in Requests /\ UNCHANGED workload
  BY PartyCourses, TypedParts
<1>2. PICK outcome \in GetOutcomes(call) :
        /\ UNCHANGED acbs
        /\ IF IsGiven(outcome[1]) THEN Reply(r, 200, Read(outcome[1].data))
           ELSE Throw(r, GetException(call, outcome[1]))
  BY DEF GetPartiesBySearchText, Receives, Get, IsGiven
<1>3. IsCall(call) /\ \A data : call.result = Ok(data) => data = parts
  BY <1>1, SearchFinds
<1>4. IsGiven(outcome[1]) => Reply(r, 200, read)
  <2> HIDE DEF call, parts
  <2> QED BY <1>2, <1>3, GetEnds
<1>5. ASSUME IsGiven(outcome[1]), NEW i \in PartiesOf(searchText)
      PROVE  PartyOfAcbs(acbs[i].data) \in Items(r)'
  <2>1. PICK k \in DOMAIN parts : parts[k] = i
    <3> DEFINE S == PartiesOf(searchText)
    <3>1. DOMAIN acbs = 1..Len(acbs) /\ Len(acbs) \in Nat
      BY <1>1, IsASequence DEF StoreOK, IsStore
    <3>2. IsFiniteSet(DOMAIN acbs) /\ S \in SUBSET DOMAIN acbs
      BY <3>1, FS_Interval DEF PartiesOf
    <3>3. IsFiniteSet(S) /\ i \in S
      BY <1>5, <3>2, FS_Subset
    <3> HIDE DEF S
    <3>4. \E k \in DOMAIN SetToSeq(S) : SetToSeq(S)[k] = i
      BY <3>3, EachTaken
    <3> QED BY <3>4 DEF S
  <2>2. k \in DOMAIN read /\ read[k] = PartyOfAcbs(acbs[i].data)
    <3> HIDE DEF parts
    <3> QED BY <2>1
  <2>3. answer'[r].body = read
    <3> HIDE DEF read
    <3> QED BY <1>1, <1>4, <1>5, RepliesWith
  <2> HIDE DEF read
  <2> QED BY <1>1, <2>2, <2>3, ItemsOfList DEF Lists
<1> HIDE DEF call, read
<1>6. ShowsFound(r)
  <2>1. CASE ~IsGiven(outcome[1])
    BY <1>1, <1>2, <2>1, ThrowsQuietly DEF ShowsFound
  <2>2. CASE IsGiven(outcome[1])
    BY <1>1, <1>2, <1>5, <2>2 DEF ShowsFound
  <2> QED BY <2>1, <2>2
<1> QED BY <1>1, <1>2, <1>6, GetServes DEF Readings

LEMMA GetPartyServes ==
  ASSUME NEW r, Typed(r), pc[r] = "getParty", GetPartyByIdentifier(r)
  PROVE  Serves(r)
<1> DEFINE party == Params(r).partyIdentifier
           exists == IsParty(party)
           data == acbs[party].data
           known == {"PartyNotFound"}
           result == IF exists THEN Ok(data) ELSE Refusal("PartyNotFound")
           call == GetCall(known, result)
<1>1. Op(r) = "GET/parties/<partyIdentifier>" /\ ControlOK /\ StoreOK /\ r \in Requests
      /\ UNCHANGED workload
  BY PartyCourses, TypedParts
<1>2. AnswersIf(exists, result, data, "PartyNotFound")
  BY DEF AnswersIf, IsParty
<1>3. PICK outcome \in GetOutcomes(call) :
        /\ UNCHANGED acbs
        /\ IF IsGiven(outcome[1]) THEN Reply(r, 200, PartyOfAcbs(outcome[1].data))
           ELSE Throw(r, GetException(call, outcome[1]))
  BY DEF GetPartyByIdentifier, Receives, Get, IsGiven, AcbsGetPartyByIdentifier
<1>4. known \subseteq DOMAIN KnownErrors
  BY KnownTexts
<1> HIDE DEF exists, known, result
<1>5. ASSUME IsGiven(outcome[1])  PROVE PartyOfAcbs(data) \in Items(r)'
  <2>1. outcome[1].data = data
    <3> HIDE DEF data
    <3> QED BY <1>2, <1>3, <1>4, <1>5, GivenIf
  <2>2. Reply(r, 200, PartyOfAcbs(data))
    BY <1>3, <1>5, <2>1
  <2>3. answer'[r].body = PartyOfAcbs(data)
    BY <1>1, <2>2, RepliesWith
  <2> QED BY <1>1, <2>3, ItemAlone DEF Lists
<1> HIDE DEF call
<1>6. ShowsFound(r)
  <2>1. CASE ~IsGiven(outcome[1])
    BY <1>1, <1>3, <2>1, ThrowsQuietly DEF ShowsFound
  <2>2. CASE IsGiven(outcome[1])
    BY <1>1, <1>3, <1>5, <2>2 DEF ShowsFound
  <2> QED BY <2>1, <2>2
<1> QED BY <1>1, <1>3, <1>6, GetServes DEF Readings

\* What POST /parties carries on with, of the party that it has.
CarriesParty(r) ==
    local[r].status = 201 => IsOf(r, local[r].partyIdentifier, "Party")

\* It goes on with that, having written nothing, or written a rating.
LEMMA CarriesServes ==
  ASSUME ControlOK, NEW r \in Requests, UNCHANGED workload, Op(r) = "POST/parties",
         SendsAsAsked(r), NEW label \in {"getRatings", "findCustomers", "createRating"}, NEW loc,
         Goto(r, label, loc), loc.status = 201 => IsOf(r, loc.partyIdentifier, "Party")'
  PROVE  Serves(r)
<1>1. ~Created(r)' /\ pc'[r] = label /\ local'[r] = loc
  BY GoesQuietly
<1>2. HasCreated(r)'
  BY <1>1, SameRequests DEF HasCreated, Created, Answered
<1> QED BY <1>2, PostServes DEF Creations

LEMMA AnswersPartyServes ==
  ASSUME ControlOK, NEW r \in Requests, UNCHANGED workload, Op(r) = "POST/parties",
         SendsAsAsked(r), AnswerParty(r), CarriesParty(r),
         \A i \in DOMAIN acbs : i \in DOMAIN acbs' /\ acbs'[i] = acbs[i]
  PROVE  Serves(r)
<1> DEFINE n == local[r].partyIdentifier
<1>1. Reply(r, local[r].status, [partyIdentifier |-> n])
  BY DEF AnswerParty
<1>2. /\ pc'[r] = "done" /\ answer'[r].status = local[r].status
      /\ answer'[r].body = [partyIdentifier |-> n]
  BY <1>1, RepliesWith
<1>3. ASSUME local[r].status = 201
      PROVE  n \in DOMAIN acbs' /\ acbs'[n].by = r /\ acbs'[n].kind = "Party"
  BY <1>3 DEF CarriesParty, IsOf
<1> HIDE DEF n
<1>4. HasCreated(r)'
  BY <1>2, <1>3, SameRequests DEF HasCreated, Answered, IsOf
<1> QED BY <1>4, PostServes DEF Creations

LEMMA SearchForPartyServes ==
  ASSUME NEW r, Typed(r), SearchForParty(r)
  PROVE  Serves(r)
<1> DEFINE Found(party) == [partyIdentifier |-> party, status |-> 200]
<1>1. Op(r) = "POST/parties" /\ ControlOK /\ r \in Requests /\ UNCHANGED workload
  BY PartyIsValid, TypedParts DEF SearchForParty
<1>2. /\ UNCHANGED acbs
      /\ \/ Goto(r, "createParty", None)
         \/ \E party : Goto(r, "getRatings", Found(party))
         \/ \E exception : Throw(r, exception)
  BY DEF SearchForParty, Get
<1>3. SendsAsAsked(r)
  BY <1>2 DEF SendsAsAsked
<1>4. CASE \E party : Goto(r, "getRatings", Found(party))
  <2>1. PICK loc : Goto(r, "getRatings", loc) /\ loc.status # 201
    BY <1>4
  <2> QED BY <1>1, <1>3, <2>1, CarriesServes
<1>5. CASE Goto(r, "createParty", None) \/ \E exception : Throw(r, exception)
  <2>1. ~Created(r)' /\ pc'[r] \in {"createParty", "done"}
    BY <1>1, <1>5, ThrowsQuietly, GoesQuietly
  <2> QED BY <1>1, <1>2, <2>1, QuietServes
<1> QED BY <1>2, <1>4, <1>5

LEMMA CreatePartyServes ==
  ASSUME NEW r, Typed(r), CreateParty(r)
  PROVE  Serves(r)
<1> DEFINE party == BuildAcbsCreatePartyRequest(Body(r)[1])
           data == Added(r, "Party", None, party)
           exists == TRUE
           text == "other"
           result == Ok(data)
           loc == [partyIdentifier |-> Len(acbs) + 1, status |-> 201]
<1>1. /\ Op(r) = "POST/parties" /\ Body(r)[1] \in CreatePartyRequestItem
      /\ ControlOK /\ StoreOK /\ r \in Requests /\ UNCHANGED workload
  BY PartyIsValid, TypedParts DEF CreateParty
<1>2. AnswersIf(exists, result, data, text)
  BY DEF AnswersIf
<1>3. IsSent(r, [kind |-> "Party", owner |-> None, data |-> party, by |-> r])
  BY <1>1 DEF IsSent
<1>4. PICK outcome \in WriteOutcomes(result) :
        /\ acbs' = outcome[2]
        /\ IF outcome[1].status = 200 THEN Goto(r, "getRatings", loc)
           ELSE Throw(r, WrapAcbsHttpPostOrPutError({}, outcome[1]))
  BY DEF CreateParty, AcbsCreateParty, Write, WriteOr, PartyToCreate
<1> HIDE DEF party, exists, text, result
<1>5. CASE outcome[1].status = 200
  <2>1. acbs' = data
    <3> HIDE DEF data
    <3> QED BY <1>2, <1>4, <1>5, DoneIsTaken
  <2>2. PICK n \in DOMAIN acbs' : n = Len(acbs) + 1 /\ acbs'[n].by = r /\ acbs'[n].kind = "Party"
    BY <1>1, <2>1, AddedIs
  <2>3. Goto(r, "getRatings", loc) /\ loc.partyIdentifier = n
    BY <1>4, <1>5, <2>2
  <2> HIDE DEF loc
  <2>4. /\ ~Created(r)' /\ pc'[r] = "getRatings" /\ local'[r].partyIdentifier = n
        /\ Op(r)' = "POST/parties"
    BY <1>1, <2>3, GoesQuietly, SameRequests
  <2>5. HasCreated(r)'
    BY <2>2, <2>4 DEF HasCreated, Created, Answered, IsOf
  <2> QED BY <1>1, <1>2, <1>3, <1>4, <2>5, AddsIfServe DEF Creations
<1>6. CASE outcome[1].status # 200
  BY <1>1, <1>2, <1>3, <1>4, <1>6, RefusedCreatesNone, AddsIfServe DEF Creations
<1> QED BY <1>5, <1>6

LEMMA HadParty ==
  ASSUME NEW r, Typed(r), HasCreated(r), pc[r] \in {"getRatings", "findCustomers", "createRating"}
  PROVE  CarriesParty(r)
BY PartyIsValid DEF HasCreated, CarriesParty

LEMMA GetRatingsServes ==
  ASSUME NEW r, Typed(r), HasCreated(r), GetRatingsOfParty(r)
  PROVE  Serves(r)
<1>1. Op(r) = "POST/parties" /\ ControlOK /\ r \in Requests /\ UNCHANGED workload
  BY PartyIsValid, TypedParts DEF GetRatingsOfParty
<1>2. /\ UNCHANGED acbs
      /\ \/ Goto(r, "findCustomers", local[r])
         \/ AnswerParty(r)
         \/ \E exception : Throw(r, exception)
  BY DEF GetRatingsOfParty, Get
<1>3. SendsAsAsked(r)
  BY <1>2 DEF SendsAsAsked
<1>4. CarriesParty(r)
  BY HadParty DEF GetRatingsOfParty
<1>5. CASE Goto(r, "findCustomers", local[r])
  <2>1. PICK loc : loc = local[r]
    OBVIOUS
  <2>2. loc.status = 201 => IsOf(r, loc.partyIdentifier, "Party")'
    BY <1>2, <1>4, <2>1 DEF CarriesParty, IsOf
  <2>3. Goto(r, "findCustomers", loc)
    BY <1>5, <2>1
  <2> QED BY <1>1, <1>3, <2>2, <2>3, CarriesServes
<1>6. CASE AnswerParty(r)
  BY <1>1, <1>2, <1>3, <1>4, <1>6, AnswersPartyServes
<1>7. CASE \E exception : Throw(r, exception)
  BY <1>1, <1>2, <1>7, ThrowsQuietly, QuietServes
<1> QED BY <1>2, <1>5, <1>6, <1>7

LEMMA FindCustomerTypeServes ==
  ASSUME NEW r, Typed(r), HasCreated(r), FindCustomerType(r)
  PROVE  Serves(r)
<1>1. Op(r) = "POST/parties" /\ ControlOK /\ r \in Requests /\ UNCHANGED workload
  BY PartyIsValid, TypedParts DEF FindCustomerType
<1>2. /\ UNCHANGED acbs
      /\ \/ \E loc : /\ Goto(r, "createRating", loc)
                     /\ loc.partyIdentifier = local[r].partyIdentifier
                     /\ loc.status = local[r].status
         \/ \E exception : Throw(r, exception)
  BY DEF FindCustomerType
<1>3. SendsAsAsked(r)
  BY <1>2 DEF SendsAsAsked
<1>4. CarriesParty(r)
  BY HadParty DEF FindCustomerType
<1>5. ASSUME NEW loc, Goto(r, "createRating", loc),
             loc.partyIdentifier = local[r].partyIdentifier, loc.status = local[r].status
      PROVE  Serves(r)
  <2>1. loc.status = 201 => IsOf(r, loc.partyIdentifier, "Party")'
    BY <1>2, <1>4, <1>5 DEF CarriesParty, IsOf
  <2> QED BY <1>1, <1>3, <1>5, <2>1, CarriesServes
<1>6. CASE \E exception : Throw(r, exception)
  BY <1>1, <1>2, <1>6, ThrowsQuietly, QuietServes
<1> QED BY <1>2, <1>5, <1>6

LEMMA CreateRatingServes ==
  ASSUME NEW r, Typed(r), HasCreated(r), CreateRating(r)
  PROVE  Serves(r)
<1> DEFINE party == local[r].partyIdentifier
           kind == "PartyExternalRating"
           rating == BuildAcbsCreateExternalRating(party, local[r].assignedRatingCode,
                                                   PartyToCreate(r).officerRiskDate)
           data == Added(r, kind, party, rating)
           result == Ok(data)
<1>1. /\ Op(r) = "POST/parties" /\ ControlOK /\ StoreOK /\ r \in Requests
      /\ UNCHANGED workload /\ pc[r] = "createRating"
  BY PartyIsValid, TypedParts DEF CreateRating
<1>2. PICK outcome \in WriteOutcomes(result) :
        /\ acbs' = outcome[2]
        /\ AnswerParty(r) \/ \E exception : Throw(r, exception)
  <2>1. IsParty(party)
    <3>1. KnowsParty(r)
      BY <1>1, TypedParts, CourseKnows DEF Knows, Calls
    <3> QED BY <1>1, <3>1 DEF KnowsParty
  <2>2. rating.PartyIdentifier = party
    BY DEF BuildAcbsCreateExternalRating
  <2> QED BY <2>1, <2>2 DEF CreateRating, AcbsCreateExternalRatingForParty, Write, WriteOr
<1>3. IsSent(r, [kind |-> kind, owner |-> party, data |-> rating, by |-> r])
  BY <1>1 DEF IsSent
<1>4. IsResult(result) /\ result # Null /\ \A other : result = Ok(other) => other = data
  <2> HIDE DEF data
  <2> QED BY OkOrNull
<1> HIDE DEF party, rating, result
<1>5. SendsAsAsked(r) /\ (acbs' # acbs => acbs' = data)
  BY <1>1, <1>2, <1>3, <1>4, AddsAsAsked
<1>6. \A i \in DOMAIN acbs : i \in DOMAIN acbs' /\ acbs'[i] = acbs[i]
  <2>1. CASE acbs' = acbs
    BY <2>1
  <2>2. CASE acbs' = data
    <3> DEFINE entity == [kind |-> kind, owner |-> party, data |-> rating, by |-> r]
    <3>1. acbs' = Append(acbs, entity)
      BY <2>2 DEF Added
    <3> HIDE DEF entity
    <3>2. acbs \in Seq(Range(acbs))
      BY <1>1 DEF StoreOK, IsStore
    <3> QED BY <3>1, <3>2, AppendedAre
  <2> QED BY <1>5, <2>1, <2>2
<1>7. CarriesParty(r)
  BY <1>1, HadParty
<1>8. CASE AnswerParty(r)
  BY <1>1, <1>5, <1>6, <1>7, <1>8, AnswersPartyServes
<1>9. CASE \E exception : Throw(r, exception)
  BY <1>1, <1>5, <1>9, RefusedCreatesNone, PostServes DEF Creations
<1> QED BY <1>2, <1>8, <1>9

LEMMA PartyServes ==
  ASSUME NEW r, Typed(r), HasCreated(r), PartyHandler(r), pc[r] # "received"
  PROVE  Serves(r)
<1>1. \/ pc[r] = "searchForParties" /\ GetPartiesBySearchText(r)
      \/ pc[r] = "getParty" /\ GetPartyByIdentifier(r)
      \/ pc[r] = "getExternalRatings"
      \/ SearchForParty(r) \/ CreateParty(r) \/ GetRatingsOfParty(r) \/ FindCustomerType(r)
      \/ CreateRating(r)
  BY DEF PartyHandler, GetPartiesBySearchText, GetPartyByIdentifier, GetExternalRatingsForParty,
         PostParties, ReceiveParty, Receives
<1>2. CASE pc[r] = "getExternalRatings"
  <2>1. Op(r) = "GET/parties/<partyIdentifier>/external-ratings" /\ UNCHANGED workload
    BY <1>2, PartyCourses, TypedParts
  <2> QED BY <2>1, OthersServe DEF Creations, Readings
<1> QED BY <1>1, <1>2, GetPartiesServes, GetPartyServes, SearchForPartyServes, CreatePartyServes,
           GetRatingsServes, FindCustomerTypeServes, CreateRatingServes

LEMMA HandleServes ==
  ASSUME NEW r, Typed(r), HasCreated(r), Handle(r)
  PROVE  Serves(r)
<1>1. CASE pc[r] = "received"
  BY <1>1, TypedParts, AnyBeginsServe
<1>2. CASE pc[r] # "received"
  BY <1>2, PartyServes, DealServes, FacilityServes, FacilityPartServes, LoanServes DEF Handle
<1> QED BY <1>1, <1>2

-----------------------------------------------------------------------------
(* A GET for what a POST created.                                          *)

LEMMA ReadByAre ==
  ASSUME NEW post, NEW get \in ReadBy(post)
  PROVE  \/ post = "POST/parties" /\ get \in {"GET/parties", "GET/parties/<partyIdentifier>"}
         \/ post = "POST/deals" /\ get = "GET/deals/<dealIdentifier>"
         \/ /\ post = "POST/deals/<dealIdentifier>/guarantees"
            /\ get = "GET/deals/<dealIdentifier>/guarantees"
         \/ /\ post = "POST/deals/<dealIdentifier>/investors"
            /\ get = "GET/deals/<dealIdentifier>/investors"
         \/ post = "POST/facilities" /\ get = "GET/facilities/<facilityIdentifier>"
         \/ /\ post = "POST/facilities/<facilityIdentifier>/covenants"
            /\ get = "GET/facilities/<facilityIdentifier>/covenants"
         \/ /\ post = "POST/facilities/<facilityIdentifier>/guarantees"
            /\ get = "GET/facilities/<facilityIdentifier>/guarantees"
         \/ /\ post = "POST/facilities/<facilityIdentifier>/investors"
            /\ get = "GET/facilities/<facilityIdentifier>/investors"
         \/ /\ post = "POST/facilities/<facilityIdentifier>/fixed-fees"
            /\ get = "GET/facilities/<facilityIdentifier>/fixed-fees"
         \/ /\ post = "POST/facilities/<facilityIdentifier>/loans"
            /\ get = "GET/facilities/<facilityIdentifier>/loan-transactions/<bundleIdentifier>"
BY DEF ReadBy

\* A GET of q that succeeds, for what p created, which is all in ACBS as p
\* asked for it.
Follows(q, p) ==
    /\ ControlOK /\ p \in Requests /\ q \in Requests
    /\ AsksForWhat(q, p) /\ Answered(p, {201}) /\ HasCreated(p)
    /\ \A i \in DOMAIN acbs : acbs[i].by = p => IsSent(p, acbs[i])
    /\ \E i \in DOMAIN acbs : acbs[i].by = p
    /\ Created(q)' /\ ShowsFound(q)

ReadsBack(q, p) == \E item \in Items(q)' : IsReadBack(Op(p), Body(p)[1], item)

LEMMA AsksByName ==
  ASSUME NEW q, NEW p, Follows(q, p), NEW name \in ParamNames(Op(q)), name # "searchText",
         name \in DOMAIN answer[p].body
  PROVE  Params(q)[name] = answer[p].body[name]
BY ParamsAre DEF Follows, AsksForWhat

LEMMA AsksForDeal ==
  ASSUME NEW q, NEW p, Follows(q, p),
         Op(p) \in {"POST/deals/<dealIdentifier>/guarantees",
                    "POST/deals/<dealIdentifier>/investors"},
         Op(q) \in {"GET/deals/<dealIdentifier>/guarantees",
                    "GET/deals/<dealIdentifier>/investors"}
  PROVE  DealIdentifier(q) = DealIdentifier(p)
<1>1. answer[p].body = [dealIdentifier |-> DealIdentifier(p)]
  BY DEF Follows, HasCreated
<1>2. "dealIdentifier" \in ParamNames(Op(q))
  BY DEF ParamNames
<1>3. "dealIdentifier" \in DOMAIN answer[p].body
      /\ answer[p].body["dealIdentifier"] = DealIdentifier(p)
  BY <1>1
<1> QED BY <1>2, <1>3, AsksByName DEF DealIdentifier

LEMMA AsksForFacility ==
  ASSUME NEW q, NEW p, Follows(q, p),
         Op(p) \in {"POST/facilities/<facilityIdentifier>/covenants",
                    "POST/facilities/<facilityIdentifier>/guarantees",
                    "POST/facilities/<facilityIdentifier>/investors",
                    "POST/facilities/<facilityIdentifier>/fixed-fees"},
         Op(q) \in {"GET/facilities/<facilityIdentifier>/covenants",
                    "GET/facilities/<facilityIdentifier>/guarantees",
                    "GET/facilities/<facilityIdentifier>/investors",
                    "GET/facilities/<facilityIdentifier>/fixed-fees"}
  PROVE  FacilityIdentifier(q) = FacilityIdentifier(p)
<1>1. answer[p].body = [facilityIdentifier |-> FacilityIdentifier(p)]
  BY DEF Follows, HasCreated
<1>2. "facilityIdentifier" \in ParamNames(Op(q))
  BY DEF ParamNames
<1>3. "facilityIdentifier" \in DOMAIN answer[p].body
      /\ answer[p].body["facilityIdentifier"] = FacilityIdentifier(p)
  BY <1>1
<1> QED BY <1>2, <1>3, AsksByName DEF FacilityIdentifier

LEMMA PartyFollows ==
  ASSUME NEW q, NEW p, Follows(q, p), Op(p) = "POST/parties",
         Op(q) \in {"GET/parties", "GET/parties/<partyIdentifier>"}
  PROVE  ReadsBack(q, p)
<1> DEFINE asked == Body(p)[1]
<1>1. PICK n \in DOMAIN acbs : answer[p].body = [partyIdentifier |-> n]
                               /\ acbs[n].by = p /\ acbs[n].kind = "Party"
  BY DEF Follows, HasCreated, IsOf
<1>2. asked \in CreatePartyRequestItem /\ acbs[n].data = BuildAcbsCreatePartyRequest(asked)
  BY <1>1 DEF Follows, IsSent
<1>3. CASE Op(q) = "GET/parties"
  <2>1. "searchText" \in DOMAIN Params(q)
    <3>1. DOMAIN Params(q) = ParamNames(Op(q))
      BY ParamsAre DEF Follows
    <3> QED BY <1>3, <3>1 DEF ParamNames
  <2>2. Params(q).searchText = asked.alternateIdentifier
    BY <2>1 DEF Follows, AsksForWhat
  <2>3. acbs[n].data.PartyAlternateIdentifier = asked.alternateIdentifier
    <3>1. \A party : BuildAcbsCreatePartyRequest(party).PartyAlternateIdentifier =
                       party.alternateIdentifier
      BY DEF BuildAcbsCreatePartyRequest
    <3> HIDE DEF asked
    <3> QED BY <1>2, <3>1
  <2>4. n \in PartiesOf(Params(q).searchText)
    BY <1>1, <2>2, <2>3 DEF PartiesOf, IsParty
  <2>5. PartyOfAcbs(acbs[n].data) \in Items(q)'
    BY <1>3, <2>4 DEF Follows, ShowsFound, Readings
  <2> QED BY <1>2, <2>5, PartyReadBack DEF ReadsBack
<1>4. CASE Op(q) = "GET/parties/<partyIdentifier>"
  <2>1. Params(q)["partyIdentifier"] = n
    <3>1. "partyIdentifier" \in ParamNames(Op(q))
      BY <1>4 DEF ParamNames
    <3>2. "partyIdentifier" \in DOMAIN answer[p].body /\ answer[p].body["partyIdentifier"] = n
      BY <1>1
    <3> QED BY <3>1, <3>2, AsksByName
  <2>2. PartyOfAcbs(acbs[n].data) \in Items(q)'
    BY <1>4, <2>1 DEF Follows, ShowsFound, Readings
  <2> QED BY <1>2, <2>2, PartyReadBack DEF ReadsBack
<1> QED BY <1>3, <1>4

LEMMA DealFollows ==
  ASSUME NEW q, NEW p, Follows(q, p), Op(p) = "POST/deals", Op(q) = "GET/deals/<dealIdentifier>"
  PROVE  ReadsBack(q, p)
<1> DEFINE asked == Body(p)[1]
<1>1. answer[p].body = [dealIdentifier |-> asked.dealIdentifier]
  BY DEF Follows, HasCreated
<1>2. PICK i \in DOMAIN acbs : acbs[i].by = p /\ acbs[i].kind = "Deal"
  BY DEF Follows, HasCreated, IsOf
<1>3. /\ acbs[i].owner = GLOBAL.portfolioIdentifier /\ asked \in CreateDealRequestItem
      /\ acbs[i].data = BuildAcbsRequestBodyToCreateDeal(asked)
  BY <1>2 DEF Follows, IsSent, IsSentFor
<1>4. DealIdentifier(q) = asked.dealIdentifier
  <2>1. "dealIdentifier" \in ParamNames(Op(q))
    BY DEF ParamNames
  <2>2. "dealIdentifier" \in DOMAIN answer[p].body
        /\ answer[p].body["dealIdentifier"] = asked.dealIdentifier
    BY <1>1
  <2> QED BY <2>1, <2>2, AsksByName DEF DealIdentifier
<1>5. acbs[i].data.DealIdentifier = asked.dealIdentifier
  BY <1>3 DEF BuildAcbsRequestBodyToCreateDeal
<1>6. i \in DealIndexes(DealIdentifier(q))
  BY <1>2, <1>3, <1>4, <1>5 DEF DealIndexes, Indexes
<1>7. PICK name : DealOfAcbs(acbs[i].data, name) \in Items(q)'
  BY <1>6 DEF Follows, ShowsFound, Readings
<1>8. IsReadBack("POST/deals", asked, DealOfAcbs(acbs[i].data, name))
  BY <1>3, DealReadBack
<1> QED BY <1>7, <1>8 DEF ReadsBack

LEMMA FacilityFollows ==
  ASSUME NEW q, NEW p, Follows(q, p), Op(p) = "POST/facilities",
         Op(q) = "GET/facilities/<facilityIdentifier>"
  PROVE  ReadsBack(q, p)
<1> DEFINE asked == Body(p)[1]
<1>1. answer[p].body = [facilityIdentifier |-> asked.facilityIdentifier]
  BY DEF Follows, HasCreated
<1>2. PICK i \in DOMAIN acbs : acbs[i].by = p
  BY DEF Follows
<1>3. /\ acbs[i].kind = "Facility" /\ IsBaseFacilityRequestItemWithFacilityIdentifier(asked)
      /\ acbs[i].data = FacilityAsSent(asked)
  BY <1>2 DEF Follows, IsSent
<1>4. FacilityIdentifier(q) = asked.facilityIdentifier
  <2>1. "facilityIdentifier" \in ParamNames(Op(q))
    BY DEF ParamNames
  <2>2. "facilityIdentifier" \in DOMAIN answer[p].body
        /\ answer[p].body["facilityIdentifier"] = asked.facilityIdentifier
    BY <1>1
  <2> QED BY <2>1, <2>2, AsksByName DEF FacilityIdentifier
<1>5. acbs[i].data.FacilityIdentifier = asked.facilityIdentifier
  <2>1. FacilityAsSent(asked).FacilityIdentifier = asked.facilityIdentifier
    <3> DEFINE kept == [FacilityIdentifier |-> asked.facilityIdentifier,
                        FacilityStatusCode |-> FACILITY_STATUSES.PENDING]
               request == BuildCreateAcbsFacilityRequest(asked)
    <3>1. /\ "FacilityIdentifier" \in DOMAIN kept
          /\ kept["FacilityIdentifier"] = asked.facilityIdentifier
      OBVIOUS
    <3>2. FacilityAsSent(asked) = kept ++ request
      BY DEF FacilityAsSent
    <3> HIDE DEF kept, request
    <3>3. (kept ++ request)["FacilityIdentifier"] = kept["FacilityIdentifier"]
      BY <3>1, Merged
    <3> QED BY <3>1, <3>2, <3>3
  <2> QED BY <1>3, <2>1
<1>6. i \in FacilityIndexes(acbs, FacilityIdentifier(q))
  BY <1>2, <1>3, <1>4, <1>5 DEF FacilityIndexes
<1>7. PICK name : FacilityOfAcbs(acbs[i].data, name) \in Items(q)'
  BY <1>6 DEF Follows, ShowsFound, Readings
<1>8. IsReadBack("POST/facilities", asked, FacilityOfAcbs(acbs[i].data, name))
  BY <1>3, FacilityReadBack
<1> QED BY <1>7, <1>8 DEF ReadsBack

LEMMA LoanFollows ==
  ASSUME NEW q, NEW p, Follows(q, p), Op(p) = "POST/facilities/<facilityIdentifier>/loans",
         Op(q) = "GET/facilities/<facilityIdentifier>/loan-transactions/<bundleIdentifier>"
  PROVE  ReadsBack(q, p)
<1> DEFINE asked == Body(p)[1]
           owner == FacilityIdentifier(p)
<1>1. PICK n \in DOMAIN acbs : /\ answer[p].body = [bundleIdentifier |-> n]
                               /\ acbs[n].by = p /\ acbs[n].kind = "BundleInformation"
  BY DEF Follows, HasCreated, IsOf
<1>2. /\ asked \in CreateFacilityLoanRequestItem
      /\ acbs[n].data.PostingDate = AddTime(asked.postingDate)
      /\ acbs[n].data.BundleMessageList = <<NewLoanMessage(owner, asked)>>
  BY <1>1 DEF Follows, IsSent
<1>3. Params(q)["bundleIdentifier"] = n
  <2>1. "bundleIdentifier" \in ParamNames(Op(q))
    BY DEF ParamNames
  <2>2. "bundleIdentifier" \in DOMAIN answer[p].body /\ answer[p].body["bundleIdentifier"] = n
    BY <1>1
  <2> QED BY <2>1, <2>2, AsksByName
<1>4. MapLoanTransaction(acbs[n].data, acbs[n].data.BundleMessageList[1]) \in Items(q)'
  BY <1>3 DEF Follows, ShowsFound, Readings
<1> HIDE DEF owner
<1>5. acbs[n].data.BundleMessageList[1] = NewLoanMessage(owner, asked)
  <2>1. PICK message : message = NewLoanMessage(owner, asked)
    OBVIOUS
  <2> QED BY <1>2, <2>1
<1>6. IsReadBack(Op(p), asked, MapLoanTransaction(acbs[n].data, NewLoanMessage(owner, asked)))
  BY <1>2, LoanReadBack
<1> QED BY <1>4, <1>5, <1>6 DEF ReadsBack

LEMMA DealGuaranteeFollows ==
  ASSUME NEW q, NEW p, Follows(q, p),
         Op(p) = "POST/deals/<dealIdentifier>/guarantees",
         Op(q) = "GET/deals/<dealIdentifier>/guarantees"
  PROVE  ReadsBack(q, p)
<1> DEFINE asked == Body(p)[1]
           owner == DealIdentifier(p)
<1>1. PICK i \in DOMAIN acbs : acbs[i].by = p
  BY DEF Follows
<1>2. /\ acbs[i].kind = "DealGuarantee" /\ acbs[i].owner = owner
      /\ asked \in CreateDealGuaranteeRequestItem
      /\ acbs[i].data = DealGuaranteeToCreateInAcbs(asked)
  BY <1>1 DEF Follows, IsSent, IsSentFor
<1>3. DealIdentifier(q) = owner
  BY AsksForDeal
<1>4. i \in Indexes("DealGuarantee", owner)
  BY <1>2 DEF Indexes
<1>5. DealGuaranteeOfAcbs(owner, acbs[i].data) \in Items(q)'
  BY <1>3, <1>4 DEF Follows, ShowsFound, ShowsEach, Readings
<1> HIDE DEF owner
<1>6. IsReadBack(Op(p), asked, DealGuaranteeOfAcbs(owner, acbs[i].data))
  BY <1>2, DealGuaranteeReadBack
<1> QED BY <1>5, <1>6 DEF ReadsBack

LEMMA DealInvestorFollows ==
  ASSUME NEW q, NEW p, Follows(q, p),
         Op(p) = "POST/deals/<dealIdentifier>/investors",
         Op(q) = "GET/deals/<dealIdentifier>/investors"
  PROVE  ReadsBack(q, p)
<1> DEFINE asked == Body(p)[1]
           owner == DealIdentifier(p)
<1>1. PICK i \in DOMAIN acbs : acbs[i].by = p
  BY DEF Follows
<1>2. /\ acbs[i].kind = "DealParty" /\ acbs[i].owner = owner
      /\ asked \in CreateDealInvestorRequestItem
      /\ acbs[i].data = DealInvestorToCreateInAcbs(asked)
  BY <1>1 DEF Follows, IsSent, IsSentFor
<1>3. DealIdentifier(q) = owner
  BY AsksForDeal
<1>4. i \in Indexes("DealParty", owner)
  BY <1>2 DEF Indexes
<1>5. DealInvestorOfAcbs(owner, acbs[i].data) \in Items(q)'
  BY <1>3, <1>4 DEF Follows, ShowsFound, ShowsEach, Readings
<1> HIDE DEF owner
<1>6. IsReadBack(Op(p), asked, DealInvestorOfAcbs(owner, acbs[i].data))
  BY <1>2, DealInvestorReadBack
<1> QED BY <1>5, <1>6 DEF ReadsBack

LEMMA CovenantFollows ==
  ASSUME NEW q, NEW p, Follows(q, p),
         Op(p) = "POST/facilities/<facilityIdentifier>/covenants",
         Op(q) = "GET/facilities/<facilityIdentifier>/covenants"
  PROVE  ReadsBack(q, p)
<1> DEFINE asked == Body(p)[1]
           owner == FacilityIdentifier(p)
<1>1. PICK i \in DOMAIN acbs : acbs[i].by = p
  BY DEF Follows
<1>2. /\ acbs[i].kind = "FacilityCovenant" /\ acbs[i].owner = owner
      /\ asked \in CreateFacilityCovenantRequestItem
      /\ \E typeCode, limitKey : acbs[i].data = CovenantToCreateInAcbs(typeCode, limitKey, asked)
  BY <1>1 DEF Follows, IsSent, IsSentFor
<1>3. FacilityIdentifier(q) = owner
  BY AsksForFacility
<1>4. i \in Indexes("FacilityCovenant", owner)
  BY <1>2 DEF Indexes
<1>5. CovenantOfAcbs(owner, acbs[i].data) \in Items(q)'
  BY <1>3, <1>4 DEF Follows, ShowsFound, ShowsEach, Readings
<1> HIDE DEF owner
<1>6. IsReadBack(Op(p), asked, CovenantOfAcbs(owner, acbs[i].data))
  BY <1>2, CovenantReadBack
<1> QED BY <1>5, <1>6 DEF ReadsBack

LEMMA FacilityGuaranteeFollows ==
  ASSUME NEW q, NEW p, Follows(q, p),
         Op(p) = "POST/facilities/<facilityIdentifier>/guarantees",
         Op(q) = "GET/facilities/<facilityIdentifier>/guarantees"
  PROVE  ReadsBack(q, p)
<1> DEFINE asked == Body(p)[1]
           owner == FacilityIdentifier(p)
<1>1. PICK i \in DOMAIN acbs : acbs[i].by = p
  BY DEF Follows
<1>2. /\ acbs[i].kind = "FacilityGuarantee" /\ acbs[i].owner = owner
      /\ asked \in CreateFacilityGuaranteeRequestItem
      /\ acbs[i].data = GuaranteeToCreateInAcbs(asked)
  BY <1>1 DEF Follows, IsSent, IsSentFor
<1>3. FacilityIdentifier(q) = owner
  BY AsksForFacility
<1>4. i \in Indexes("FacilityGuarantee", owner)
  BY <1>2 DEF Indexes
<1>5. GuaranteeOfAcbs(owner, acbs[i].data) \in Items(q)'
  BY <1>3, <1>4 DEF Follows, ShowsFound, ShowsEach, Readings
<1> HIDE DEF owner
<1>6. IsReadBack(Op(p), asked, GuaranteeOfAcbs(owner, acbs[i].data))
  BY <1>2, FacilityGuaranteeReadBack
<1> QED BY <1>5, <1>6 DEF ReadsBack

LEMMA FacilityInvestorFollows ==
  ASSUME NEW q, NEW p, Follows(q, p),
         Op(p) = "POST/facilities/<facilityIdentifier>/investors",
         Op(q) = "GET/facilities/<facilityIdentifier>/investors"
  PROVE  ReadsBack(q, p)
<1> DEFINE asked == Body(p)[1]
           owner == FacilityIdentifier(p)
<1>1. PICK i \in DOMAIN acbs : acbs[i].by = p
  BY DEF Follows
<1>2. /\ acbs[i].kind = "FacilityParty" /\ acbs[i].owner = owner
      /\ asked \in CreateFacilityInvestorRequestItem
      /\ acbs[i].data = FacilityPartyToCreateInAcbs(asked)
  BY <1>1 DEF Follows, IsSent, IsSentFor
<1>3. FacilityIdentifier(q) = owner
  BY AsksForFacility
<1>4. i \in Indexes("FacilityParty", owner)
  BY <1>2 DEF Indexes
<1>5. FacilityInvestorOfAcbs(owner, acbs[i].data) \in Items(q)'
  BY <1>3, <1>4 DEF Follows, ShowsFound, ShowsEach, Readings
<1> HIDE DEF owner
<1>6. IsReadBack(Op(p), asked, FacilityInvestorOfAcbs(owner, acbs[i].data))
  BY <1>2, FacilityInvestorReadBack
<1> QED BY <1>5, <1>6 DEF ReadsBack

LEMMA FeeFollows ==
  ASSUME NEW q, NEW p, Follows(q, p),
         Op(p) = "POST/facilities/<facilityIdentifier>/fixed-fees",
         Op(q) = "GET/facilities/<facilityIdentifier>/fixed-fees"
  PROVE  ReadsBack(q, p)
<1> DEFINE asked == Body(p)[1]
           owner == FacilityIdentifier(p)
<1>1. PICK i \in DOMAIN acbs : acbs[i].by = p
  BY DEF Follows
<1>2. /\ acbs[i].kind = "FixedFee" /\ acbs[i].owner = owner
      /\ asked \in CreateFacilityFixedFeeRequestItem
      /\ \E facility : acbs[i].data = FixedFeeToCreateInAcbs(facility, asked)
  BY <1>1 DEF Follows, IsSent, IsSentFor
<1>3. FacilityIdentifier(q) = owner
  BY AsksForFacility
<1>4. i \in Indexes("FixedFee", owner)
  BY <1>2 DEF Indexes
<1>5. FixedFeeOfAcbs(owner, acbs[i].data) \in Items(q)'
  BY <1>3, <1>4 DEF Follows, ShowsFound, ShowsEach, Readings
<1> HIDE DEF owner
<1>6. IsReadBack(Op(p), asked, FixedFeeOfAcbs(owner, acbs[i].data))
  BY <1>2, FeeReadBack
<1> QED BY <1>5, <1>6 DEF ReadsBack

\* So the GET answers with what the POST asked for.
LEMMA FollowsReadsBack ==
  ASSUME NEW q, NEW p, Follows(q, p)
  PROVE  ReadsBack(q, p)
<1>1. Op(q) \in ReadBy(Op(p))
  BY DEF Follows, AsksForWhat
<1> QED BY <1>1, ReadByAre, PartyFollows, DealFollows, DealGuaranteeFollows, DealInvestorFollows,
           FacilityFollows, CovenantFollows, FacilityGuaranteeFollows, FacilityInvestorFollows,
           FeeFollows, LoanFollows

-----------------------------------------------------------------------------
(* A step of a request keeps ReadInv.                                      *)

LEMMA SentStays ==
  ASSUME UNCHANGED workload, NEW p, NEW entity, IsSent(p, entity)
  PROVE  IsSent(p, entity)'
BY DEF IsSent, IsSentFor, Op, Body, DealIdentifier, FacilityIdentifier, Params

LEMMA SentNext ==
  ASSUME UNCHANGED workload, NEW p, NEW i, IsSent(p, acbs'[i])
  PROVE  IsSent(p, acbs[i])'
BY DEF IsSent, IsSentFor, Op, Body, DealIdentifier, FacilityIdentifier, Params

\* What no step of a request changes: parties, deals and bundles.
LEMMA HandleLeaves ==
  ASSUME StoreOK, NEW r, acbs' = acbs \/ Wrote(r), NEW i \in DOMAIN acbs,
         acbs[i].kind \in {"Party", "Deal", "BundleInformation"}
  PROVE  i \in DOMAIN acbs' /\ acbs'[i] = acbs[i]
<1>1. CASE acbs' = acbs
  BY <1>1
<1>2. ASSUME NEW entity, acbs' = Append(acbs, entity)
      PROVE  i \in DOMAIN acbs' /\ acbs'[i] = acbs[i]
  <2>1. acbs \in Seq(Range(acbs))
    BY DEF StoreOK, IsStore
  <2> QED BY <1>2, <2>1, AppendedAre
<1>3. ASSUME NEW entity, NEW k \in DOMAIN acbs, acbs' = [acbs EXCEPT ![k] = entity],
             acbs[k].kind \notin {"BundleInformation", "FixedFee", "Party", "Deal"}
      PROVE  i \in DOMAIN acbs' /\ acbs'[i] = acbs[i]
  <2>1. i # k
    BY <1>3
  <2> QED BY <1>3, <2>1
<1> QED BY <1>1, <1>2, <1>3 DEF Wrote

\* In a serial workload the requests before the one that takes a step are
\* done, and none after it has begun.
LEMMA TakesItsTurn ==
  ASSUME ControlOK, Serial, workload.serial, NEW r \in Requests, Frame(r),
         NEW q \in Requests \ {r}
  PROVE  IF q < r THEN pc[q] = "done" ELSE q > r /\ pc[q] = "received"
<1>1. q \in Nat /\ r \in Nat /\ q # r
  BY RequestsAre
<1>2. CASE q < r
  BY <1>2 DEF Frame, MayBegin, Serial
<1>3. CASE r < q
  BY <1>1, <1>3 DEF Frame, Serial
<1> QED BY <1>1, <1>2, <1>3

\* A step of request r of a serial workload.
Turn(r) ==
    /\ IInv /\ LimitInv /\ ReadInv /\ workload.serial
    /\ r \in Requests /\ UNCHANGED workload
    /\ Step(r) /\ Serves(r)

LEMMA TurnParts ==
  ASSUME NEW r, Turn(r)
  PROVE  /\ ControlOK /\ StoreOK /\ Serial /\ Frame(r) /\ Requests' = Requests
         /\ WrittenAsAsked /\ PendingIsLatest /\ CreatedIsReadBack
         /\ \A p \in Requests : HasCreated(p)
         /\ acbs' = acbs \/ Wrote(r)
         /\ pc'[r] # "received"
         /\ \A p \in Requests \ {r} : pc'[p] = pc[p] /\ local'[p] = local[p] /\ answer'[p] = answer[p]
         /\ \A i \in DOMAIN acbs' : acbs'[i].by = r \/ (i \in DOMAIN acbs /\ acbs'[i] = acbs[i])
<1>1. pc'[r] # "received"
  BY DEF Turn, Step, Lands, IsCourse, PartyCourse, DealCourse, FacilityCourse,
         FacilityPartCourse, LoanCourse
<1>2. ControlOK /\ StoreOK /\ Serial /\ Frame(r) /\ (acbs' = acbs \/ Wrote(r))
  BY DEF Turn, IInv, Step
<1>3. \A i \in DOMAIN acbs' : acbs'[i].by = r \/ (i \in DOMAIN acbs /\ acbs'[i] = acbs[i])
  BY <1>2, WroteKeeps DEF Turn
<1> QED BY <1>1, <1>2, <1>3 DEF Turn, ReadInv, Frame, Requests

LEMMA PostedStays ==
  ASSUME NEW r, Turn(r), NEW b \in DOMAIN acbs, Posted(b)
  PROVE  b \in DOMAIN acbs' /\ Posted(b)' /\ acbs'[b].by = acbs[b].by
<1>1. b \in DOMAIN acbs' /\ acbs'[b] = acbs[b]
  BY TurnParts, HandleLeaves DEF Posted
<1> QED BY <1>1 DEF Posted

LEMMA TurnWrites ==
  ASSUME NEW r, Turn(r)
  PROVE  WrittenAsAsked'
<1>1. \A i \in DOMAIN acbs' : acbs'[i].by \in Requests \cup {0}
  BY TurnParts DEF WrittenAsAsked, Turn
<1>2. ASSUME NEW p \in Requests, NEW i \in DOMAIN acbs', acbs'[i].by = p
      PROVE  (IsSent(p, acbs'[i]) \/ LaterPosted(p)') /\ pc'[p] # "received"
  <2>1. CASE i \in DOMAIN acbs /\ acbs'[i] = acbs[i]
    <3>1. (IsSent(p, acbs[i]) \/ LaterPosted(p)) /\ pc[p] # "received"
      BY <1>2, <2>1, TurnParts DEF WrittenAsAsked
    <3>2. LaterPosted(p) => LaterPosted(p)'
      BY PostedStays DEF LaterPosted
    <3>3. pc'[p] # "received"
      BY <3>1, TurnParts
    <3> QED BY <2>1, <3>1, <3>2, <3>3
  <2>2. CASE p = r /\ IsSent(r, acbs'[i])
    BY <2>2, TurnParts
  <2> QED BY <1>2, <2>1, <2>2, TurnParts DEF Turn, Serves, SendsAsAsked
<1>3. ASSUME NEW p \in Requests, NEW i \in DOMAIN acbs', acbs'[i].by = p
      PROVE  (IsSent(p, acbs[i])' \/ LaterPosted(p)') /\ pc'[p] # "received"
  BY <1>2, <1>3, SentNext DEF Turn
<1>4. Requests' = Requests
  BY TurnParts
<1> QED BY <1>1, <1>3, <1>4 DEF WrittenAsAsked

\* What was created, nothing takes back.
LEMMA CreatedStays ==
  ASSUME NEW p, UNCHANGED workload, HasCreated(p),
         pc'[p] = pc[p], local'[p] = local[p], answer'[p] = answer[p],
         \A i \in DOMAIN acbs : acbs[i].kind \in {"Party", "Deal", "BundleInformation"} =>
             /\ i \in DOMAIN acbs' /\ acbs'[i].kind = acbs[i].kind
             /\ acbs'[i].by = acbs[i].by
  PROVE  HasCreated(p)'
<1>1. \A i, kind : kind \in {"Party", "Deal", "BundleInformation"} /\ IsOf(p, i, kind) =>
                     i \in DOMAIN acbs' /\ IsOf(p, i, kind)'
  BY DEF IsOf
<1>2. /\ Op(p)' = Op(p) /\ Body(p)' = Body(p) /\ DealIdentifier(p)' = DealIdentifier(p)
      /\ FacilityIdentifier(p)' = FacilityIdentifier(p)
      /\ Answered(p, {201})' = Answered(p, {201})
  BY SameRequests DEF Answered
<1>3. \A i, kind : IsOf(p, i, kind) => i \in DOMAIN acbs
  BY DEF IsOf
<1>4. Answered(p, {201})' /\ Op(p) = "POST/parties" =>
        \E n \in DOMAIN acbs' : answer'[p].body = [partyIdentifier |-> n] /\ IsOf(p, n, "Party")'
  BY <1>1, <1>2 DEF HasCreated
<1>5. Answered(p, {201})' /\ Op(p) = "POST/deals" =>
        /\ answer'[p].body = [dealIdentifier |-> Body(p)[1].dealIdentifier]
        /\ \E i \in DOMAIN acbs' : IsOf(p, i, "Deal")'
  BY <1>1, <1>2 DEF HasCreated
<1>6. Answered(p, {201})' /\ Op(p) = "POST/facilities/<facilityIdentifier>/loans" =>
        \E n \in DOMAIN acbs' : /\ answer'[p].body = [bundleIdentifier |-> n]
                                /\ IsOf(p, n, "BundleInformation")'
  BY <1>1, <1>2 DEF HasCreated
<1>7. Op(p) = "POST/parties" /\ pc'[p] \in {"getRatings", "findCustomers", "createRating"}
      /\ local'[p].status = 201 => IsOf(p, local[p].partyIdentifier, "Party")'
  <2>1. PICK n : n = local[p].partyIdentifier /\ n = local'[p].partyIdentifier
    OBVIOUS
  <2>2. IsOf(p, n, "Party") => IsOf(p, n, "Party")'
    BY <1>1
  <2>3. Op(p) = "POST/parties" /\ pc'[p] \in {"getRatings", "findCustomers", "createRating"}
        /\ local'[p].status = 201 => IsOf(p, n, "Party")
    BY <2>1 DEF HasCreated
  <2> QED BY <2>1, <2>2, <2>3 DEF IsOf
<1>8. Op(p) = "POST/deals" /\ pc'[p] = "restrictDeal" => \E i \in DOMAIN acbs' : IsOf(p, i, "Deal")'
  BY <1>1 DEF HasCreated
<1>9. Answered(p, {201})' =>
        /\ Op(p) \in {"POST/deals/<dealIdentifier>/guarantees",
                      "POST/deals/<dealIdentifier>/investors"} =>
             answer'[p].body = [dealIdentifier |-> DealIdentifier(p)]
        /\ Op(p) = "POST/facilities" =>
             answer'[p].body = [facilityIdentifier |-> Body(p)[1].facilityIdentifier]
        /\ Op(p) \in {"POST/facilities/<facilityIdentifier>/covenants",
                      "POST/facilities/<facilityIdentifier>/guarantees",
                      "POST/facilities/<facilityIdentifier>/investors",
                      "POST/facilities/<facilityIdentifier>/fixed-fees"} =>
             answer'[p].body = [facilityIdentifier |-> FacilityIdentifier(p)]
  BY <1>2 DEF HasCreated
<1> QED BY <1>2, <1>4, <1>5, <1>6, <1>7, <1>8, <1>9 DEF HasCreated

LEMMA TurnCreates ==
  ASSUME NEW r, Turn(r), NEW p \in Requests
  PROVE  HasCreated(p)'
<1>1. CASE p = r
  BY <1>1 DEF Turn, Serves
<1>2. CASE p # r
  <2>1. \A i \in DOMAIN acbs : acbs[i].kind \in {"Party", "Deal", "BundleInformation"} =>
             /\ i \in DOMAIN acbs' /\ acbs'[i].kind = acbs[i].kind
             /\ acbs'[i].by = acbs[i].by
    BY TurnParts, HandleLeaves
  <2>2. /\ HasCreated(p) /\ pc'[p] = pc[p] /\ local'[p] = local[p] /\ answer'[p] = answer[p]
        /\ UNCHANGED workload
    BY <1>2, TurnParts DEF Turn
  <2> QED BY <2>1, <2>2, CreatedStays
<1> QED BY <1>1, <1>2

\* Only what the request itself asks for may be pending after its step, and
\* nothing is of a later one.
LEMMA TurnPends ==
  ASSUME NEW r, Turn(r)
  PROVE  PendingIsLatest'
<1> SUFFICES ASSUME NEW b \in DOMAIN acbs', NEW i \in DOMAIN acbs', Pending(b)'
             PROVE  acbs'[i].by <= acbs'[b].by
  BY DEF PendingIsLatest
<1>1. r \in Nat
  BY TurnParts, RequestsAre DEF Turn
<1>2. acbs'[b].by = r
  <2>1. acbs'[b].kind = "BundleInformation"
    BY DEF Pending
  <2>2. NonePending
    BY TurnParts, NonePendingBefore DEF Turn
  <2>3. ~(b \in DOMAIN acbs /\ acbs'[b] = acbs[b])
    BY <2>2 DEF NonePending, Pending
  <2> QED BY <2>1, <2>3, TurnParts
<1>3. CASE acbs'[i].by = r
  BY <1>1, <1>2, <1>3
<1>4. CASE i \in DOMAIN acbs /\ acbs'[i] = acbs[i] /\ acbs[i].by # r
  <2>1. CASE acbs[i].by = 0
    BY <1>1, <1>2, <1>4, <2>1
  <2>2. CASE acbs[i].by \in Requests
    <3>1. PICK p \in Requests \ {r} : p = acbs[i].by
      BY <1>4, <2>2
    <3>2. pc[p] # "received" /\ p \in Nat
      BY <1>4, <3>1, TurnParts, RequestsAre DEF WrittenAsAsked
    <3>3. p < r
      BY <3>2, TurnParts, TakesItsTurn DEF Turn
    <3> QED BY <1>1, <1>2, <1>4, <3>1, <3>2, <3>3
  <2> QED BY <1>4, <2>1, <2>2, TurnParts DEF WrittenAsAsked
<1> QED BY <1>3, <1>4, TurnParts

LEMMA ReadsNothingOfItsOwn ==
  ASSUME NEW r, Turn(r), Op(r) \in Readings
  PROVE  \A i \in DOMAIN acbs : acbs[i].by # r
<1>1. Op(r) \notin WritesSeveral /\ Op(r) # "POST/deals"
  BY DEF Readings, WritesSeveral
<1>2. pc[r] # "done" /\ InCourse(r)
  BY TurnParts DEF Turn, IInv, Frame
<1>3. pc[r] # "restrictDeal"
  BY <1>1, <1>2 DEF InCourse, IsCourse, PartyCourse, DealCourse, FacilityCourse,
                    FacilityPartCourse, LoanCourse
<1>4. WroteNothing(r)
  BY <1>1, <1>2, <1>3 DEF WroteNothing
<1> QED BY <1>4 DEF Turn, IInv

LEMMA AsksNext ==
  ASSUME UNCHANGED workload, NEW q, NEW p, AsksForWhat(q, p)', answer'[p] = answer[p]
  PROVE  AsksForWhat(q, p)
<1>1. Op(p)' = Op(p) /\ Op(q)' = Op(q) /\ Params(q)' = Params(q) /\ Params(p)' = Params(p)
      /\ Body(p)' = Body(p)
  BY SameRequests
<1>2. Op(q) \in ReadBy(Op(p))
  <2>1. Op(q)' \in ReadBy(Op(p))'
    BY DEF AsksForWhat
  <2> QED BY <1>1, <2>1 DEF ReadBy
<1> QED BY <1>1, <1>2 DEF AsksForWhat

\* What the GET of r answers with was asked for and is as it was asked for.
LEMMA TurnReads ==
  ASSUME NEW r, Turn(r), NEW p \in Requests, p < r, Answered(p, {201}), Created(r)',
         AsksForWhat(r, p), NEW i \in DOMAIN acbs', acbs'[i].by = p,
         \A b \in DOMAIN acbs' : Posted(b)' => acbs'[b].by \notin (p + 1)..(r - 1)
  PROVE  ReadsBack(r, p)
<1>1. p \in Nat /\ r \in Nat /\ p # r
  BY TurnParts, RequestsAre DEF Turn
<1>2. Op(r) \in Readings
  BY ReadByAre DEF AsksForWhat, Readings
<1>3. UNCHANGED acbs
  BY <1>2 DEF Turn, Serves, ShowsFound
<1>4. ASSUME NEW b \in DOMAIN acbs, Posted(b), acbs[b].by > p  PROVE FALSE
  <2>1. b \in DOMAIN acbs' /\ Posted(b)' /\ acbs'[b].by = acbs[b].by
    BY <1>4, PostedStays
  <2>2. acbs[b].by \notin (p + 1)..(r - 1)
    BY <2>1
  <2>3. PICK q \in Requests : q = acbs[b].by
    <3>0. WrittenAsAsked
      BY TurnParts
    <3>1. acbs[b].by \in Requests \cup {0}
      BY <1>4, <3>0 DEF WrittenAsAsked
    <3>2. acbs[b].by # 0
      <4>1. ~(0 > p)
        BY <1>1
      <4> QED BY <1>4, <4>1
    <3> QED BY <3>1, <3>2
  <2>4. q \in Nat /\ pc[q] # "received" /\ q > p
    BY <1>4, <2>3, TurnParts, RequestsAre DEF WrittenAsAsked
  <2>5. q # r
    BY <1>2, <2>3, ReadsNothingOfItsOwn
  <2>6. q < r
    BY <2>4, <2>5, TurnParts, TakesItsTurn DEF Turn
  <2> QED BY <1>1, <2>2, <2>3, <2>4, <2>6
<1>5. ~LaterPosted(p)
  BY <1>4 DEF LaterPosted
<1>6. \A j \in DOMAIN acbs : acbs[j].by = p => IsSent(p, acbs[j])
  BY <1>5, TurnParts DEF WrittenAsAsked
<1>7. HasCreated(p) /\ ControlOK
  BY TurnParts
<1>8. Follows(r, p)
  BY <1>3, <1>6, <1>7 DEF Follows, Turn, Serves
<1> QED BY <1>8, FollowsReadsBack

LEMMA TurnKeepsReadBack ==
  ASSUME NEW r, Turn(r)
  PROVE  CreatedIsReadBack'
<1> SUFFICES ASSUME NEW p \in Requests, NEW q \in Requests, p < q,
                    Answered(p, {201})', Created(q)', AsksForWhat(q, p)',
                    NEW i \in DOMAIN acbs', acbs'[i].by = p,
                    \A b \in DOMAIN acbs' : Posted(b)' => acbs'[b].by \notin (p + 1)..(q - 1)
             PROVE  (\E item \in Items(q) : IsReadBack(Op(p), Body(p)[1], item))'
  BY TurnParts DEF CreatedIsReadBack
<1>1. p \in Nat /\ q \in Nat /\ r \in Nat
  BY TurnParts, RequestsAre DEF Turn
<1>2. UNCHANGED workload
  BY DEF Turn
<1>3. p # r
  <2> SUFFICES ASSUME p = r  PROVE FALSE
    OBVIOUS
  <2>1. q # r /\ ~(q < r)
    BY <1>1
  <2>2. pc[q] = "received" /\ pc'[q] = pc[q]
    BY <2>1, TurnParts, TakesItsTurn DEF Turn
  <2> QED BY <2>2 DEF Created, Answered
<1>4. Answered(p, {201}) /\ AsksForWhat(q, p)
  <2>1. pc'[p] = pc[p] /\ answer'[p] = answer[p]
    BY <1>3, TurnParts
  <2> QED BY <1>2, <2>1, AsksNext DEF Answered
<1>5. ReadsBack(q, p) \/ \E item \in Items(q) : IsReadBack(Op(p), Body(p)[1], item) /\ q # r
  <2>1. CASE q = r
    BY <1>4, <2>1, TurnReads
  <2>2. CASE q # r
    <3>1. Created(q)
      <4>1. pc'[q] = pc[q] /\ answer'[q] = answer[q]
        BY <2>2, TurnParts
      <4> QED BY <4>1 DEF Created, Answered
    <3>2. i \in DOMAIN acbs /\ acbs[i].by = p
      BY <1>3, TurnParts
    <3>3. \A b \in DOMAIN acbs : Posted(b) => acbs[b].by \notin (p + 1)..(q - 1)
      BY PostedStays
    <3>4. CreatedIsReadBack
      BY TurnParts
    <3> QED BY <1>4, <2>2, <3>1, <3>2, <3>3, <3>4 DEF CreatedIsReadBack, Turn
  <2> QED BY <2>1, <2>2
<1>6. \A item : IsReadBack(Op(p), Body(p)[1], item) => IsReadBack(Op(p), Body(p)[1], item)'
  <2>1. Op(p)' = Op(p) /\ Body(p)' = Body(p)
    BY <1>2, SameRequests
  <2> QED BY <2>1 DEF IsReadBack, ReadElsewhere, MayRead
<1>7. q # r => Items(q)' = Items(q)
  <2>1. q # r => answer'[q] = answer[q] /\ Op(q)' = Op(q)
    BY <1>2, TurnParts, SameRequests
  <2> QED BY <2>1 DEF Items
<1> QED BY <1>5, <1>6, <1>7 DEF ReadsBack

LEMMA HandleKeepsReads ==
  ASSUME IInv, TypesOK, LimitInv, ReadInv, NEW r \in Requests, UNCHANGED workload, Handle(r)
  PROVE  ReadInv'
<1> SUFFICES ASSUME workload.serial  PROVE ReadInv'
  BY DEF ReadInv
<1>1. Step(r)
  BY HandleStep
<1>2. Typed(r)
  BY HandlesNotDone DEF IInv, Typed
<1>3. Serves(r)
  <2>1. HasCreated(r)
    BY DEF ReadInv
  <2> QED BY <1>2, <2>1, HandleServes
<1>4. Turn(r)
  BY <1>1, <1>3 DEF Turn
<1>5. \A p \in Requests : HasCreated(p)'
  BY <1>4, TurnCreates
<1>6. Requests' = Requests
  BY <1>4, TurnParts
<1> QED BY <1>4, <1>5, <1>6, TurnWrites, TurnPends, TurnKeepsReadBack DEF ReadInv

-----------------------------------------------------------------------------
(* A step of ACBS keeps ReadInv, and so does every step.                   *)

\* What a request that asked for a bundle wrote beside it is as it asked.
LEMMA SentByOther ==
  ASSUME NEW p, NEW bundle, NEW entity, IsSent(p, bundle), bundle.kind = "BundleInformation",
         entity.kind \notin {"Party", "Deal", "BundleInformation"}
  PROVE  IsSent(p, entity)
BY DEF IsSent, IsSentFor

\* A bundle is as it was asked for whether or not it has been posted.
LEMMA SentThough ==
  ASSUME NEW p, NEW old, NEW new, IsSent(p, old), old.kind = "BundleInformation",
         new.kind = "BundleInformation", new.data.PostingDate = old.data.PostingDate,
         new.data.BundleMessageList = old.data.BundleMessageList
  PROVE  IsSent(p, new)
BY DEF IsSent, IsSentFor

LEMMA DataExcept ==
  ASSUME NEW entity, IsEntity(entity), NEW value
  PROVE  LET new == [entity EXCEPT !.data = value]
         IN  new.kind = entity.kind /\ new.by = entity.by /\ new.data = value
<1>1. PICK k, o, d, b : entity = [kind |-> k, owner |-> o, data |-> d, by |-> b]
  BY DEF IsEntity
<1>2. entity.kind = k /\ entity.by = b
  BY <1>1
<1>3. [entity EXCEPT !.data = value] = [kind |-> k, owner |-> o, data |-> value, by |-> b]
  BY <1>1
<1> QED BY <1>2, <1>3

\* Another status of a bundle, and nothing else.
LEMMA MarkedAlone ==
  ASSUME NEW e, IsEntity(e), e.kind = "BundleInformation", "PostingDate" \in DOMAIN e.data,
         NEW code
  PROVE  LET marked == [e EXCEPT !.data.BundleStatusCode = code]
         IN  /\ marked.kind = e.kind /\ marked.by = e.by
             /\ marked.data.BundleStatusCode = code
             /\ marked.data.PostingDate = e.data.PostingDate
             /\ marked.data.BundleMessageList = e.data.BundleMessageList
<1> DEFINE data == [e.data EXCEPT !.BundleStatusCode = code]
           marked == [e EXCEPT !.data = data]
<1>1. {"BundleStatusCode", "BundleMessageList"} \subseteq DOMAIN e.data
  BY DEF IsEntity, FieldsOf
<1>2. /\ data.BundleStatusCode = code /\ data.PostingDate = e.data.PostingDate
      /\ data.BundleMessageList = e.data.BundleMessageList
  BY <1>1
<1>3. [e EXCEPT !.data.BundleStatusCode = code] = marked
  OBVIOUS
<1> HIDE DEF data
<1>4. marked.kind = e.kind /\ marked.by = e.by /\ marked.data = data
  BY DataExcept
<1> HIDE DEF marked
<1> QED BY <1>2, <1>3, <1>4

\* What ACBS holds after it posts bundle b, or fails to.
LEMMA PostChanges ==
  ASSUME StoreOK, TypesOK, UNCHANGED workload, NEW b \in DOMAIN acbs, PostBundle(b)
  PROVE  /\ UNCHANGED <<pc, local, answer>> /\ Pending(b)
         /\ \A i \in DOMAIN acbs' : \E k \in DOMAIN acbs : acbs'[i].by = acbs[k].by
         /\ \A i \in DOMAIN acbs :
              i \in DOMAIN acbs' /\ acbs'[i].kind = acbs[i].kind /\ acbs'[i].by = acbs[i].by
         /\ \A i \in DOMAIN acbs \ {b} :
              acbs[i].kind \in {"Party", "Deal", "BundleInformation"} => acbs'[i] = acbs[i]
         /\ \A i \in DOMAIN acbs' \ DOMAIN acbs : acbs'[i].kind = "Loan"
         /\ acbs'[b].data.PostingDate = acbs[b].data.PostingDate
         /\ acbs'[b].data.BundleMessageList = acbs[b].data.BundleMessageList
         /\ acbs'[b].data.BundleStatusCode # BundleStatusCodes.PENDING_POSTING
         /\ \/ acbs'[b].data.BundleStatusCode = BundleStatusCodes.POSTED
            \/ \A i \in DOMAIN acbs' : i # b => i \in DOMAIN acbs /\ acbs'[i] = acbs[i]
<1> DEFINE Marked(code) == [acbs[b] EXCEPT !.data.BundleStatusCode = code]
           messages == acbs[b].data.BundleMessageList
<1>1. /\ UNCHANGED <<pc, local, answer>> /\ Pending(b)
      /\ acbs[b].kind = "BundleInformation" /\ IsEntity(acbs[b])
  BY DEF PostBundle, Pending, StoreOK, IsStore
<1>2. "PostingDate" \in DOMAIN acbs[b].data
  <2>1. acbs[b].data \in AcbsBundleInformation
    BY <1>1 DEF TypesOK, TypedStore, IsOfItsDto, IsDto
  <2> QED BY <2>1 DEF AcbsBundleInformation
<1>3. \A code : /\ Marked(code).kind = acbs[b].kind /\ Marked(code).by = acbs[b].by
                /\ Marked(code).data.BundleStatusCode = code
                /\ Marked(code).data.PostingDate = acbs[b].data.PostingDate
                /\ Marked(code).data.BundleMessageList = messages
  BY <1>1, <1>2, MarkedAlone
<1>4. /\ Keeps(acbs, acbs')
      /\ \A i \in DOMAIN acbs' : \E k \in DOMAIN acbs : acbs'[i].by = acbs[k].by
      /\ \A i \in DOMAIN acbs' \ DOMAIN acbs : acbs'[i].kind = "Loan"
  BY PostKeeps
<1>5. /\ BundleStatusCodes.POSTED # BundleStatusCodes.PENDING_POSTING
      /\ BundleStatusCodes.POSTING_ERROR # BundleStatusCodes.PENDING_POSTING
  BY DEF BundleStatusCodes
<1>6. \A i \in DOMAIN acbs : BecomesOf(acbs[i], Amended(messages, i))
  BY <1>1, AmendedStays
<1>7. \A i \in DOMAIN acbs : acbs[i].kind \in {"Party", "Deal", "BundleInformation"} =>
                                Amended(messages, i) = acbs[i]
  BY DEF Amended
<1>8. \/ \A i \in DOMAIN acbs :
            acbs'[i] = IF i = b THEN Marked(BundleStatusCodes.POSTED) ELSE Amended(messages, i)
      \/ acbs' = [acbs EXCEPT ![b] = Marked(BundleStatusCodes.POSTING_ERROR)]
  BY PostOutcome
<1> HIDE DEF Marked, messages
<1>9. \A i \in DOMAIN acbs :
        i \in DOMAIN acbs' /\ acbs'[i].kind = acbs[i].kind /\ acbs'[i].by = acbs[i].by
  <2>1. \A i \in DOMAIN acbs : i \in DOMAIN acbs' /\ acbs'[i].kind = acbs[i].kind
    BY <1>4 DEF Keeps, IsSame
  <2>2. \A i \in DOMAIN acbs : acbs'[i].by = acbs[i].by
    BY <1>3, <1>6, <1>8 DEF BecomesOf
  <2> QED BY <2>1, <2>2
<1>10. \A i \in DOMAIN acbs \ {b} :
         acbs[i].kind \in {"Party", "Deal", "BundleInformation"} => acbs'[i] = acbs[i]
  BY <1>7, <1>8
<1>11. PICK code \in {BundleStatusCodes.POSTED, BundleStatusCodes.POSTING_ERROR} :
         acbs'[b] = Marked(code)
  BY <1>8
<1>12. /\ acbs'[b].data.PostingDate = acbs[b].data.PostingDate
       /\ acbs'[b].data.BundleMessageList = messages
       /\ acbs'[b].data.BundleStatusCode # BundleStatusCodes.PENDING_POSTING
  BY <1>3, <1>5, <1>11
<1>13. \/ acbs'[b].data.BundleStatusCode = BundleStatusCodes.POSTED
       \/ \A i \in DOMAIN acbs' : i # b => i \in DOMAIN acbs /\ acbs'[i] = acbs[i]
  <2>1. CASE \A i \in DOMAIN acbs :
               acbs'[i] = IF i = b THEN Marked(BundleStatusCodes.POSTED)
                          ELSE Amended(messages, i)
    BY <1>3, <2>1
  <2>2. CASE acbs' = [acbs EXCEPT ![b] = Marked(BundleStatusCodes.POSTING_ERROR)]
    BY <2>2
  <2> QED BY <1>8, <2>1, <2>2
<1> QED BY <1>1, <1>4, <1>9, <1>10, <1>12, <1>13 DEF messages

\* A step of ACBS in a serial workload.
PostTurn(b) ==
    /\ StoreOK /\ TypesOK /\ ReadInv /\ workload.serial /\ ControlOK
    /\ b \in DOMAIN acbs /\ PostBundle(b) /\ UNCHANGED workload

\* The bundles posted before it stay so.
LEMMA PostedBefore ==
  ASSUME NEW b, PostTurn(b), NEW c \in DOMAIN acbs, Posted(c)
  PROVE  c \in DOMAIN acbs' /\ Posted(c)' /\ acbs'[c].by = acbs[c].by
<1>1. c # b
  BY PostChanges DEF PostTurn, Posted, Pending, BundleStatusCodes
<1>2. c \in DOMAIN acbs' /\ acbs'[c] = acbs[c]
  BY <1>1, PostChanges DEF PostTurn, Posted
<1> QED BY <1>2 DEF Posted

LEMMA PostWrites ==
  ASSUME NEW b, PostTurn(b)
  PROVE  WrittenAsAsked'
<1>1. /\ StoreOK /\ TypesOK /\ WrittenAsAsked /\ PendingIsLatest /\ Pending(b)
      /\ b \in DOMAIN acbs /\ acbs[b].kind = "BundleInformation" /\ pc' = pc
      /\ UNCHANGED workload
  BY PostChanges DEF PostTurn, ReadInv, Pending
<1>2. \A i \in DOMAIN acbs' : \E k \in DOMAIN acbs : acbs'[i].by = acbs[k].by
  BY PostChanges DEF PostTurn
<1>3. Requests' = Requests
  BY <1>1 DEF Requests
<1>4. \A i \in DOMAIN acbs' : acbs'[i].by \in Requests \cup {0}
  BY <1>1, <1>2 DEF WrittenAsAsked
<1>5. ASSUME NEW p \in Requests, NEW i \in DOMAIN acbs', acbs'[i].by = p
      PROVE  IsSent(p, acbs'[i]) \/ LaterPosted(p)'
  <2>1. LaterPosted(p) => LaterPosted(p)'
    BY PostedBefore DEF LaterPosted
  <2>2. PICK k \in DOMAIN acbs : acbs[k].by = p
    BY <1>2, <1>5
  <2>3. p \in Nat /\ p <= acbs[b].by /\ acbs[b].by \in Nat
    <3>1. p <= acbs[b].by
      BY <1>1, <2>2 DEF PendingIsLatest
    <3>2. acbs[b].by \in Requests \cup {0}
      BY <1>1 DEF WrittenAsAsked
    <3> QED BY <3>1, <3>2, RequestsAre DEF PostTurn
  <2>4. ASSUME i # b, ~(i \in DOMAIN acbs /\ acbs'[i] = acbs[i]), ~LaterPosted(p)'
        PROVE  IsSent(p, acbs'[i])
    <3>1. acbs'[b].data.BundleStatusCode = BundleStatusCodes.POSTED /\ b \in DOMAIN acbs'
          /\ acbs'[b].kind = "BundleInformation" /\ acbs'[b].by = acbs[b].by
      BY <1>1, <2>4, PostChanges DEF PostTurn
    <3>2. ~(acbs[b].by > p)
      BY <2>4, <3>1 DEF LaterPosted, Posted
    <3>3. acbs[b].by = p
      BY <2>3, <3>2
    <3>4. IsSent(p, acbs[b])
      BY <1>1, <2>1, <2>4, <3>3 DEF WrittenAsAsked
    <3>5. acbs'[i].kind \notin {"Party", "Deal", "BundleInformation"}
      BY <1>1, <2>4, PostChanges DEF PostTurn
    <3> QED BY <1>1, <3>4, <3>5, SentByOther
  <2>5. CASE i = b
    <3>1. acbs'[b].by = acbs[b].by /\ acbs'[b].kind = "BundleInformation"
          /\ acbs'[b].data.PostingDate = acbs[b].data.PostingDate
          /\ acbs'[b].data.BundleMessageList = acbs[b].data.BundleMessageList
      BY <1>1, PostChanges DEF PostTurn
    <3>2. IsSent(p, acbs[b]) \/ LaterPosted(p)
      BY <1>1, <1>5, <2>5, <3>1 DEF WrittenAsAsked
    <3>3. IsSent(p, acbs[b]) => IsSent(p, acbs'[b])
      BY <1>1, <3>1, SentThough
    <3> QED BY <2>1, <2>5, <3>2, <3>3
  <2>6. CASE i \in DOMAIN acbs /\ acbs'[i] = acbs[i]
    <3>1. IsSent(p, acbs[i]) \/ LaterPosted(p)
      BY <1>1, <1>5, <2>6 DEF WrittenAsAsked
    <3> QED BY <2>1, <2>6, <3>1
  <2> QED BY <2>4, <2>5, <2>6
<1>6. ASSUME NEW p \in Requests, NEW i \in DOMAIN acbs', acbs'[i].by = p
      PROVE  (IsSent(p, acbs[i])' \/ LaterPosted(p)') /\ pc'[p] # "received"
  <2>1. IsSent(p, acbs'[i]) \/ LaterPosted(p)'
    BY <1>5, <1>6
  <2>2. pc'[p] # "received"
    BY <1>1, <1>2, <1>6 DEF WrittenAsAsked
  <2> QED BY <1>1, <2>1, <2>2, SentNext
<1> QED BY <1>3, <1>4, <1>6 DEF WrittenAsAsked

LEMMA PostPends ==
  ASSUME NEW b, PostTurn(b)
  PROVE  PendingIsLatest'
<1> SUFFICES ASSUME NEW c \in DOMAIN acbs', NEW i \in DOMAIN acbs', Pending(c)'
             PROVE  acbs'[i].by <= acbs'[c].by
  BY DEF PendingIsLatest
<1>1. c # b /\ c \in DOMAIN acbs /\ acbs'[c] = acbs[c]
  <2>1. acbs'[c].kind = "BundleInformation"
        /\ acbs'[c].data.BundleStatusCode = BundleStatusCodes.PENDING_POSTING
    BY DEF Pending
  <2>2. c # b
    BY <2>1, PostChanges DEF PostTurn
  <2>3. c \in DOMAIN acbs /\ acbs[c].kind = "BundleInformation"
    BY <2>1, PostChanges DEF PostTurn
  <2> QED BY <2>2, <2>3, PostChanges DEF PostTurn
<1>2. Pending(c)
  BY <1>1 DEF Pending
<1>3. PICK k \in DOMAIN acbs : acbs'[i].by = acbs[k].by
  BY PostChanges DEF PostTurn
<1> QED BY <1>1, <1>2, <1>3 DEF PostTurn, ReadInv, PendingIsLatest

LEMMA PostKeepsReadBack ==
  ASSUME NEW b, PostTurn(b)
  PROVE  CreatedIsReadBack'
<1>1. UNCHANGED <<workload, pc, local, answer>> /\ CreatedIsReadBack /\ Requests' = Requests
      /\ workload.serial
  BY PostChanges DEF PostTurn, ReadInv, Requests
<1> SUFFICES ASSUME NEW p \in Requests, NEW q \in Requests, p < q,
                    Answered(p, {201})', Created(q)', AsksForWhat(q, p)',
                    NEW i \in DOMAIN acbs', acbs'[i].by = p,
                    \A c \in DOMAIN acbs' : Posted(c)' => acbs'[c].by \notin (p + 1)..(q - 1)
             PROVE  (\E item \in Items(q) : IsReadBack(Op(p), Body(p)[1], item))'
  BY <1>1 DEF CreatedIsReadBack
<1>2. Answered(p, {201}) /\ Created(q)
  BY <1>1 DEF Answered, Created
<1>3. AsksForWhat(q, p)
  BY <1>1, AsksNext
<1>4. \E k \in DOMAIN acbs : acbs[k].by = p
  BY PostChanges DEF PostTurn
<1>5. \A c \in DOMAIN acbs : Posted(c) => acbs[c].by \notin (p + 1)..(q - 1)
  BY PostedBefore
<1>6. \E item \in Items(q) : IsReadBack(Op(p), Body(p)[1], item)
  BY <1>1, <1>2, <1>3, <1>4, <1>5 DEF CreatedIsReadBack
<1>7. \A item : IsReadBack(Op(p), Body(p)[1], item) => IsReadBack(Op(p), Body(p)[1], item)'
  <2>1. Op(p)' = Op(p) /\ Body(p)' = Body(p)
    BY <1>1, SameRequests
  <2> QED BY <2>1 DEF IsReadBack, ReadElsewhere, MayRead
<1>8. Items(q)' = Items(q)
  <2>1. answer'[q] = answer[q] /\ Op(q)' = Op(q)
    BY <1>1, SameRequests
  <2> QED BY <2>1 DEF Items
<1> QED BY <1>6, <1>7, <1>8

LEMMA PostKeepsReads ==
  ASSUME IInv, TypesOK, ReadInv, NEW b \in DOMAIN acbs, UNCHANGED workload, PostBundle(b)
  PROVE  ReadInv'
<1> SUFFICES ASSUME workload.serial  PROVE ReadInv'
  BY DEF ReadInv
<1>1. PostTurn(b)
  BY DEF PostTurn, IInv
<1>2. ASSUME NEW p \in Requests  PROVE HasCreated(p)'
  <2>1. /\ HasCreated(p) /\ UNCHANGED workload /\ pc'[p] = pc[p] /\ local'[p] = local[p]
        /\ answer'[p] = answer[p]
    BY <1>1, PostChanges DEF PostTurn, ReadInv
  <2>2. \A i \in DOMAIN acbs :
          i \in DOMAIN acbs' /\ acbs'[i].kind = acbs[i].kind /\ acbs'[i].by = acbs[i].by
    BY <1>1, PostChanges DEF PostTurn
  <2> QED BY <2>1, <2>2, CreatedStays
<1>3. Requests' = Requests
  BY DEF Requests
<1> QED BY <1>1, <1>2, <1>3, PostWrites, PostPends, PostKeepsReadBack DEF ReadInv

LEMMA StutterKeepsReads ==
  ASSUME ReadInv, UNCHANGED <<workload, pc, local, answer, acbs>>
  PROVE  ReadInv'
<1> SUFFICES ASSUME workload.serial  PROVE ReadInv'
  BY DEF ReadInv
<1>1. /\ Requests' = Requests /\ WrittenAsAsked /\ PendingIsLatest /\ CreatedIsReadBack
      /\ \A i : (Posted(i)' <=> Posted(i)) /\ (Pending(i)' <=> Pending(i))
  BY DEF ReadInv, Requests, Posted, Pending
<1>2. WrittenAsAsked'
  <2>1. ASSUME NEW p \in Requests, NEW i \in DOMAIN acbs', acbs'[i].by = p
        PROVE  (IsSent(p, acbs[i])' \/ LaterPosted(p)') /\ pc'[p] # "received"
    <3>1. (IsSent(p, acbs'[i]) \/ LaterPosted(p)) /\ pc[p] # "received"
      BY <1>1, <2>1 DEF WrittenAsAsked
    <3>2. LaterPosted(p) => LaterPosted(p)'
      BY <1>1 DEF LaterPosted
    <3> QED BY <3>1, <3>2, SentNext
  <2> QED BY <1>1, <2>1 DEF WrittenAsAsked
<1>3. PendingIsLatest'
  BY <1>1 DEF PendingIsLatest
<1>4. \A p \in Requests : HasCreated(p)'
  BY CreatedStays DEF ReadInv
<1>5. CreatedIsReadBack'
  <2> SUFFICES ASSUME NEW p \in Requests, NEW q \in Requests, p < q,
                      Answered(p, {201})', Created(q)', AsksForWhat(q, p)',
                      NEW i \in DOMAIN acbs', acbs'[i].by = p,
                      \A c \in DOMAIN acbs' : Posted(c)' => acbs'[c].by \notin (p + 1)..(q - 1)
               PROVE  (\E item \in Items(q) : IsReadBack(Op(p), Body(p)[1], item))'
    BY <1>1 DEF CreatedIsReadBack
  <2>1. Answered(p, {201}) /\ Created(q) /\ AsksForWhat(q, p)
    BY AsksNext DEF Answered, Created
  <2>2. \E item \in Items(q) : IsReadBack(Op(p), Body(p)[1], item)
    BY <1>1, <2>1 DEF CreatedIsReadBack
  <2>3. \A item : IsReadBack(Op(p), Body(p)[1], item) => IsReadBack(Op(p), Body(p)[1], item)'
    <3>1. Op(p)' = Op(p) /\ Body(p)' = Body(p)
      BY SameRequests
    <3> QED BY <3>1 DEF IsReadBack, ReadElsewhere, MayRead
  <2>4. Items(q)' = Items(q)
    BY SameRequests DEF Items
  <2> QED BY <2>2, <2>3, <2>4
<1> QED BY <1>1, <1>2, <1>3, <1>4, <1>5 DEF ReadInv

LEMMA NextKeepsReads == IInv /\ TypesOK /\ LimitInv /\ ReadInv /\ [Next]_vars => ReadInv'
<1> SUFFICES ASSUME IInv, TypesOK, LimitInv, ReadInv, [Next]_vars  PROVE ReadInv'
  OBVIOUS
<1>1. CASE UNCHANGED vars
  BY <1>1, StutterKeepsReads DEF vars
<1>2. ASSUME UNCHANGED workload, NEW r \in Requests, Handle(r)  PROVE ReadInv'
  BY <1>2, HandleKeepsReads
<1>3. ASSUME UNCHANGED workload, NEW b \in DOMAIN acbs, PostBundle(b)  PROVE ReadInv'
  BY <1>3, PostKeepsReads
<1>4. ASSUME UNCHANGED workload, Finished  PROVE ReadInv'
  BY <1>4, StutterKeepsReads DEF Finished
<1> QED BY <1>1, <1>2, <1>3, <1>4 DEF Next

LEMMA InitReads == Init => ReadInv
<1> SUFFICES ASSUME Init  PROVE ReadInv
  OBVIOUS
<1>1. workload \in Workloads /\ acbs = workload.acbs /\ Requests \subseteq Nat \ {0}
  BY InitIInv, RequestsAre DEF Init, IInv
<1>2. \A i \in DOMAIN acbs : acbs[i].by = 0
  BY <1>1, WorkloadAssumption
<1>3. \A r \in Requests : pc[r] = "received"
  BY DEF Init
<1>4. WrittenAsAsked
  BY <1>1, <1>2 DEF WrittenAsAsked
<1>5. \A p \in Requests : HasCreated(p)
  BY <1>3 DEF HasCreated, Answered
<1>6. PendingIsLatest
  BY <1>2 DEF PendingIsLatest
<1>7. CreatedIsReadBack
  BY <1>3 DEF CreatedIsReadBack, Answered
<1> QED BY <1>4, <1>5, <1>6, <1>7 DEF ReadInv

\* What a client creates it reads back: when the clients wait, a GET that
\* succeeds answers with something that has every field of the request whose
\* POST answered 201, unless ACBS posted a bundle of a request in between.
THEOREM CreatedAreReadBack == Spec => []CreatedIsReadBack
<1>1. ReadInv => CreatedIsReadBack
  BY DEF ReadInv, CreatedIsReadBack
<1>2. Init => IInv /\ TypesOK /\ LimitInv /\ ReadInv
  BY InitIInv, InitTypes, InitLimits, InitReads
<1>3. IInv /\ TypesOK /\ LimitInv /\ ReadInv /\ [Next]_vars =>
        IInv' /\ TypesOK' /\ LimitInv' /\ ReadInv'
  BY NextKeeps, NextKeepsTypes, NextKeepsLimits, NextKeepsReads
<1> QED BY <1>1, <1>2, <1>3, PTL DEF Spec
=============================================================================
