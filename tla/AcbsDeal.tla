------------------------------ MODULE AcbsDeal ------------------------------
(***************************************************************************)
(* Deals, their guarantees and their investors: the controllers, services  *)
(* and ACBS services of modules/deal, deal-guarantee and deal-investor.    *)
(* A deal is created and then restricted, by two calls of ACBS.            *)
(***************************************************************************)
EXTENDS AcbsHttp

DEAL == [memoLimitAmount |-> 0]
DEAL_BORROWING_RESTRICTION == [sequenceNumber |-> 1, restrictGroupCategoryCode |-> "36"]
DEAL_GUARANTEE == [guarantorParty |-> "00000141", guaranteeTypeCode |-> "450"]
DEAL_INVESTOR == [lenderTypeCode |-> "500", dealStatusCode |-> "A", expirationDate |-> None]

CreateDealRequestItem ==
    [dealIdentifier : Identifiers, currency : Currencies, dealValue : Amounts,
     guaranteeCommencementDate : Dates, obligorPartyIdentifier : Texts,
     obligorName : Texts, obligorIndustryClassification : Texts]

CreateDealResponse == [dealIdentifier : Identifiers]

GetDealByIdentifierResponse ==
    [dealIdentifier : Identifiers, portfolioIdentifier : {GLOBAL.portfolioIdentifier},
     currency : Currencies, dealValue : Amounts, guaranteeCommencementDate : Dates,
     obligorPartyIdentifier : Texts, obligorName : Texts \cup {""},
     obligorIndustryClassification : Texts]

CreateDealGuaranteeRequestItem ==
    [effectiveDate : Dates, limitKey : Texts, guaranteeExpiryDate : Dates,
     maximumLiability : Amounts, guarantorParty : Maybe(Texts)]

GetDealGuaranteeResponseItem ==
    [portfolioIdentifier : {GLOBAL.portfolioIdentifier}, dealIdentifier : Identifiers,
     effectiveDate : Dates, guarantorParty : Texts \cup {DEAL_GUARANTEE.guarantorParty},
     limitKey : Texts, guaranteeExpiryDate : Dates, maximumLiability : Amounts,
     guaranteeTypeCode : {DEAL_GUARANTEE.guaranteeTypeCode}]

CreateDealInvestorRequestItem ==
    [lenderType : Maybe(Range(LENDER_TYPE_CODES)), effectiveDate : Dates,
     expiryDate : Maybe(Dates), dealStatus : Maybe(Texts), currency : Currencies]

GetDealInvestorResponseDto ==
    [dealIdentifier : Identifiers, portfolioIdentifier : {GLOBAL.portfolioIdentifier},
     lenderType : Range(LENDER_TYPE_CODES), effectiveDate : Dates,
     expiryDate : Maybe(Dates), isExpiryDateMaximum : BOOLEAN,
     maximumLiability : Maybe(Amounts)]

AcbsCreateDealDto ==
    [DealIdentifier : Identifiers, PortfolioIdentifier : {GLOBAL.portfolioIdentifier},
     CurrencyCode : Currencies, LimitAmount : Amounts, MemoLimitAmount : {DEAL.memoLimitAmount},
     OriginalEffectiveDate : DateTimes, TargetClosingDate : DateTimes,
     OriginalApprovalDate : DateTimes, OfficerRiskDate : DateTimes,
     BorrowerPartyIdentifier : Texts, IndustryClassificationCode : Texts]

AcbsCreateDealGuaranteeDto ==
    [LimitKey : Texts, GuarantorPartyIdentifier : Texts \cup {DEAL_GUARANTEE.guarantorParty},
     GuaranteeTypeCode : {DEAL_GUARANTEE.guaranteeTypeCode}, EffectiveDate : DateTimes,
     ExpirationDate : DateTimes, GuaranteedLimit : Amounts]

AcbsCreateDealInvestorRequest ==
    [EffectiveDate : DateTimes, ExpirationDate : Maybe(DateTimes),
     IsExpirationDateMaximum : BOOLEAN, LenderTypeCode : Range(LENDER_TYPE_CODES),
     CurrencyCode : Currencies, DealStatusCode : Texts \cup {DEAL_INVESTOR.dealStatusCode}]

AcbsUpdateDealBorrowingRestrictionRequest ==
    [SequenceNumber : {1}, RestrictGroupCategoryCode : {"36"}]

\* buildAcbsRequestBodyToCreateDeal, and ...FromDefaults.
BuildAcbsRequestBodyToCreateDeal(deal) ==
    LET effectiveDate == GetEarliestDateFromTodayAnd(deal.guaranteeCommencementDate)
    IN  [DealIdentifier |-> deal.dealIdentifier,
         PortfolioIdentifier |-> GLOBAL.portfolioIdentifier,
         CurrencyCode |-> deal.currency,
         LimitAmount |-> RoundTo2DecimalPlaces(deal.dealValue),
         MemoLimitAmount |-> DEAL.memoLimitAmount,
         OriginalEffectiveDate |-> effectiveDate,
         TargetClosingDate |-> effectiveDate,
         OriginalApprovalDate |-> effectiveDate,
         OfficerRiskDate |-> AddTime(Today),
         BorrowerPartyIdentifier |-> deal.obligorPartyIdentifier,
         IndustryClassificationCode |-> deal.obligorIndustryClassification]

\* borrowerName is what ACBS calls the borrower.
DealOfAcbs(deal, borrowerName) ==
    [dealIdentifier |-> deal.DealIdentifier,
     portfolioIdentifier |-> deal.PortfolioIdentifier,
     currency |-> deal.CurrencyCode,
     dealValue |-> deal.MemoLimitAmount,
     guaranteeCommencementDate |-> RemoveTimeIfExists(deal.OriginalEffectiveDate),
     obligorPartyIdentifier |-> deal.BorrowerPartyIdentifier,
     obligorName |-> OrDefault(borrowerName, ""),
     obligorIndustryClassification |-> deal.IndustryClassificationCode]

BuildBorrowingRestrictionToUpdateInAcbs ==
    [SequenceNumber |-> DEAL_BORROWING_RESTRICTION.sequenceNumber,
     RestrictGroupCategoryCode |-> DEAL_BORROWING_RESTRICTION.restrictGroupCategoryCode]

DealGuaranteeToCreateInAcbs(guarantee) ==
    [LimitKey |-> guarantee.limitKey,
     GuarantorPartyIdentifier |-> OrDefault(guarantee.guarantorParty, DEAL_GUARANTEE.guarantorParty),
     GuaranteeTypeCode |-> DEAL_GUARANTEE.guaranteeTypeCode,
     EffectiveDate |-> GetEarliestDateFromTodayAnd(guarantee.effectiveDate),
     ExpirationDate |-> AddTime(guarantee.guaranteeExpiryDate),
     GuaranteedLimit |-> RoundTo2DecimalPlaces(guarantee.maximumLiability)]

DealGuaranteeOfAcbs(dealIdentifier, guarantee) ==
    [portfolioIdentifier |-> GLOBAL.portfolioIdentifier,
     dealIdentifier |-> dealIdentifier,
     effectiveDate |-> RemoveTimeIfExists(guarantee.EffectiveDate),
     guarantorParty |-> guarantee.GuarantorPartyIdentifier,
     limitKey |-> guarantee.LimitKey,
     guaranteeExpiryDate |-> RemoveTimeIfExists(guarantee.ExpirationDate),
     maximumLiability |-> guarantee.GuaranteedLimit,
     guaranteeTypeCode |-> guarantee.GuaranteeTypeCode]

DealInvestorToCreateInAcbs(investor) ==
    [EffectiveDate |-> GetEarliestDateFromTodayAnd(investor.effectiveDate),
     ExpirationDate |-> IF investor.expiryDate = None THEN DEAL_INVESTOR.expirationDate
                        ELSE AddTime(investor.expiryDate),
     IsExpirationDateMaximum |-> investor.expiryDate = None,
     LenderTypeCode |-> OrDefault(investor.lenderType, DEAL_INVESTOR.lenderTypeCode),
     CurrencyCode |-> investor.currency,
     DealStatusCode |-> OrDefault(investor.dealStatus, DEAL_INVESTOR.dealStatusCode)]

\* The limit of an investor is ACBS's own: the API does not set it.
DealInvestorOfAcbs(dealIdentifier, investor) ==
    [dealIdentifier |-> dealIdentifier,
     portfolioIdentifier |-> GLOBAL.portfolioIdentifier,
     lenderType |-> investor.LenderTypeCode,
     effectiveDate |-> RemoveTimeIfExists(investor.EffectiveDate),
     expiryDate |-> RemoveTimeIfExists(investor.ExpirationDate),
     isExpiryDateMaximum |-> investor.IsExpirationDateMaximum,
     maximumLiability |-> None]

-----------------------------------------------------------------------------
(* Calls of ACBS.  It refuses a second deal of the same identifier.        *)

DealIndexes(dealIdentifier) ==
    {i \in Indexes("Deal", GLOBAL.portfolioIdentifier) :
        acbs[i].data.DealIdentifier = dealIdentifier}

AcbsCreateDeal(r, deal, Then) ==
    Write(r, {},
          IF DealIndexes(deal.DealIdentifier) = {}
          THEN Ok(Added(r, "Deal", GLOBAL.portfolioIdentifier, deal))
          ELSE Refusal("other"),
          Then)

AcbsGetDealByIdentifier(dealIdentifier) ==
    GetCall({},
        IF DealIndexes(dealIdentifier) = {} THEN Null
        ELSE Ok(acbs[CHOOSE i \in DealIndexes(dealIdentifier) : TRUE].data))

IfDealExists(dealIdentifier, result) ==
    IF DealIndexes(dealIdentifier) = {} THEN Refusal("DealNotFound") ELSE result

\* A deal has one restriction.
Restricted(r, dealIdentifier, restriction) ==
    LET held == Indexes("BorrowingRestriction", dealIdentifier)
    IN  IF held = {} THEN Added(r, "BorrowingRestriction", dealIdentifier, restriction)
        ELSE Replaced(r, CHOOSE i \in held : TRUE, restriction)

AcbsUpdateBorrowingRestrictionForDeal(r, dealIdentifier, restriction, Failed, Then) ==
    LET Fails(error) == Failed
    IN  WriteOr(r, IfDealExists(dealIdentifier, Ok(Restricted(r, dealIdentifier, restriction))),
                Fails, Then)

AcbsCreateGuaranteeForDeal(r, dealIdentifier, guarantee, Then) ==
    Write(r, {"DealNotFound"},
          IfDealExists(dealIdentifier, Ok(Added(r, "DealGuarantee", dealIdentifier, guarantee))),
          Then)

AcbsGetGuaranteesForDeal(dealIdentifier) ==
    GetCall({"DealNotFound"},
        IfDealExists(dealIdentifier, Ok(DataOf("DealGuarantee", dealIdentifier))))

AcbsCreateInvestorForDeal(r, dealIdentifier, investor, Then) ==
    Write(r, {"DealNotFound"},
          IfDealExists(dealIdentifier, Ok(Added(r, "DealParty", dealIdentifier, investor))),
          Then)

AcbsGetDealPartiesForDeal(dealIdentifier) ==
    GetCall({},
        IF DealIndexes(dealIdentifier) = {} THEN Null
        ELSE Ok(DataOf("DealParty", dealIdentifier)))

-----------------------------------------------------------------------------
(* The handlers.                                                           *)

DealIdentifier(r) == Params(r).dealIdentifier
AnswerDeal(r, dealIdentifier) == Reply(r, 201, [dealIdentifier |-> dealIdentifier])

GetDeal(r) ==
    LET Found(deal) ==
            \E name \in {None} \cup Texts : Reply(r, 200, DealOfAcbs(deal, name))
    IN  \/ Receives(r, "GET/deals/<dealIdentifier>") /\ WithoutAcbs /\ Goto(r, "getDeal", None)
        \/ pc[r] = "getDeal" /\ Get(r, AcbsGetDealByIdentifier(DealIdentifier(r)), Found)

ReceiveDeal(r) ==
    /\ Receives(r, "POST/deals")
    /\ ValidatedItem(r, TRUE, CreateDealRequestItem, Goto(r, "createDeal", None))

CreateDealOnly(r) ==   \* variant: answers without waiting for the restriction
    /\ pc[r] = "createDeal"
    /\ AcbsCreateDeal(r, BuildAcbsRequestBodyToCreateDeal(Body(r)[1]),
                      AnswerDeal(r, Body(r)[1].dealIdentifier))

CreateDeal(r) ==
    /\ pc[r] = "createDeal"
    /\ AcbsCreateDeal(r, BuildAcbsRequestBodyToCreateDeal(Body(r)[1]),
                      Goto(r, "restrictDeal", None))

RestrictDealOrRefuse(r) ==   \* variant: a failure here is like any other
    /\ pc[r] = "restrictDeal"
    /\ AcbsUpdateBorrowingRestrictionForDeal(r, Body(r)[1].dealIdentifier,
           BuildBorrowingRestrictionToUpdateInAcbs,
           Throw(r, "AcbsBadRequestException"),
           AnswerDeal(r, Body(r)[1].dealIdentifier))

\* A failure here, whatever it is, is answered 500: the deal exists.
UpdateBorrowingRestrictionForNewDeal(r) ==
    /\ pc[r] = "restrictDeal"
    /\ AcbsUpdateBorrowingRestrictionForDeal(r, Body(r)[1].dealIdentifier,
           BuildBorrowingRestrictionToUpdateInAcbs,
           Throw(r, "InternalServerErrorException"),
           AnswerDeal(r, Body(r)[1].dealIdentifier))

CreateGuaranteeForDeal(r) ==
    \/ /\ Receives(r, "POST/deals/<dealIdentifier>/guarantees")
       /\ ValidatedItem(r, TRUE, CreateDealGuaranteeRequestItem,
                        Goto(r, "createDealGuarantee", None))
    \/ /\ pc[r] = "createDealGuarantee"
       /\ AcbsCreateGuaranteeForDeal(r, DealIdentifier(r),
              DealGuaranteeToCreateInAcbs(Body(r)[1]), AnswerDeal(r, DealIdentifier(r)))

GetGuaranteesForDeal(r) ==
    LET Found(guarantees) ==
            Reply(r, 200, [i \in DOMAIN guarantees |->
                              DealGuaranteeOfAcbs(DealIdentifier(r), guarantees[i])])
    IN  \/ /\ Receives(r, "GET/deals/<dealIdentifier>/guarantees")
           /\ Validated(r, DealIdentifier(r) \in Identifiers,
                        Goto(r, "getDealGuarantees", None))
        \/ /\ pc[r] = "getDealGuarantees"
           /\ Get(r, AcbsGetGuaranteesForDeal(DealIdentifier(r)), Found)

CreateInvestorForDeal(r) ==
    \/ /\ Receives(r, "POST/deals/<dealIdentifier>/investors")
       /\ ValidatedItem(r, TRUE, CreateDealInvestorRequestItem,
                        Goto(r, "createDealInvestor", None))
    \/ /\ pc[r] = "createDealInvestor"
       /\ AcbsCreateInvestorForDeal(r, DealIdentifier(r),
              DealInvestorToCreateInAcbs(Body(r)[1]), AnswerDeal(r, DealIdentifier(r)))

GetDealInvestors(r) ==
    LET Found(investors) ==
            Reply(r, 200, [i \in DOMAIN investors |->
                              DealInvestorOfAcbs(DealIdentifier(r), investors[i])])
    IN  \/ /\ Receives(r, "GET/deals/<dealIdentifier>/investors")
           /\ Validated(r, DealIdentifier(r) \in Identifiers,
                        Goto(r, "getDealInvestors", None))
        \/ /\ pc[r] = "getDealInvestors"
           /\ Get(r, AcbsGetDealPartiesForDeal(DealIdentifier(r)), Found)

DealHandler(r) ==
    \/ GetDeal(r)
    \/ ReceiveDeal(r)
    \/ CreateDeal(r)
    \/ UpdateBorrowingRestrictionForNewDeal(r)
    \/ CreateGuaranteeForDeal(r)
    \/ GetGuaranteesForDeal(r)
    \/ CreateInvestorForDeal(r)
    \/ GetDealInvestors(r)
=============================================================================
