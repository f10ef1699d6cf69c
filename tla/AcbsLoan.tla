------------------------------ MODULE AcbsLoan ------------------------------
(***************************************************************************)
(* What is asked of ACBS in bundles, and the fixed fees: the activation    *)
(* of a facility, fixed fees and the amendments of their amounts, loans,   *)
(* the amendments of their amounts and expiry dates, and the accrual and   *)
(* repayment schedules of a new loan.                                      *)
(***************************************************************************)
EXTENDS AcbsFacilityParts

FACILITY_ACTIVATION_TRANSACTION == [facilityTransactionCodeValueCode |-> FACILITY_STATUSES.ACTIVE]
FACILITY_FIXED_FEE ==
    [description |-> [code \in Range(FACILITY_TYPE_IDS) |->
                        CASE code = "250" -> "Bond Support Premium"
                          [] code = "260" -> "EWCS Premium"
                          [] code = "280" -> "Financial Guarantee Fee"],
     involvedParty |-> "00000000",
     incomeClassCode |-> "BPM"]
FACILITY_LOAN == [initialBundleStatusCode |-> SUBMIT_FOR_POSTING]
REPAYMENT ==
    [INT |-> [type |-> "A", sequence |-> 2, primary |-> TRUE],
     PAC |-> [type |-> "N", sequence |-> 1, primary |-> FALSE],
     PAC_BSS |-> [type |-> "B", sequence |-> 1, primary |-> TRUE]]
ACCRUAL == [PAC |-> "PAC01", INT_RFR |-> "CTL01", INT_NON_RFR |-> "CTL01"]
INCOME_CLASS_CODES == {"BPM", "EPM", "FGT"}

CreateFacilityActivationTransactionRequestItem ==
    [initialBundleStatusCode : InitialBundleStatusCodes,
     lenderTypeCode : Range(LENDER_TYPE_CODES)]

GetFacilityActivationTransactionResponseDto ==
    [portfolioIdentifier : {GLOBAL.portfolioIdentifier}, facilityIdentifier : Identifiers,
     bundleStatusCode : Range(BundleStatusCodes), lenderTypeCode : Range(LENDER_TYPE_CODES),
     initialBundleStatusCode : InitialBundleStatusCodes, effectiveDate : Dates \cup {Today},
     facilityTransactionCodeValueCode : {FACILITY_STATUSES.ACTIVE}, limitKeyValue : Texts]

CreateFacilityFixedFeeRequestItem ==
    [amount : Amounts, effectiveDate : Dates, expirationDate : Dates, nextDueDate : Dates,
     nextAccrueToDate : Dates, period : Texts, currency : Currencies,
     lenderTypeCode : Range(LENDER_TYPE_CODES), incomeClassCode : Maybe(INCOME_CLASS_CODES),
     spreadToInvestorsIndicator : BOOLEAN]

GetFacilityFixedFeeResponseItem ==
    [facilityIdentifier : Identifiers, portfolioIdentifier : {GLOBAL.portfolioIdentifier},
     amount : Int, effectiveDate : Dates, expirationDate : Dates, nextDueDate : Dates,
     nextAccrueToDate : Dates, period : Texts, description : Range(FACILITY_FIXED_FEE.description),
     currency : Currencies, lenderTypeCode : Range(LENDER_TYPE_CODES),
     incomeClassCode : INCOME_CLASS_CODES]

CreateFixedFeeAmountAmendmentRequestItem ==
    [partyIdentifier : Texts, period : Texts, lenderTypeCode : Range(LENDER_TYPE_CODES),
     effectiveDate : Dates, amountAmendment : Int \ {0}]

AcbsCreateFacilityFixedFeeRequestDto ==
    [FixedFeeAmount : Int, LimitKey : Texts,
     InvolvedPartyIdentifier : Texts \cup {FACILITY_FIXED_FEE.involvedParty},
     SegmentIdentifier : Texts, EffectiveDate : DateTimes, ExpirationDate : DateTimes,
     CurrencyCode : Currencies, NextDueDate : DateTimes, NextAccrueToDate : DateTimes,
     Description : Range(FACILITY_FIXED_FEE.description), IncomeClassCode : INCOME_CLASS_CODES,
     LenderTypeCode : Range(LENDER_TYPE_CODES), SpreadToInvestorsIndicator : BOOLEAN]

CreateFacilityLoanRequestItem ==
    [postingDate : Dates, borrowerPartyIdentifier : Texts,
     productTypeId : Range(PRODUCT_TYPE_IDS), productTypeGroup : Range(PRODUCT_TYPE_GROUPS),
     currency : Currencies, dealCustomerUsageRate : Maybe(Amounts),
     dealCustomerUsageOperationType : Maybe({"M", "D"}), amount : Amounts,
     issueDate : Dates, expiryDate : Dates, nextDueDate : Dates,
     loanBillingFrequencyType : Texts, spreadRate : Amounts, spreadRateCtl : Maybe(Amounts),
     yearBasis : Texts, indexRateChangeFrequency : Maybe(Texts)]

IsCreateFacilityLoanRequestItem(loan) ==
    /\ loan \in CreateFacilityLoanRequestItem
    /\ loan.productTypeGroup = PRODUCT_TYPE_GROUPS.EWCS => loan.indexRateChangeFrequency # None

GetFacilityLoanResponseItem ==
    [portfolioIdentifier : {GLOBAL.portfolioIdentifier}, facilityIdentifier : Identifiers,
     borrowerPartyIdentifier : Texts, productTypeId : Range(PRODUCT_TYPE_IDS),
     productTypeGroup : Range(PRODUCT_TYPE_GROUPS), currency : Currencies, issueDate : Dates,
     expiryDate : Dates, principalBalance : Int]

GetFacilityLoanTransactionResponseDto ==
    [portfolioIdentifier : {GLOBAL.portfolioIdentifier},
     bundleStatusCode : Range(BundleStatusCodes), postingDate : Dates,
     facilityIdentifier : Identifiers, borrowerPartyIdentifier : Texts,
     productTypeId : Range(PRODUCT_TYPE_IDS), productTypeGroup : Range(PRODUCT_TYPE_GROUPS),
     currency : Currencies, dealCustomerUsageRate : Maybe(Amounts),
     dealCustomerUsageOperationType : Maybe({"M", "D"}), amount : Amounts, issueDate : Dates,
     expiryDate : Dates, spreadRate : Maybe(Amounts), spreadRateCTL : Maybe(Amounts),
     yearBasis : Maybe(Texts), nextDueDate : Maybe(Dates),
     indexRateChangeFrequency : Maybe(Texts), loanBillingFrequencyType : Maybe(Texts)]

CreateLoanAmountAmendmentRequestItem == [effectiveDate : Dates, amountAmendment : Int \ {0}]

Abs(number) == IF number < 0 THEN -number ELSE number

ActivationTransaction(facilityIdentifier, facility, transaction) ==
    [type |-> "FacilityCodeValueTransaction",
     FacilityIdentifier |-> facilityIdentifier,
     EffectiveDate |-> AddTime(RemoveTimeIfExists(facility.OriginalEffectiveDate)),
     LimitKeyValue |-> facility.BorrowerPartyIdentifier,
     LenderTypeCode |-> transaction.lenderTypeCode,
     FacilityTransactionCodeValueCode |->
         FACILITY_ACTIVATION_TRANSACTION.facilityTransactionCodeValueCode]

MapActivationTransaction(bundle, transaction) ==
    [portfolioIdentifier |-> GLOBAL.portfolioIdentifier,
     facilityIdentifier |-> transaction.FacilityIdentifier,
     bundleStatusCode |-> bundle.BundleStatusCode,
     lenderTypeCode |-> transaction.LenderTypeCode,
     initialBundleStatusCode |-> bundle.InitialBundleStatusCode,
     effectiveDate |-> RemoveTime(transaction.EffectiveDate),
     facilityTransactionCodeValueCode |-> transaction.FacilityTransactionCodeValueCode,
     limitKeyValue |-> transaction.LimitKeyValue]

FixedFeeToCreateInAcbs(facility, fee) ==
    [FixedFeeAmount |-> fee.amount,
     LimitKey |-> facility.BorrowerPartyIdentifier,
     InvolvedPartyIdentifier |-> IF fee.lenderTypeCode = LENDER_TYPE_CODES.ECGD
                                 THEN FACILITY_FIXED_FEE.involvedParty
                                 ELSE facility.BorrowerPartyIdentifier,
     SegmentIdentifier |-> fee.period,
     EffectiveDate |-> GetEarliestDateFromTodayAnd(fee.effectiveDate),
     ExpirationDate |-> AddTime(fee.expirationDate),
     CurrencyCode |-> fee.currency,
     NextDueDate |-> AddTime(fee.nextDueDate),
     NextAccrueToDate |-> AddTime(fee.nextAccrueToDate),
     Description |-> FACILITY_FIXED_FEE.description[facility.FacilityTypeCode],
     IncomeClassCode |-> OrDefault(fee.incomeClassCode, FACILITY_FIXED_FEE.incomeClassCode),
     LenderTypeCode |-> fee.lenderTypeCode,
     SpreadToInvestorsIndicator |-> fee.spreadToInvestorsIndicator]

FixedFeeOfAcbs(facilityIdentifier, fee) ==
    [facilityIdentifier |-> facilityIdentifier,
     portfolioIdentifier |-> GLOBAL.portfolioIdentifier,
     amount |-> fee.FixedFeeAmount,
     effectiveDate |-> RemoveTimeIfExists(fee.EffectiveDate),
     expirationDate |-> RemoveTimeIfExists(fee.ExpirationDate),
     nextDueDate |-> RemoveTimeIfExists(fee.NextDueDate),
     nextAccrueToDate |-> RemoveTimeIfExists(fee.NextAccrueToDate),
     period |-> fee.SegmentIdentifier,
     description |-> fee.Description,
     currency |-> fee.CurrencyCode,
     lenderTypeCode |-> fee.LenderTypeCode,
     incomeClassCode |-> fee.IncomeClassCode]

FeeIncreaseTypeCode(amountAmendment) ==   \* variant: every amendment is an increase
    FACILITY_FEE_AMOUNT_TRANSACTION.increaseTypeCode

FeeAmountTypeCode(amountAmendment) ==
    IF amountAmendment < 0 THEN FACILITY_FEE_AMOUNT_TRANSACTION.decreaseTypeCode
    ELSE FACILITY_FEE_AMOUNT_TRANSACTION.increaseTypeCode

FeeAmountAmendmentMessage(facilityIdentifier, item) ==
    [type |-> "FacilityFeeAmountTransaction",
     FacilityIdentifier |-> facilityIdentifier,
     EffectiveDate |-> AddTime(item.effectiveDate),
     LimitKeyValue |-> item.partyIdentifier,
     LenderTypeCode |-> item.lenderTypeCode,
     SegmentIdentifier |-> item.period,
     TypeCode |-> FeeAmountTypeCode(item.amountAmendment),
     TransactionAmount |-> Abs(item.amountAmendment)]

(* AccrualScheduleBuilder.                                                 *)
BaseAccrualSchedule(loan, accrualCategoryCode, spreadRate) ==
    [AccrualCategoryCode |-> accrualCategoryCode,
     EffectiveDate |-> GetEarliestDateFromTodayAnd(loan.issueDate),
     YearBasisCode |-> loan.yearBasis,
     SpreadRate |-> spreadRate,
     LoanRateIndexCode |-> None,
     IndexRateChangeFrequencyCode |-> None,
     NextRateSetDate |-> None,
     NextRatePeriod |-> None]

AccrualPac(loan) == BaseAccrualSchedule(loan, ACCRUAL.PAC, loan.spreadRate)

AccrualNonRfr(loan) ==
    [BaseAccrualSchedule(loan, ACCRUAL.INT_NON_RFR, loan.spreadRateCtl) EXCEPT
        !.IndexRateChangeFrequencyCode = loan.indexRateChangeFrequency,
        !.LoanRateIndexCode = "U3M",
        !.NextRateSetDate = AddTime(loan.nextDueDate)]

LoanRateIndexCode(currency) ==
    CASE currency = "EUR" -> "ESTR"
      [] currency = "USD" -> "U3M"
      [] currency = "JPY" -> "TONAR"
      [] OTHER -> "SON"

AccrualRfr(loan) ==
    [BaseAccrualSchedule(loan, ACCRUAL.INT_RFR, loan.spreadRateCtl) EXCEPT
        !.LoanRateIndexCode = LoanRateIndexCode(loan.currency),
        !.NextRatePeriod = GetDatePlusThreeMonths(loan.issueDate)]

AccrualSchedules(loan) ==
    IF loan.productTypeGroup # PRODUCT_TYPE_GROUPS.EWCS THEN <<AccrualPac(loan)>>
    ELSE <<AccrualPac(loan), IF loan.currency = "USD" THEN AccrualNonRfr(loan)
                             ELSE AccrualRfr(loan)>>

(* RepaymentScheduleBuilder.                                               *)
CalendarIdentifier(currency) ==
    CASE currency = "EUR" -> "EU1" [] currency = "USD" -> "US1" [] OTHER -> "UK"

BaseRepaymentSchedule(loan, schedule, primary, paymentAmount) ==
    [BillingScheduleTypeCode |-> schedule.type,
     BillingSequenceNumber |-> schedule.sequence,
     PrimaryScheduleIndicator |-> primary,
     CalendarIdentifier |-> CalendarIdentifier(loan.currency),
     LoanBillingFrequencyTypeCode |-> loan.loanBillingFrequencyType,
     NextDueDate |-> AddTime(loan.nextDueDate),
     NextAccrueToDate |-> AddTime(loan.nextDueDate),
     PaymentAmount |-> paymentAmount]

RepaymentInt(loan) == BaseRepaymentSchedule(loan, REPAYMENT.INT, REPAYMENT.INT.primary, None)

RepaymentPac(loan) ==
    BaseRepaymentSchedule(loan, REPAYMENT.PAC,
        IF loan.productTypeGroup = PRODUCT_TYPE_GROUPS.EWCS THEN REPAYMENT.PAC.primary ELSE TRUE,
        None)

RepaymentPacBss(loan) ==
    BaseRepaymentSchedule(loan, REPAYMENT.PAC_BSS, REPAYMENT.PAC_BSS.primary, loan.amount)

RepaymentSchedules(loan) ==
    CASE loan.productTypeGroup = PRODUCT_TYPE_GROUPS.EWCS ->
           <<RepaymentInt(loan), RepaymentPac(loan)>>
      [] loan.productTypeGroup = PRODUCT_TYPE_GROUPS.GEF -> <<RepaymentPac(loan)>>
      [] OTHER -> <<RepaymentPacBss(loan)>>

\* getFieldsThatDependOnGbp gives both valuation dates this value.
NextValuationDate(loan) ==
    IF loan.currency = "GBP" THEN None ELSE AddTime(loan.expiryDate)

\* A rate of zero is left out as null is.
NewLoanMessage(facilityIdentifier, loan) ==
    [type |-> "NewLoanRequest",
     FacilityIdentifier |-> facilityIdentifier,
     BorrowerPartyIdentifier |-> loan.borrowerPartyIdentifier,
     LoanInstrumentCode |-> IF loan.productTypeId = PRODUCT_TYPE_IDS.GEF_CONTINGENT
                            THEN PRODUCT_TYPE_IDS.GEF_CASH ELSE loan.productTypeId,
     ProductTypeCode |-> loan.productTypeId,
     ProductGroupCode |-> loan.productTypeGroup,
     CurrencyCode |-> loan.currency,
     LoanAmount |-> loan.amount,
     EffectiveDate |-> GetEarliestDateFromTodayAnd(loan.issueDate),
     MaturityDate |-> AddTime(loan.expiryDate),
     RateMaturityDate |-> AddTime(loan.expiryDate),
     DealCustomerUsageRate |-> IF loan.dealCustomerUsageRate = 0 THEN None
                               ELSE loan.dealCustomerUsageRate,
     DealCustomerUsageOperationType |-> loan.dealCustomerUsageOperationType,
     AccrualScheduleList |-> AccrualSchedules(loan),
     RepaymentScheduleList |-> RepaymentSchedules(loan),
     FinancialNextValuationDate |-> NextValuationDate(loan),
     CustomerUsageNextValuationDate |-> NextValuationDate(loan)]

MapLoan(loan) ==
    [portfolioIdentifier |-> GLOBAL.portfolioIdentifier,
     facilityIdentifier |-> loan.FacilityIdentifier,
     borrowerPartyIdentifier |-> loan.BorrowerPartyIdentifier,
     productTypeId |-> loan.ProductTypeCode,
     productTypeGroup |-> loan.ProductGroupCode,
     currency |-> loan.CurrencyCode,
     issueDate |-> RemoveTime(loan.EffectiveDate),
     expiryDate |-> RemoveTime(loan.MaturityDate),
     principalBalance |-> loan.PrincipalBalance]

\* The field of the first accrual schedule of a category, null if there is none.
OfFirstAccrual(loan, categoryCode, field) ==
    LET accruals == loan.AccrualScheduleList
        found == {k \in DOMAIN accruals : accruals[k].AccrualCategoryCode = categoryCode}
    IN  IF found = {} THEN None ELSE accruals[Min(found)][field]

MapLoanTransaction(bundle, loan) ==
    [portfolioIdentifier |-> GLOBAL.portfolioIdentifier,
     bundleStatusCode |-> bundle.BundleStatusCode,
     postingDate |-> RemoveTime(bundle.PostingDate),
     facilityIdentifier |-> loan.FacilityIdentifier,
     borrowerPartyIdentifier |-> loan.BorrowerPartyIdentifier,
     productTypeId |-> loan.ProductTypeCode,
     productTypeGroup |-> loan.ProductGroupCode,
     currency |-> loan.CurrencyCode,
     dealCustomerUsageRate |-> loan.DealCustomerUsageRate,
     dealCustomerUsageOperationType |-> loan.DealCustomerUsageOperationType,
     amount |-> loan.LoanAmount,
     issueDate |-> RemoveTime(loan.EffectiveDate),
     expiryDate |-> RemoveTime(loan.MaturityDate),
     spreadRate |-> OfFirstAccrual(loan, ACCRUAL.PAC, "SpreadRate"),
     spreadRateCTL |-> OfFirstAccrual(loan, ACCRUAL.INT_RFR, "SpreadRate"),
     yearBasis |-> loan.AccrualScheduleList[1].YearBasisCode,
     nextDueDate |-> RemoveTimeIfExists(loan.RepaymentScheduleList[1].NextDueDate),
     indexRateChangeFrequency |->
         OfFirstAccrual(loan, ACCRUAL.INT_RFR, "IndexRateChangeFrequencyCode"),
     loanBillingFrequencyType |-> loan.RepaymentScheduleList[1].LoanBillingFrequencyTypeCode]

LoanAdvance(loanIdentifier, item) ==
    [type |-> "LoanAdvanceTransaction",
     LoanIdentifier |-> loanIdentifier,
     EffectiveDate |-> AddTime(item.effectiveDate),
     TransactionTypeCode |-> IF item.amountAmendment > 0 THEN LOAN_AMOUNT_AMENDMENT.increase
                             ELSE LOAN_AMOUNT_AMENDMENT.decrease,
     LoanAdvanceAmount |-> Abs(item.amountAmendment)]

LoanMaturingOn(loan, expiryDate) ==   \* variant: the valuation dates stay
    [loan EXCEPT !.MaturityDate = AddTime(expiryDate), !.RateMaturityDate = AddTime(expiryDate)]

\* updateLoanExpiryDate: valuation dates move only where the loan has them.
LoanWithExpiryDate(loan, expiryDate) ==
    LET newExpiryDate == AddTime(expiryDate)
        Moved(date) == IF date = None THEN None ELSE newExpiryDate
    IN  [loan EXCEPT !.MaturityDate = newExpiryDate,
                     !.RateMaturityDate = newExpiryDate,
                     !.FinancialNextValuationDate = Moved(@),
                     !.CustomerUsageNextValuationDate = Moved(@)]

-----------------------------------------------------------------------------
(* Calls of ACBS.  A second fee of a period and a lender type exists.      *)

AcbsGetFixedFeesForFacility(facilityIdentifier) ==
    GetCall({}, Ok(DataOf("FixedFee", facilityIdentifier)))

AcbsCreateFixedFeeForFacility(r, facilityIdentifier, fee, Then) ==
    LET exists == FeeIndexes(acbs, [FacilityIdentifier |-> facilityIdentifier,
                                    SegmentIdentifier |-> fee.SegmentIdentifier,
                                    LenderTypeCode |-> fee.LenderTypeCode]) # {}
        invalid == "InvalidPortfolioIdAndFacilityId"
    IN  Write(r, {invalid, "FixedFeeExists"},
              IF exists THEN Refusal("FixedFeeExists")
              ELSE IfFacilityExists(facilityIdentifier, invalid,
                       Ok(Added(r, "FixedFee", facilityIdentifier, fee))),
              Then)

AcbsGetLoansForFacility(facilityIdentifier) ==
    GetCall({"FacilityNotFound"},
        IfFacilityExists(facilityIdentifier, "FacilityNotFound",
            Ok(DataOf("Loan", facilityIdentifier))))

AcbsGetLoanByIdentifier(loanIdentifier) ==
    GetCall({"LoanNotFound"},
        IF LoanExists(loanIdentifier) THEN Ok(acbs[loanIdentifier].data)
        ELSE Refusal("LoanNotFound"))

AcbsUpdateLoanByIdentifier(r, loanIdentifier, loan, Then) ==
    Write(r, {"LoanNotFound"},
          IF LoanExists(loanIdentifier) THEN Ok(Replaced(r, loanIdentifier, loan))
          ELSE Refusal("LoanNotFound"), Then)

-----------------------------------------------------------------------------
(* The handlers.                                                           *)

\* The answer to a GET of a bundle that must be of some kind.
ReplyIfOfKind(r, isOfKind, body) ==
    IF isOfKind THEN Reply(r, 200, body) ELSE Throw(r, "BadRequestException")

CreateActivationTransactionForFacility(r) ==
    LET Read(facility) == Goto(r, "createActivation", facility)
    IN  \/ ReceivesArrayFor(r, "POST/facilities/<facilityIdentifier>/activation-transactions",
               CreateFacilityActivationTransactionRequestItem, "getFacilityToActivate")
        \/ pc[r] = "getFacilityToActivate" /\ ReadFacilityThen(r, Read)
        \/ /\ pc[r] = "createActivation"
           /\ CreateBundleInformation(r, 201,
                  BundleInformation(Body(r)[1].initialBundleStatusCode, None,
                      <<ActivationTransaction(FacilityIdentifier(r), local[r], Body(r)[1])>>))

GetActivationTransactionByBundleIdentifier(r) ==
    LET Found(bundle) ==
            LET action == bundle.BundleMessageList[1]
            IN  ReplyIfOfKind(r, IsFacilityCodeValueTransaction(action),
                              MapActivationTransaction(bundle, action))
    IN  \/ ReceivesFor(r,
               "GET/facilities/<facilityIdentifier>/activation-transactions/<bundleIdentifier>",
               Params(r).bundleIdentifier \in BundleIdentifiers, "getActivation")
        \/ /\ pc[r] = "getActivation"
           /\ Get(r, GetBundleInformationByIdentifier(Params(r).bundleIdentifier), Found)

MayBeChargedIfIssued(facility) ==   \* variant: the status is not looked at
    facility.FacilityUserDefinedList1Code = FACILITY_STAGES.ISSUED

MayBeCharged(facility) ==
    /\ facility.FacilityUserDefinedList1Code = FACILITY_STAGES.ISSUED
    /\ facility.FacilityStatusCode = FACILITY_STATUSES.ACTIVE

\* The facility is looked at as just read, and the item after that.
CreateFixedFeeForFacility(r) ==
    LET Found(facility) ==
            IF ~MayBeCharged(facility) THEN Throw(r, "BadRequestException")
            ELSE IF Body(r) = <<>> THEN Throw(r, "TypeError")
            ELSE Goto(r, "createFee", facility)
    IN  \/ ReceivesArrayFor(r, "POST/facilities/<facilityIdentifier>/fixed-fees",
                            CreateFacilityFixedFeeRequestItem, "getFacilityOfFee")
        \/ /\ pc[r] = "getFacilityOfFee"
           /\ Get(r, AcbsGetFacilityByIdentifier(FacilityIdentifier(r)), Found)
        \/ /\ pc[r] = "createFee"
           /\ AcbsCreateFixedFeeForFacility(r, FacilityIdentifier(r),
                  FixedFeeToCreateInAcbs(local[r], Body(r)[1]), AnswerFacility(r, 201))

GetFixedFeesForFacility(r) ==
    LET Found(fees) == ReplyEach(r, FixedFeeOfAcbs, fees)
    IN  \/ ReceivesFor(r, "GET/facilities/<facilityIdentifier>/fixed-fees", TRUE, "getFees")
        \/ pc[r] = "getFees" /\ Get(r, AcbsGetFixedFeesForFacility(FacilityIdentifier(r)), Found)

\* Every item of the body becomes a message of the bundle.
CreateAmountAmendmentForFixedFees(r) ==
    LET Message(item) == FeeAmountAmendmentMessage(FacilityIdentifier(r), item)
    IN  \/ ReceivesItemFor(r, "POST/facilities/<facilityIdentifier>/fixed-fees/amendments/amount",
                           CreateFixedFeeAmountAmendmentRequestItem, "amendFees")
        \/ /\ pc[r] = "amendFees"
           /\ CreateBundleInformation(r, 201,
                  BundleInformation(SUBMIT_FOR_POSTING, None,
                                    [i \in DOMAIN Body(r) |-> Message(Body(r)[i])]))

GetLoansForFacility(r) ==
    LET Found(loans) == Reply(r, 200, [i \in DOMAIN loans |-> MapLoan(loans[i])])
    IN  \/ ReceivesFor(r, "GET/facilities/<facilityIdentifier>/loans", TRUE, "getLoans")
        \/ pc[r] = "getLoans" /\ Get(r, AcbsGetLoansForFacility(FacilityIdentifier(r)), Found)

CreateLoanForFacility(r) ==
    \/ /\ Receives(r, "POST/facilities/<facilityIdentifier>/loans")
       /\ ValidatedItems(r, /\ FacilityIdentifier(r) \in Identifiers
                            /\ \A item \in Range(Body(r)) :
                                 IsCreateFacilityLoanRequestItem(item),
                         Goto(r, "createLoan", None))
    \/ /\ pc[r] = "createLoan"
       /\ CreateBundleInformation(r, 201,
              BundleInformation(FACILITY_LOAN.initialBundleStatusCode,
                  AddTime(Body(r)[1].postingDate),
                  <<NewLoanMessage(FacilityIdentifier(r), Body(r)[1])>>))

GetLoanTransactionByBundleIdentifier(r) ==
    LET Found(bundle) ==
            LET action == bundle.BundleMessageList[1]
            IN  ReplyIfOfKind(r, IsNewLoanRequest(action), MapLoanTransaction(bundle, action))
    IN  \/ ReceivesFor(r,
               "GET/facilities/<facilityIdentifier>/loan-transactions/<bundleIdentifier>",
               Params(r).bundleIdentifier \in BundleIdentifiers, "getLoanTransaction")
        \/ /\ pc[r] = "getLoanTransaction"
           /\ Get(r, GetBundleInformationByIdentifier(Params(r).bundleIdentifier), Found)

\* That the loan is one of the facility is not looked at, here or below.
CreateAmountAmendmentForLoan(r) ==
    \/ /\ Receives(r,
              "POST/facilities/<facilityIdentifier>/loans/<loanIdentifier>/amendments/amount")
       /\ ValidatedItem(r, /\ FacilityIdentifier(r) \in Identifiers
                           /\ Params(r).loanIdentifier \in LoanIdentifiers,
                        CreateLoanAmountAmendmentRequestItem, Goto(r, "amendLoan", None))
    \/ /\ pc[r] = "amendLoan"
       /\ CreateBundleInformation(r, 201,
              BundleInformation(SUBMIT_FOR_POSTING, None,
                                <<LoanAdvance(Params(r).loanIdentifier, Body(r)[1])>>))

UpdateLoanExpiryDate(r) ==
    LET Found(loan) == Goto(r, "putLoan", loan)
    IN  \/ ReceivesFor(r, "PATCH/facilities/<facilityIdentifier>/loans/<loanIdentifier>",
                       /\ Params(r).loanIdentifier \in LoanIdentifiers
                       /\ Body(r).expiryDate \in Dates, "getLoanToUpdate")
        \/ /\ pc[r] = "getLoanToUpdate"
           /\ Get(r, AcbsGetLoanByIdentifier(Params(r).loanIdentifier), Found)
        \/ /\ pc[r] = "putLoan"
           /\ AcbsUpdateLoanByIdentifier(r, Params(r).loanIdentifier,
                  LoanWithExpiryDate(local[r], Body(r).expiryDate),
                  Reply(r, 200, [loanIdentifier |-> Params(r).loanIdentifier]))

LoanHandler(r) ==
    \/ CreateActivationTransactionForFacility(r)
    \/ GetActivationTransactionByBundleIdentifier(r)
    \/ CreateFixedFeeForFacility(r)
    \/ GetFixedFeesForFacility(r)
    \/ CreateAmountAmendmentForFixedFees(r)
    \/ GetLoansForFacility(r)
    \/ CreateLoanForFacility(r)
    \/ GetLoanTransactionByBundleIdentifier(r)
    \/ CreateAmountAmendmentForLoan(r)
    \/ UpdateLoanExpiryDate(r)
=============================================================================
