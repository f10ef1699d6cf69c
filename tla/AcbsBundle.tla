----------------------------- MODULE AcbsBundle -----------------------------
(***************************************************************************)
(* Bundles: requests to ACBS to change facilities and loans, which it      *)
(* answers with the identifier of a bundle and carries out when it posts   *)
(* the bundle.  AcbsBundleInformationService, the bundle actions, and      *)
(* ACBS's posting, which is external.                                      *)
(*                                                                         *)
(* A bundle and a loan are known to ACBS by their index in the store.      *)
(***************************************************************************)
EXTENDS AcbsHttp

BundleIdentifiers == Nat \ {0}
LoanIdentifiers == Nat \ {0}

BundleStatusCodes ==
    [PENDING_INPUT |-> "15", PENDING_APPROVAL |-> "20", PENDING_POSTING |-> "35",
     POSTED |-> "50", POSTING_ERROR |-> "55"]
InitialBundleStatusCodes == 1..3
SUBMIT_FOR_POSTING == 3
FACILITY_STATUSES == [ACTIVE |-> "A", PENDING |-> "D"]
FACILITY_TRANSACTION_TYPE_CODES == [PLUS |-> "2300", MINUS |-> "2320"]
FACILITY_FEE_AMOUNT_TRANSACTION == [decreaseTypeCode |-> 2750, increaseTypeCode |-> 2740]
LOAN_AMOUNT_AMENDMENT == [increase |-> "9040", decrease |-> "9050"]
PRODUCT_TYPE_IDS == [BSS |-> "250", EWCS |-> "260", GEF_CASH |-> "280", GEF_CONTINGENT |-> "281"]
PRODUCT_TYPE_GROUPS == [EWCS |-> "EW", BOND |-> "BS", GEF |-> "GM"]

(* The bundle actions.                                                     *)
FacilityAmountTransaction ==
    [type : {"FacilityAmountTransaction"}, FacilityIdentifier : Identifiers,
     EffectiveDate : DateTimes, LimitKeyValue : Texts,
     TypeCode : Range(FACILITY_TRANSACTION_TYPE_CODES), TransactionAmount : Nat]

FacilityCodeValueTransaction ==
    [type : {"FacilityCodeValueTransaction"}, FacilityIdentifier : Identifiers,
     EffectiveDate : DateTimes, LimitKeyValue : Texts, LenderTypeCode : Range(LENDER_TYPE_CODES),
     FacilityTransactionCodeValueCode : {FACILITY_STATUSES.ACTIVE}]

FacilityFeeAmountTransaction ==
    [type : {"FacilityFeeAmountTransaction"}, FacilityIdentifier : Identifiers,
     EffectiveDate : DateTimes, LimitKeyValue : Texts, LenderTypeCode : Range(LENDER_TYPE_CODES),
     SegmentIdentifier : Texts, TypeCode : Range(FACILITY_FEE_AMOUNT_TRANSACTION),
     TransactionAmount : Nat]

LoanAdvanceTransaction ==
    [type : {"LoanAdvanceTransaction"}, LoanIdentifier : LoanIdentifiers,
     EffectiveDate : DateTimes, TransactionTypeCode : Range(LOAN_AMOUNT_AMENDMENT),
     LoanAdvanceAmount : Nat]

AccrualSchedule ==
    [AccrualCategoryCode : {"PAC01", "CTL01"}, EffectiveDate : DateTimes,
     YearBasisCode : Texts, SpreadRate : Maybe(Amounts), LoanRateIndexCode : Maybe({"ESTR", "U3M", "TONAR", "SON"}),
     IndexRateChangeFrequencyCode : Maybe(Texts), NextRateSetDate : Maybe(DateTimes),
     NextRatePeriod : Maybe(Nat)]

RepaymentSchedule ==
    [BillingScheduleTypeCode : {"A", "N", "B"}, BillingSequenceNumber : 1..2,
     PrimaryScheduleIndicator : BOOLEAN, CalendarIdentifier : {"EU1", "US1", "UK"},
     LoanBillingFrequencyTypeCode : Texts, NextDueDate : DateTimes,
     NextAccrueToDate : DateTimes, PaymentAmount : Maybe(Amounts)]

NewLoanRequest ==
    [type : {"NewLoanRequest"}, FacilityIdentifier : Identifiers,
     BorrowerPartyIdentifier : Texts, LoanInstrumentCode : {"250", "260", "280"},
     ProductTypeCode : Range(PRODUCT_TYPE_IDS), ProductGroupCode : Range(PRODUCT_TYPE_GROUPS),
     CurrencyCode : Currencies, LoanAmount : Amounts, EffectiveDate : DateTimes,
     MaturityDate : DateTimes, RateMaturityDate : DateTimes,
     FinancialNextValuationDate : Maybe(DateTimes),
     CustomerUsageNextValuationDate : Maybe(DateTimes),
     DealCustomerUsageRate : Maybe(Amounts), DealCustomerUsageOperationType : Maybe({"M", "D"}),
     AccrualScheduleList : Seq(AccrualSchedule) \ {<<>>},
     RepaymentScheduleList : Seq(RepaymentSchedule) \ {<<>>}]

BundleAction ==
    FacilityAmountTransaction \cup FacilityCodeValueTransaction
    \cup FacilityFeeAmountTransaction \cup LoanAdvanceTransaction \cup NewLoanRequest

AcbsBundleInformation ==
    [InitialBundleStatusCode : InitialBundleStatusCodes,
     BundleStatusCode : Range(BundleStatusCodes), PostingDate : Maybe(DateTimes),
     BundleMessageList : Seq(BundleAction)]

IsFacilityCodeValueTransaction(action) == action.type = "FacilityCodeValueTransaction"
IsLoanAdvanceTransaction(action) == action.type = "LoanAdvanceTransaction"
IsNewLoanRequest(action) == action.type = "NewLoanRequest"

-----------------------------------------------------------------------------
(* ACBS: what it holds of facilities and loans, and how it posts a bundle. *)

FacilityIndexes(store, facilityIdentifier) ==
    {i \in DOMAIN store : store[i].kind = "Facility"
                          /\ store[i].data.FacilityIdentifier = facilityIdentifier}

FacilityExists(facilityIdentifier) == FacilityIndexes(acbs, facilityIdentifier) # {}

LoanExists(loanIdentifier) ==
    loanIdentifier \in DOMAIN acbs /\ acbs[loanIdentifier].kind = "Loan"

FeeIndexes(store, fee) ==
    {i \in DOMAIN store :
        /\ store[i].kind = "FixedFee"
        /\ store[i].owner = fee.FacilityIdentifier
        /\ store[i].data.SegmentIdentifier = fee.SegmentIdentifier
        /\ store[i].data.LenderTypeCode = fee.LenderTypeCode}

Signed(positive, amount) == IF positive THEN amount ELSE -amount

\* By how much a message changes the amount of entity i: the limit of a
\* facility, the amount of a fee, or the balance of a loan.
Change(message, i) ==
    CASE message.type = "FacilityAmountTransaction"
         /\ i \in FacilityIndexes(acbs, message.FacilityIdentifier) ->
           Signed(message.TypeCode = FACILITY_TRANSACTION_TYPE_CODES.PLUS,
                  message.TransactionAmount)
      [] message.type = "FacilityFeeAmountTransaction" /\ i \in FeeIndexes(acbs, message) ->
           Signed(message.TypeCode = FACILITY_FEE_AMOUNT_TRANSACTION.increaseTypeCode,
                  message.TransactionAmount)
      [] message.type = "LoanAdvanceTransaction" /\ i = message.LoanIdentifier
         /\ LoanExists(i) ->
           Signed(message.TransactionTypeCode = LOAN_AMOUNT_AMENDMENT.increase,
                  message.LoanAdvanceAmount)
      [] OTHER -> 0

\* The messages that give facility i another status.
Activations(messages, i) ==
    {k \in DOMAIN messages :
        /\ messages[k].type = "FacilityCodeValueTransaction"
        /\ i \in FacilityIndexes(acbs, messages[k].FacilityIdentifier)}

\* Entity i when the messages of a bundle are posted.
Amended(messages, i) ==
    LET ChangeOf(k) == Change(messages[k], i)
        change == MapThenSumSet(ChangeOf, DOMAIN messages)
        activations == Activations(messages, i)
    IN  CASE acbs[i].kind = "Facility" ->
               [acbs[i] EXCEPT
                   !.data.LimitAmount = @ + change,
                   !.data.FacilityStatusCode =
                       IF activations = {} THEN @
                       ELSE messages[CHOOSE k \in activations : TRUE]
                                .FacilityTransactionCodeValueCode]
          [] acbs[i].kind = "FixedFee" -> [acbs[i] EXCEPT !.data.FixedFeeAmount = @ + change]
          [] acbs[i].kind = "Loan" -> [acbs[i] EXCEPT !.data.PrincipalBalance = @ + change]
          [] OTHER -> acbs[i]

\* The loan of a NewLoanRequest, what was asked for with a balance; the code
\* sends no other message with it.  It is written by who wrote the bundle.
NewLoans(bundle) ==
    LET message == bundle.data.BundleMessageList[1]
    IN  IF IsNewLoanRequest(message)
        THEN <<[kind |-> "Loan", owner |-> message.FacilityIdentifier,
                data |-> [PrincipalBalance |-> message.LoanAmount] ++ message,
                by |-> bundle.by]>>
        ELSE <<>>

\* ACBS posts bundle i, or marks it as failed and changes nothing else.
PostBundle(i) ==
    /\ acbs[i].kind = "BundleInformation"
    /\ acbs[i].data.BundleStatusCode = BundleStatusCodes.PENDING_POSTING
    /\ LET Marked(code) == [acbs[i] EXCEPT !.data.BundleStatusCode = code]
           messages == acbs[i].data.BundleMessageList
       IN  \/ /\ acbs' = [j \in DOMAIN acbs |->
                             IF j = i THEN Marked(BundleStatusCodes.POSTED)
                             ELSE Amended(messages, j)]
                         \o NewLoans(acbs[i])
              /\ UNCHANGED faults
           \/ /\ faults < MaxFaults
              /\ faults' = faults + 1
              /\ acbs' = [acbs EXCEPT ![i] = Marked(BundleStatusCodes.POSTING_ERROR)]
    /\ UNCHANGED <<pc, local, answer>>

-----------------------------------------------------------------------------
(* AcbsBundleInformationService.                                           *)

KnownErrorForAction(action) ==
    IF IsLoanAdvanceTransaction(action) THEN "LoanDoesNotExist" ELSE "FacilityDoesNotExist"

KnownErrorsForAction(action) == {KnownErrorForAction(action)}

Refused(message) ==
    IF IsLoanAdvanceTransaction(message) THEN ~LoanExists(message.LoanIdentifier)
    ELSE ~FacilityExists(message.FacilityIdentifier)

BundleInformation(initialBundleStatusCode, postingDate, messages) ==
    [InitialBundleStatusCode |-> initialBundleStatusCode,
     BundleStatusCode |-> <<BundleStatusCodes.PENDING_INPUT, BundleStatusCodes.PENDING_APPROVAL,
                            BundleStatusCodes.PENDING_POSTING>>[initialBundleStatusCode],
     PostingDate |-> postingDate,
     BundleMessageList |-> messages]

\* The errors known for a bundle are those of its first message.  The answer
\* is the identifier of the bundle.
CreateBundleInformation(r, status, bundle) ==
    LET action == bundle.BundleMessageList[1]
    IN  Write(r, KnownErrorsForAction(action),
              IF \E message \in Range(bundle.BundleMessageList) : Refused(message)
              THEN Refusal(KnownErrorForAction(action))
              ELSE Ok(Added(r, "BundleInformation", None, bundle)),
              Reply(r, status, [bundleIdentifier |-> Len(acbs) + 1]))

GetBundleInformationByIdentifier(bundleIdentifier) ==
    GetCall({"BundleInformationNotFound"},
        IF bundleIdentifier \in DOMAIN acbs /\ acbs[bundleIdentifier].kind = "BundleInformation"
        THEN Ok(acbs[bundleIdentifier].data)
        ELSE Refusal("BundleInformationNotFound"))

CreateBundleResponse == [bundleIdentifier : BundleIdentifiers]
=============================================================================
