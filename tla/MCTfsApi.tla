------------------------------ MODULE MCTfsApi ------------------------------
(***************************************************************************)
(* Workloads for TfsApi: what clients of each part of the API ask for, one *)
(* after the other with repeats, and at once where requests meet.          *)
(***************************************************************************)
EXTENDS TfsApi

MCIdentifiers == {"d1", "d2", "f1", "f2", "c1", "c2", "u1", "u2", "u3"}
MCTexts == {"t1", "t2"}
MCDates == 0..6
MCAmounts == 0..60
MCCurrencies == {"GBP", "USD", "EUR", "JPY"}

NoParams == [x \in {} |-> x]
Request(op, params, body) == [op |-> op, params |-> params, body |-> body]
Entity(kind, owner, data) == [kind |-> kind, owner |-> owner, data |-> data, by |-> 0]

\* The customers MDM has: a sovereign one, others, none, and not found.
MDM == [u \in MCIdentifiers |->
          CASE u = "u1" -> <<"Overseas Public Body", "Limited Company">>
            [] u = "u2" -> <<"Limited Company", "Overseas Public Body">>
            [] u = "u3" -> <<>>
            [] OTHER -> None]

Workload(serial, store, requests) ==
    [serial |-> serial, acbs |-> store, requests |-> requests, mdm |-> MDM]

(* Parties.                                                                *)
PartyOf(u) ==
    [alternateIdentifier |-> u, industryClassification |-> "t1", name1 |-> "t1",
     name2 |-> "t2", name3 |-> None, smeType |-> "t1", citizenshipClass |-> "1",
     officerRiskDate |-> 2, countryCode |-> None]
PostParty(u) == Request("POST/parties", NoParams, <<PartyOf(u)>>)
PostRenamed(u) == Request("POST/parties", NoParams, <<[PartyOf(u) EXCEPT !.name1 = "t2"]>>)
OnParty(op, i) == Request(op, [partyIdentifier |-> i], None)

SerialParties ==
    Workload(TRUE, <<>>,
        <<PostParty("u1"), PostRenamed("u1"), PostParty("u3"),
          Request("GET/parties", [searchText |-> "u1"], None),
          Request("GET/parties", [searchText |-> "t1"], None),
          OnParty("GET/parties/<partyIdentifier>", 1),
          OnParty("GET/parties/<partyIdentifier>", 9),
          OnParty("GET/parties/<partyIdentifier>", 0),
          OnParty("GET/parties/<partyIdentifier>/external-ratings", 1),
          OnParty("GET/parties/<partyIdentifier>/external-ratings", 9),
          Request("POST/parties", NoParams, <<>>),
          Request("POST/parties", NoParams, <<[PartyOf("u1") EXCEPT !.name1 = None]>>)>>)

OverlappingParties ==
    Workload(FALSE,
        <<Entity("Party", None, BuildAcbsCreatePartyRequest(PartyOf("c1")))>>,
        <<PostParty("u1"), PostParty("u1"), PostParty("c1")>>)

(* Deals.                                                                  *)
DealOf(d) ==
    [dealIdentifier |-> d, currency |-> "USD", dealValue |-> 23,
     guaranteeCommencementDate |-> 5, obligorPartyIdentifier |-> "t1", obligorName |-> "t2",
     obligorIndustryClassification |-> "t1"]
DealGuarantee(party) ==
    [effectiveDate |-> 5, limitKey |-> "t1", guaranteeExpiryDate |-> 6,
     maximumLiability |-> 27, guarantorParty |-> party]
DealInvestor(expiryDate, lenderType) ==
    [lenderType |-> lenderType, effectiveDate |-> 1, expiryDate |-> expiryDate,
     dealStatus |-> None, currency |-> "GBP"]
PostDeal(d) == Request("POST/deals", NoParams, <<DealOf(d)>>)
OnDeal(op, d, body) == Request(op, [dealIdentifier |-> d], body)
Guarantees(method) == method \o "/deals/<dealIdentifier>/guarantees"
Investors(method) == method \o "/deals/<dealIdentifier>/investors"

SerialDeals ==
    Workload(TRUE, <<>>,
        <<PostDeal("d1"), PostDeal("d1"),
          OnDeal("GET/deals/<dealIdentifier>", "d1", None),
          OnDeal("GET/deals/<dealIdentifier>", "d2", None),
          OnDeal(Guarantees("POST"), "d1", <<DealGuarantee(None)>>),
          OnDeal(Guarantees("POST"), "d1", <<DealGuarantee("t2")>>),
          OnDeal(Guarantees("POST"), "d2", <<DealGuarantee("t2")>>),
          OnDeal(Guarantees("GET"), "d1", None),
          OnDeal(Guarantees("GET"), "d2", None),
          OnDeal(Investors("POST"), "d1", <<DealInvestor(None, None)>>),
          OnDeal(Investors("POST"), "d1", <<DealInvestor(6, "100")>>),
          OnDeal(Investors("GET"), "d1", None),
          OnDeal(Investors("GET"), "d2", None)>>)

OverlappingDeals ==
    Workload(FALSE, <<>>,
        <<PostDeal("d1"), PostDeal("d1"),
          OnDeal(Guarantees("POST"), "d1", <<DealGuarantee(None)>>)>>)

(* Facilities.                                                             *)
FacilityOf(f, stage, limit) ==
    [facilityIdentifier |-> f, dealIdentifier |-> "d1", dealBorrowerIdentifier |-> "t1",
     obligorPartyIdentifier |-> "t2", productTypeId |-> "250", currency |-> "GBP",
     maximumLiability |-> limit, exposurePeriod |-> "t1",
     obligorIndustryClassification |-> "t1", agentBankIdentifier |-> "t1",
     riskCountryCode |-> "t1", riskStatusCode |-> "t2", creditRatingCode |-> "t1",
     premiumFrequencyCode |-> "t1", facilityStageCode |-> stage, delegationType |-> "t2",
     interestOrFeeRate |-> 5, forecastPercentage |-> 7, effectiveDate |-> 4,
     guaranteeExpiryDate |-> 6, nextQuarterEndDate |-> 5, probabilityOfDefault |-> None,
     capitalConversionFactorCode |-> None, issueDate |-> 2]
OnFacility(op, f, body) == Request(op, [facilityIdentifier |-> f], body)
PutFacility(op, f, body) ==
    Request("PUT/facilities/<facilityIdentifier>", [facilityIdentifier |-> f, op |-> op], body)
HeldFacility(f, stage, status) ==
    Entity("Facility", None, [FacilityStatusCode |-> status]
                             @@ BuildCreateAcbsFacilityRequest(FacilityOf(f, stage, 30)))
Activation(method) ==
    method \o "/facilities/<facilityIdentifier>/activation-transactions"
Activate(code, f) ==
    OnFacility(Activation("POST"), f,
               <<[initialBundleStatusCode |-> code, lenderTypeCode |-> "100"]>>)
OnBundle(op, i) ==
    Request(op \o "/<bundleIdentifier>", [facilityIdentifier |-> "f1", bundleIdentifier |-> i],
            None)
Part(method, part) == method \o "/facilities/<facilityIdentifier>/" \o part

FeeOf(period, lenderType) ==
    [amount |-> 10, effectiveDate |-> 4, expirationDate |-> 6, nextDueDate |-> 5,
     nextAccrueToDate |-> 5, period |-> period, currency |-> "GBP",
     lenderTypeCode |-> lenderType, incomeClassCode |-> None, spreadToInvestorsIndicator |-> TRUE]
HeldFee(period) ==
    Entity("FixedFee", "f1", FixedFeeToCreateInAcbs(HeldFacility("f1", "07", "A").data,
                                                    FeeOf(period, "100")))
AmendFee(period, amount) ==
    [partyIdentifier |-> "t1", period |-> period, lenderTypeCode |-> "100",
     effectiveDate |-> 4, amountAmendment |-> amount]
PostFee(period) == OnFacility(Part("POST", "fixed-fees"), "f1", <<FeeOf(period, "100")>>)
AmendFees(items) ==
    OnFacility(Part("POST", "fixed-fees") \o "/amendments/amount", "f1", items)

SerialFacilities ==
    Workload(TRUE, <<>>,
        <<Request("POST/facilities", NoParams, <<FacilityOf("f1", "06", 20)>>),
          Request("POST/facilities", NoParams, <<FacilityOf("f1", "06", 20)>>),
          OnFacility("GET/facilities/<facilityIdentifier>", "f1", None),
          OnFacility("GET/facilities/<facilityIdentifier>", "f2", None),
          PostFee("t1"),
          PutFacility("issue", "f1", FacilityOf("f1", "06", 20)),
          PutFacility("issue", "f1", FacilityOf("f1", "07", 20)),
          PutFacility("amendAmount", "f1", FacilityOf("f1", "07", 25)),
          PutFacility("amendAmount", "f1", FacilityOf("f1", "07", 25)),
          PutFacility("amendAmount", "f1", FacilityOf("f1", "07", 11)),
          PutFacility("amendExpiryDate", "f2", FacilityOf("f2", "07", 20))>>)

SerialFees ==
    Workload(TRUE, <<HeldFacility("f1", "07", "D")>>,
        <<PostFee("t1"), Activate(1, "f1"), Activate(3, "f1"), Activate(3, "f2"),
          OnBundle(Activation("GET"), 2), OnBundle(Activation("GET"), 1),
          PostFee("t1"), PostFee("t1"),
          AmendFees(<<AmendFee("t1", -4), AmendFee("t2", 9), AmendFee("t1", 2)>>),
          OnFacility(Part("GET", "fixed-fees"), "f1", None),
          OnFacility(Part("POST", "fixed-fees"), "f1", <<>>)>>)

OverlappingActivation ==
    Workload(FALSE, <<HeldFacility("f1", "06", "D")>>,
        <<PutFacility("issue", "f1", FacilityOf("f1", "07", 30)), Activate(3, "f1"),
          PostFee("t1"), PutFacility("amendExpiryDate", "f1", FacilityOf("f1", "07", 30))>>)

OverlappingAmendments ==
    Workload(FALSE, <<HeldFacility("f1", "07", "A"), HeldFee("t1")>>,
        <<AmendFees(<<AmendFee("t1", -7), AmendFee("t2", 3)>>),
          AmendFees(<<AmendFee("t2", 5)>>), PostFee("t2"),
          PutFacility("amendAmount", "f1", FacilityOf("f1", "07", 11))>>)

(* Parts of facilities.                                                    *)
CovenantOf(c, type) ==
    [covenantIdentifier |-> c, covenantType |-> type, maximumLiability |-> 30,
     currency |-> "t1", guaranteeExpiryDate |-> 6, effectiveDate |-> 5]
GuaranteeOf(party) ==
    [effectiveDate |-> 5, limitKey |-> "t1", guaranteeExpiryDate |-> 6,
     maximumLiability |-> 27, guarantorParty |-> party, guaranteeTypeCode |-> "315"]
InvestorOf(lenderType) ==
    [effectiveDate |-> 5, guaranteeExpiryDate |-> 6, currency |-> "GBP",
     maximumLiability |-> 27, lenderType |-> lenderType]
HeldParts ==
    <<HeldFacility("f1", "07", "A"), HeldFacility("f2", "07", "A"),
      Entity("FacilityCovenant", "f1",
             CovenantToCreateInAcbs("250", "t1", CovenantOf("c1", "43"))),
      Entity("FacilityCovenant", "f2",
             CovenantToCreateInAcbs("260", "t1", CovenantOf("c1", "43"))),
      Entity("FacilityGuarantee", "f1", GuaranteeToCreateInAcbs(GuaranteeOf("t1")))>>

SerialParts ==
    Workload(TRUE, HeldParts,
        <<OnFacility(Part("POST", "covenants"), "f1", <<CovenantOf("c2", "46")>>),
          OnFacility(Part("PATCH", "covenants"), "f1",
                     [targetAmount |-> 0, expirationDate |-> None]),
          OnFacility(Part("PATCH", "covenants"), "f1",
                     [targetAmount |-> None, expirationDate |-> 4]),
          OnFacility(Part("GET", "covenants"), "f1", None),
          OnFacility(Part("POST", "guarantees"), "f1", <<GuaranteeOf("t2")>>),
          OnFacility(Part("GET", "guarantees"), "f1", None),
          OnFacility(Part("PATCH", "guarantees"), "f1",
                     [guaranteedLimit |-> 9, expirationDate |-> 3]),
          OnFacility(Part("POST", "investors"), "f1", <<InvestorOf(None)>>),
          OnFacility(Part("GET", "investors"), "f1", None)>>)

AbsentParts ==
    Workload(TRUE, <<HeldFacility("f1", "07", "A")>>,
        <<OnFacility(Part("POST", "covenants"), "f2", <<CovenantOf("c2", "43")>>),
          OnFacility(Part("POST", "covenants"), "f1", <<>>),
          OnFacility(Part("POST", "covenants"), "f1", <<CovenantOf("c2", "99")>>),
          OnFacility(Part("GET", "covenants"), "f2", None),
          OnFacility(Part("PATCH", "covenants"), "f2",
                     [targetAmount |-> 1, expirationDate |-> None]),
          OnFacility(Part("PATCH", "covenants"), "f1",
                     [targetAmount |-> None, expirationDate |-> None]),
          OnFacility(Part("POST", "guarantees"), "f2", <<GuaranteeOf("t2")>>),
          OnFacility(Part("GET", "guarantees"), "f2", None),
          OnFacility(Part("PATCH", "guarantees"), "f1",
                     [guaranteedLimit |-> 9, expirationDate |-> 3]),
          OnFacility(Part("POST", "investors"), "f2", <<InvestorOf("100")>>),
          OnFacility(Part("GET", "investors"), "f2", None),
          OnFacility(Part("GET", "loans"), "f2", None)>>)

OverlappingPatches ==
    Workload(FALSE, HeldParts,
        <<OnFacility(Part("PATCH", "covenants"), "f1",
                     [targetAmount |-> 0, expirationDate |-> None]),
          OnFacility(Part("PATCH", "covenants"), "f1",
                     [targetAmount |-> None, expirationDate |-> 4]),
          OnFacility(Part("POST", "covenants"), "f1", <<CovenantOf("c2", "47")>>)>>)

(* Loans.                                                                  *)
LoanOfGroup(group, type, currency) ==
    [postingDate |-> 3, borrowerPartyIdentifier |-> "t1", productTypeId |-> type,
     productTypeGroup |-> group, currency |-> currency, dealCustomerUsageRate |-> 0,
     dealCustomerUsageOperationType |-> "M", amount |-> 40, issueDate |-> 4, expiryDate |-> 6,
     nextDueDate |-> 5, loanBillingFrequencyType |-> "t1", spreadRate |-> 3,
     spreadRateCtl |-> None, yearBasis |-> "t2",
     indexRateChangeFrequency |-> IF group = "EW" THEN "t1" ELSE None]
PostLoan(f, loan) == OnFacility(Part("POST", "loans"), f, <<loan>>)
OnLoan(op, i, body) ==
    Request(op, [facilityIdentifier |-> "f1", loanIdentifier |-> i], body)
AmendLoan(i, amount) ==
    OnLoan("POST/facilities/<facilityIdentifier>/loans/<loanIdentifier>/amendments/amount", i,
           <<[effectiveDate |-> 4, amountAmendment |-> amount]>>)
PatchLoan(i, date) ==
    OnLoan("PATCH/facilities/<facilityIdentifier>/loans/<loanIdentifier>", i,
           [expiryDate |-> date])
LoanTransactions == Part("GET", "loan-transactions")

SerialLoans ==
    Workload(TRUE, <<HeldFacility("f1", "07", "A")>>,
        <<PostLoan("f1", LoanOfGroup("EW", "260", "USD")), OnBundle(LoanTransactions, 2),
          AmendLoan(3, -5), PatchLoan(3, 5), OnFacility(Part("GET", "loans"), "f1", None),
          PostLoan("f1", LoanOfGroup("GM", "281", "GBP")), PatchLoan(6, 4), PatchLoan(1, 4),
          AmendLoan(1, 7), AmendLoan(3, 0), OnBundle(Activation("GET"), 2),
          OnBundle(LoanTransactions, 4), OnBundle(LoanTransactions, 1),
          PostLoan("f2", LoanOfGroup("BS", "250", "EUR"))>>)

SerialRates ==
    Workload(TRUE, <<HeldFacility("f1", "07", "A")>>,
        <<PostLoan("f1", LoanOfGroup("EW", "260", "JPY")), OnBundle(LoanTransactions, 2)>>)

OverlappingLoans ==
    Workload(FALSE, <<HeldFacility("f1", "07", "A")>>,
        <<PostLoan("f1", LoanOfGroup("EW", "260", "JPY")),
          PostLoan("f1", LoanOfGroup("BS", "250", "EUR")),
          AmendLoan(3, 5), PatchLoan(3, 5)>>)

MCWorkloads ==
    {SerialParties, OverlappingParties, SerialDeals, OverlappingDeals, SerialFacilities,
     SerialFees, OverlappingActivation, OverlappingAmendments, SerialParts, AbsentParts,
     OverlappingPatches, SerialLoans, SerialRates, OverlappingLoans}
=============================================================================
