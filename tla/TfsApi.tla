------------------------------- MODULE TfsApi -------------------------------
(***************************************************************************)
(* The ACBS half of the API as a whole: any number of requests of any      *)
(* kind in progress, one call of ACBS or MDM at a time, and ACBS posting   *)
(* the bundles it was sent.                                                *)
(*                                                                         *)
(* Several properties are about serial workloads, whose clients wait for   *)
(* an answer, and for what they asked of ACBS, before they ask again: the  *)
(* code reads, decides and writes without a lock or a version, and does    *)
(* not promise them of requests that overlap.                              *)
(***************************************************************************)
EXTENDS AcbsParty, AcbsDeal, AcbsLoan

vars == <<workload, pc, local, answer, acbs, faults>>

\* The parameters of an operation: what its path names, and of two of them a
\* part of the query.
ParamNames(op) ==
    CASE op \in {"POST/parties", "POST/deals", "POST/facilities"} -> {}
      [] op = "GET/parties" -> {"searchText"}
      [] op \in {"GET/parties/<partyIdentifier>",
                 "GET/parties/<partyIdentifier>/external-ratings"} -> {"partyIdentifier"}
      [] op \in {"GET/deals/<dealIdentifier>",
                 "POST/deals/<dealIdentifier>/guarantees",
                 "GET/deals/<dealIdentifier>/guarantees",
                 "POST/deals/<dealIdentifier>/investors",
                 "GET/deals/<dealIdentifier>/investors"} -> {"dealIdentifier"}
      [] op = "PUT/facilities/<facilityIdentifier>" -> {"facilityIdentifier", "op"}
      [] op \in {"GET/facilities/<facilityIdentifier>/activation-transactions/<bundleIdentifier>",
                 "GET/facilities/<facilityIdentifier>/loan-transactions/<bundleIdentifier>"} ->
           {"facilityIdentifier", "bundleIdentifier"}
      [] op \in {"POST/facilities/<facilityIdentifier>/loans/<loanIdentifier>/amendments/amount",
                 "PATCH/facilities/<facilityIdentifier>/loans/<loanIdentifier>"} ->
           {"facilityIdentifier", "loanIdentifier"}
      [] OTHER -> {"facilityIdentifier"}

\* The fields that ACBS finds and amends its entities by.
FieldsOf(kind) ==
    CASE kind = "Facility" -> {"FacilityIdentifier", "FacilityStatusCode"}
      [] kind = "FacilityCovenant" -> {"CovenantIdentifier", "TargetAmount", "ExpirationDate"}
      [] kind = "FacilityGuarantee" -> {"GuaranteeTypeCode", "GuarantorPartyIdentifier",
                                        "GuaranteedLimit", "ExpirationDate"}
      [] kind = "FixedFee" -> {"SegmentIdentifier", "LenderTypeCode"}
      [] kind = "Loan" -> {"CurrencyCode", "MaturityDate", "RateMaturityDate",
                           "FinancialNextValuationDate", "CustomerUsageNextValuationDate"}
      [] kind = "BundleInformation" -> {"BundleStatusCode", "BundleMessageList"}
      [] OTHER -> {}

IsEntity(entity) ==
    /\ entity = [kind |-> entity.kind, owner |-> entity.owner,
                 data |-> entity.data, by |-> entity.by]
    /\ FieldsOf(entity.kind) \subseteq DOMAIN entity.data

\* A loan matures when its rate does, and is revalued then, if it is in a
\* foreign currency.
DatesAgree(loan) ==
    LET valuation == IF loan.CurrencyCode = "GBP" THEN None ELSE loan.MaturityDate
    IN  /\ loan.RateMaturityDate = loan.MaturityDate
        /\ loan.FinancialNextValuationDate = valuation
        /\ loan.CustomerUsageNextValuationDate = valuation

MaturesOnADate(loan) == DatesAgree(loan) /\ loan.MaturityDate \in DateTimes

\* A rating is sovereign exactly when the first customer that MDM has is.
IsRatingOf(types, assignedRatingCode) ==
    LET sovereign == types \notin {None, <<>>} /\ types[1] \in SOVEREIGN_ACCOUNT_TYPES
    IN  sovereign <=> assignedRatingCode = ASSIGNED_RATING_CODES.SOVEREIGN

IsActive(store, i) == store[i].data.FacilityStatusCode = FACILITY_STATUSES.ACTIVE

\* What an entity may be, in a store that holds the others it is about.
IsPossible(store, mdm, entity) ==
    /\ entity.kind = "FixedFee" =>
         /\ FacilityIndexes(store, entity.owner) # {}
         /\ \A i \in FacilityIndexes(store, entity.owner) : IsActive(store, i)
    /\ entity.kind = "PartyExternalRating" =>
         /\ entity.owner \in DOMAIN store
         /\ store[entity.owner].kind = "Party"
         /\ IsRatingOf(mdm[store[entity.owner].data.PartyAlternateIdentifier],
                       entity.data.AssignedRatingCode)
    /\ entity.kind = "BundleInformation" =>
         LET messages == entity.data.BundleMessageList
         IN  /\ 1 \in DOMAIN messages
             /\ \A k \in DOMAIN messages :
                  /\ IsFacilityCodeValueTransaction(messages[k]) =>
                       messages[k].FacilityTransactionCodeValueCode = FACILITY_STATUSES.ACTIVE
                  /\ IsNewLoanRequest(messages[k]) =>
                       FieldsOf("Loan") \subseteq DOMAIN messages[k] /\ MaturesOnADate(messages[k])
    /\ entity.kind = "Loan" => MaturesOnADate(entity.data)

\* ACBS has one facility of an identifier, one deal of an identifier in a
\* portfolio, and, of serial workloads, one party of an identifier and one
\* rating of a party.
AreDistinct(serial, a, b) ==
    /\ a.kind = "Facility" /\ b.kind = "Facility" =>
         a.data.FacilityIdentifier # b.data.FacilityIdentifier
    /\ a.kind = "Deal" /\ b.kind = "Deal" /\ a.owner = b.owner =>
         a.data.DealIdentifier # b.data.DealIdentifier
    /\ serial /\ a.kind = "Party" /\ b.kind = "Party" =>
         a.data.PartyAlternateIdentifier # b.data.PartyAlternateIdentifier
    /\ serial /\ a.kind = "PartyExternalRating" /\ b.kind = "PartyExternalRating" =>
         a.owner # b.owner

IsStore(store, mdm, serial) ==
    /\ store \in Seq(Range(store))
    /\ \A i \in DOMAIN store :
         /\ IsEntity(store[i]) /\ IsPossible(store, mdm, store[i])
         /\ \A j \in DOMAIN store \ {i} : AreDistinct(serial, store[i], store[j])

\* What the API sends ACBS is of the DTO of its endpoint; a new loan has the
\* date to post it on.
IsDto(kind, data) ==
    CASE kind = "Party" -> data \in AcbsCreatePartyRequestDto
      [] kind = "PartyExternalRating" ->
           data \in AcbsCreatePartyExternalRatingRequestDto
      [] kind = "Deal" -> data \in AcbsCreateDealDto
      [] kind = "BorrowingRestriction" ->
           data \in AcbsUpdateDealBorrowingRestrictionRequest
      [] kind = "DealGuarantee" -> data \in AcbsCreateDealGuaranteeDto
      [] kind = "DealParty" -> data \in AcbsCreateDealInvestorRequest
      [] kind = "Facility" -> IsAcbsFacility(data)
      [] kind = "FacilityCovenant" -> data \in AcbsCreateFacilityCovenantRequestDto
      [] kind = "FacilityGuarantee" -> data \in AcbsBaseFacilityGuarantee
      [] kind = "FacilityParty" -> data \in AcbsCreateFacilityPartyDto
      [] kind = "FixedFee" -> data \in AcbsCreateFacilityFixedFeeRequestDto
      [] kind = "BundleInformation" ->
           /\ data \in AcbsBundleInformation
           /\ IsNewLoanRequest(data.BundleMessageList[1]) => data.PostingDate # None
      [] kind = "Loan" ->
           /\ "PrincipalBalance" \in DOMAIN data /\ data.PrincipalBalance \in Int
           /\ [field \in DOMAIN data \ {"PrincipalBalance"} |-> data[field]]
                \in NewLoanRequest

IsOfItsDto(entity) == IsDto(entity.kind, entity.data)

\* The operations whose body is an array.
ArrayOps ==
    {"POST/parties", "POST/deals", "POST/deals/<dealIdentifier>/guarantees",
     "POST/deals/<dealIdentifier>/investors", "POST/facilities",
     "POST/facilities/<facilityIdentifier>/covenants",
     "POST/facilities/<facilityIdentifier>/guarantees",
     "POST/facilities/<facilityIdentifier>/investors",
     "POST/facilities/<facilityIdentifier>/activation-transactions",
     "POST/facilities/<facilityIdentifier>/fixed-fees",
     "POST/facilities/<facilityIdentifier>/fixed-fees/amendments/amount",
     "POST/facilities/<facilityIdentifier>/loans",
     "POST/facilities/<facilityIdentifier>/loans/<loanIdentifier>/amendments/amount"}

\* A request has the parameters of its operation, and ACBS starts with a store
\* that none of the requests wrote and that earlier ones could have.
ASSUME WorkloadAssumption ==
    \A w \in Workloads :
        /\ w.serial \in BOOLEAN
        /\ DOMAIN w.requests \subseteq Nat \ {0}
        /\ \A r \in DOMAIN w.requests :
             LET request == w.requests[r]
             IN  /\ DOMAIN request.params = ParamNames(request.op)
                 /\ request.op \in ArrayOps => request.body \in Seq(Range(request.body))
        /\ IsStore(w.acbs, w.mdm, w.serial)
        /\ \A i \in DOMAIN w.acbs : w.acbs[i].by = 0 /\ IsOfItsDto(w.acbs[i])

Handle(r) ==
    \/ PartyHandler(r)
    \/ DealHandler(r)
    \/ FacilityHandler(r)
    \/ FacilityPartHandler(r)
    \/ LoanHandler(r)

\* Every request is answered and ACBS has nothing left to post.
Finished ==
    /\ \A r \in Requests : pc[r] = "done"
    /\ \A i \in DOMAIN acbs : acbs[i].kind = "BundleInformation" =>
                                acbs[i].data.BundleStatusCode # BundleStatusCodes.PENDING_POSTING
    /\ UNCHANGED <<pc, local, answer, acbs, faults>>

Next ==
    /\ UNCHANGED workload
    /\ \/ \E r \in Requests : Handle(r)
       \/ \E i \in DOMAIN acbs : PostBundle(i)
       \/ Finished

\* A call returns, or times out, and ACBS posts what it accepted.
Spec == Init /\ [][Next]_vars /\ WF_vars(Next)

-----------------------------------------------------------------------------
(* What the properties are made of.                                        *)

Answered(r, statuses) == pc[r] = "done" /\ answer[r].status \in statuses
Created(r) == Answered(r, {200, 201})
Posted(i) == /\ acbs[i].kind = "BundleInformation"
             /\ acbs[i].data.BundleStatusCode = BundleStatusCodes.POSTED
EntitiesOf(kind) == {i \in DOMAIN acbs : acbs[i].kind = kind}

\* The body of an answer to a request that succeeded, or one of its items.
ResponseDto(op) ==
    CASE op = "POST/parties" -> CreatePartyResponse
      [] op \in {"GET/parties", "GET/parties/<partyIdentifier>"} ->
           GetPartiesBySearchTextResponseItem
      [] op = "GET/parties/<partyIdentifier>/external-ratings" ->
           GetPartyExternalRatingsResponseItem
      [] op = "GET/deals/<dealIdentifier>" -> GetDealByIdentifierResponse
      [] op = "GET/deals/<dealIdentifier>/guarantees" -> GetDealGuaranteeResponseItem
      [] op = "GET/deals/<dealIdentifier>/investors" -> GetDealInvestorResponseDto
      [] op \in {"POST/deals", "POST/deals/<dealIdentifier>/guarantees",
                 "POST/deals/<dealIdentifier>/investors"} -> CreateDealResponse
      [] op = "GET/facilities/<facilityIdentifier>/covenants" -> GetFacilityCovenantsResponseDto
      [] op = "GET/facilities/<facilityIdentifier>/guarantees" ->
           GetFacilityGuaranteesResponseItem
      [] op = "GET/facilities/<facilityIdentifier>/investors" -> GetFacilityInvestorResponseItem
      [] op = "GET/facilities/<facilityIdentifier>/fixed-fees" -> GetFacilityFixedFeeResponseItem
      [] op = "GET/facilities/<facilityIdentifier>/loans" -> GetFacilityLoanResponseItem
      [] op = "GET/facilities/<facilityIdentifier>/loan-transactions/<bundleIdentifier>" ->
           GetFacilityLoanTransactionResponseDto
      [] op = "GET/facilities/<facilityIdentifier>/activation-transactions/<bundleIdentifier>" ->
           GetFacilityActivationTransactionResponseDto
      [] op = "PATCH/facilities/<facilityIdentifier>/loans/<loanIdentifier>" ->
           [loanIdentifier : LoanIdentifiers]
      [] OTHER -> CreateFacilityResponse \cup CreateBundleResponse

Lists ==
    {"GET/parties", "GET/parties/<partyIdentifier>/external-ratings",
     "GET/deals/<dealIdentifier>/guarantees", "GET/deals/<dealIdentifier>/investors",
     "GET/facilities/<facilityIdentifier>/covenants",
     "GET/facilities/<facilityIdentifier>/guarantees",
     "GET/facilities/<facilityIdentifier>/investors",
     "GET/facilities/<facilityIdentifier>/fixed-fees",
     "GET/facilities/<facilityIdentifier>/loans"}

\* What an answer that succeeded holds: its items, or the only one.
Items(r) == IF Op(r) \in Lists THEN Range(answer[r].body) ELSE {answer[r].body}

-----------------------------------------------------------------------------
(* Properties.                                                             *)

\* Everything sent to ACBS is of the DTO of its endpoint, and every answer
\* of the DTO of its handler, whatever was left out of a request and
\* whatever ACBS posted in between.
TypeOK ==
    /\ DOMAIN pc = Requests /\ DOMAIN local = Requests /\ DOMAIN answer = Requests
    /\ faults \in 0..MaxFaults
    /\ \A i \in DOMAIN acbs : IsOfItsDto(acbs[i])
    /\ \A r \in Requests :
         /\ pc[r] # "done" => answer[r] = None
         /\ Created(r) =>
              \A item \in Items(r) :
                  IF Op(r) = "GET/facilities/<facilityIdentifier>"
                  THEN IsGetFacilityByIdentifierResponse(item)
                  ELSE item \in ResponseDto(Op(r))
         /\ pc[r] = "done" /\ ~Created(r) =>
              answer[r].status \in {400, 404, 500} /\ answer[r].body = None

\* What a GET answers with the things of a POST, and whether it asks for them.
ReadBy(post) ==
    CASE post = "POST/parties" -> {"GET/parties", "GET/parties/<partyIdentifier>"}
      [] post = "POST/deals" -> {"GET/deals/<dealIdentifier>"}
      [] post = "POST/deals/<dealIdentifier>/guarantees" ->
           {"GET/deals/<dealIdentifier>/guarantees"}
      [] post = "POST/deals/<dealIdentifier>/investors" ->
           {"GET/deals/<dealIdentifier>/investors"}
      [] post = "POST/facilities" -> {"GET/facilities/<facilityIdentifier>"}
      [] post = "POST/facilities/<facilityIdentifier>/covenants" ->
           {"GET/facilities/<facilityIdentifier>/covenants"}
      [] post = "POST/facilities/<facilityIdentifier>/guarantees" ->
           {"GET/facilities/<facilityIdentifier>/guarantees"}
      [] post = "POST/facilities/<facilityIdentifier>/investors" ->
           {"GET/facilities/<facilityIdentifier>/investors"}
      [] post = "POST/facilities/<facilityIdentifier>/fixed-fees" ->
           {"GET/facilities/<facilityIdentifier>/fixed-fees"}
      [] post = "POST/facilities/<facilityIdentifier>/loans" ->
           {"GET/facilities/<facilityIdentifier>/loan-transactions/<bundleIdentifier>"}
      [] OTHER -> {}

AsksForWhat(q, p) ==
    /\ Op(q) \in ReadBy(Op(p))
    /\ \A name \in DOMAIN Params(q) :
         IF name = "searchText" THEN Params(q)[name] = Body(p)[1].alternateIdentifier
         ELSE IF name \in DOMAIN answer[p].body THEN Params(q)[name] = answer[p].body[name]
         ELSE Params(q)[name] = Params(p)[name]

\* What the answer may say of a field that the request gave: a date of effect
\* or issue is not in the future, an amount has two decimal places, a rate of
\* zero is no rate, an unissued facility has no date of issue, and only the
\* schedule of a rate in dollars says how often its index changes.  The value of
\* a deal is not read back: it is written as LimitAmount, next to a memo limit
\* that is a constant, and the memo limit is what is read.
MayRead(op, item, name) ==
    LET asked == item[name]
    IN  CASE name \in {"effectiveDate", "guaranteeCommencementDate"} ->
               {asked, Earliest(Today, asked)}
          [] name = "issueDate" ->
               IF op = "POST/facilities"
               THEN {IF IsFacilityUnissued(item.facilityStageCode) THEN None ELSE asked}
               ELSE {Earliest(Today, asked)}
          [] name = "maximumLiability" -> {asked, RoundTo2DecimalPlaces(asked)}
          [] name = "dealCustomerUsageRate" -> {IF asked = 0 THEN None ELSE asked}
          [] name = "indexRateChangeFrequency" ->
               {IF item.productTypeGroup = PRODUCT_TYPE_GROUPS.EWCS /\ item.currency = "USD"
                THEN asked ELSE None}
          [] name = "dealValue" -> {DEAL.memoLimitAmount}
          [] OTHER -> {asked}

\* What the API reads from elsewhere than where it writes it: the name of the
\* obligor is that of the party, and some of what it answers of a facility is no
\* field of the request to create one.
ReadElsewhere(op) ==
    IF op = "POST/facilities"
    THEN {"obligorName", "portfolioIdentifier", "guaranteeCommencementDate",
          "facilityInitialStatus", "facilityOverallStatus", "guaranteePercentage"}
    ELSE {"obligorName"}

\* An item that a GET shows has every field of what the request op asked for.
IsReadBack(op, asked, item) ==
    \A name \in (DOMAIN item \cap DOMAIN asked) \ ReadElsewhere(op) :
        asked[name] # None => item[name] \in MayRead(op, asked, name)

\* What a client creates it reads back: after a POST that answered 201, which
\* says that it created something, and unless something has written that since or
\* amended it, a GET that succeeds answers with something that has every field
\* of the request it names, whatever that is called in ACBS (but for the value
\* of a deal, which MayRead says is lost).
CreatedIsReadBack ==
    workload.serial =>
        \A p, q \in Requests :
            /\ p < q /\ Answered(p, {201}) /\ Created(q)
            /\ AsksForWhat(q, p)
            /\ \E i \in DOMAIN acbs : acbs[i].by = p
            /\ \A i \in DOMAIN acbs : Posted(i) => acbs[i].by \notin (p + 1)..(q - 1)
            =>
            \E item \in Items(q) : IsReadBack(Op(p), Body(p)[1], item)

\* A client that waits for its answers, and repeats what it got none for, ends
\* up with one party for an identifier.
OnePartyPerIdentifier ==
    workload.serial =>
        \A i, j \in EntitiesOf("Party") :
            acbs[i].data.PartyAlternateIdentifier = acbs[j].data.PartyAlternateIdentifier
                => i = j

RatingsOf(partyIdentifier) ==
    {i \in EntitiesOf("PartyExternalRating") : acbs[i].owner = partyIdentifier}

\* A party that POST /parties answers with is rated, whoever created it and
\* however often that failed before; once only, when the clients wait.
AnsweredPartyIsRated ==
    \A r \in Requests :
        Op(r) = "POST/parties" /\ Created(r) =>
            LET ratings == RatingsOf(answer[r].body.partyIdentifier)
            IN  ratings # {} /\ (workload.serial => Cardinality(ratings) = 1)

\* A party is rated as sovereign exactly when the first customer that MDM has
\* for it is: the rating goes to the party it was worked out for.
RatingFollowsCustomerType ==
    \A i \in EntitiesOf("PartyExternalRating") :
        IsRatingOf(workload.mdm[acbs[acbs[i].owner].data.PartyAlternateIdentifier],
                   acbs[i].data.AssignedRatingCode)

\* The handlers that write several things, and say so when one of them fails.
WritesSeveral ==
    {"POST/parties", "PATCH/facilities/<facilityIdentifier>/covenants",
     "PATCH/facilities/<facilityIdentifier>/guarantees"}

\* Of any other request, POST /deals included, an answer that blames the
\* client means that nothing was written.
RefusalChangesNothing ==
    \A r \in Requests :
        Answered(r, {400, 404}) /\ Op(r) \notin WritesSeveral =>
            \A i \in DOMAIN acbs : acbs[i].by # r

\* ACBS does not have the last thing that the path of r names.
Absent(r) ==
    LET names == DOMAIN Params(r)
    IN  \/ "loanIdentifier" \in names /\ ~LoanExists(Params(r).loanIdentifier)
        \/ /\ "bundleIdentifier" \in names
           /\ Params(r).bundleIdentifier \notin EntitiesOf("BundleInformation")
        \/ "partyIdentifier" \in names /\ ~IsParty(Params(r).partyIdentifier)
        \/ "dealIdentifier" \in names /\ DealIndexes(Params(r).dealIdentifier) = {}
        \/ /\ "facilityIdentifier" \in names
           /\ {"loanIdentifier", "bundleIdentifier"} \cap names = {}
           /\ \/ ~FacilityExists(Params(r).facilityIdentifier)
              \/ /\ Op(r) \in {"GET/facilities/<facilityIdentifier>/guarantees",
                               "PATCH/facilities/<facilityIdentifier>/guarantees"}
                 /\ Indexes("FacilityGuarantee", Params(r).facilityIdentifier) = {}

\* 404 is answered only when ACBS does not have what was asked for, never
\* because a call failed.  (ACBS has no 404 for guarantees.)
NotFoundIsAbsent ==
    [][\A r \in Requests : pc[r] # "done" /\ Answered(r, {404})' => Absent(r)]_vars

\* No deal that POST /deals answers with is without its borrowing restriction.
CreatedDealIsRestricted ==
    \A r \in Requests :
        Op(r) = "POST/deals" /\ Created(r) =>
            Indexes("BorrowingRestriction", Body(r)[1].dealIdentifier) # {}

\* A facility with a fixed fee has been activated, however the requests that
\* update, activate and charge it overlap.
FeesAreOnActiveFacilities ==
    \A i \in EntitiesOf("FixedFee") :
        \A j \in FacilityIndexes(acbs, acbs[i].owner) :
            acbs[j].data.FacilityStatusCode = FACILITY_STATUSES.ACTIVE

PostedBundlesOf(op) == {i \in DOMAIN acbs : Posted(i) /\ acbs[i].by # 0 /\ Op(acbs[i].by) = op}

\* What request r asked to add to the fee.
AskedOfFee(r, fee) ==
    SumFunction([k \in DOMAIN Body(r) |->
        IF /\ fee.owner = FacilityIdentifier(r)
           /\ Body(r)[k].period = fee.data.SegmentIdentifier
           /\ Body(r)[k].lenderTypeCode = fee.data.LenderTypeCode
        THEN Body(r)[k].amountAmendment ELSE 0])

\* The amount of a fee is the one it was created with and every amendment
\* that was posted since, however the amendments overlap and are repeated,
\* whatever their signs and whichever fees they are of.  What is posted before
\* there is the fee it is of is lost, and that is never something asked for
\* later than the fee; when clients wait, it is all that was asked for before.
FeeAmountsAddUp ==
    \A i \in EntitiesOf("FixedFee") :
        LET fee == acbs[i]
            created == IF fee.by = 0 THEN workload.acbs[i].data.FixedFeeAmount
                       ELSE Body(fee.by)[1].amount
            bundles == PostedBundlesOf(
                           "POST/facilities/<facilityIdentifier>/fixed-fees/amendments/amount")
            later == {bundle \in bundles : bundle > i}
        IN  \E counted \in SUBSET bundles :
                /\ later \subseteq counted
                /\ workload.serial => counted = later
                /\ fee.data.FixedFeeAmount =
                     created
                     + SumFunction([bundle \in counted |-> AskedOfFee(acbs[bundle].by, fee)])

\* A loan matures when its rate does, and is revalued then, if it is in a
\* foreign currency: at its creation and however its expiry is moved.
LoanDatesAgree == \A i \in EntitiesOf("Loan") : DatesAgree(acbs[i].data)

\* When ACBS posts the bundle of an amendAmount, the limit of the facility
\* becomes the one that was asked for, also when that was asked for twice.
AmendmentReachesItsLimit ==
    [][workload.serial =>
          \A i \in DOMAIN acbs :
              LET r == acbs[i].by
              IN  /\ acbs[i].kind = "BundleInformation" /\ ~Posted(i) /\ Posted(i)'
                  /\ r \in Requests
                  /\ Op(r) = "PUT/facilities/<facilityIdentifier>"
                  => acbs'[FacilityIndex(FacilityIdentifier(r))].data.LimitAmount
                       = Body(r).maximumLiability]_vars

\* The ACBS field that each field of a PATCH is for.
Patched ==
    [targetAmount |-> "TargetAmount", guaranteedLimit |-> "GuaranteedLimit",
     expirationDate |-> "ExpirationDate"]
Patches == {"FacilityCovenant", "FacilityGuarantee"}
PatchOp(kind) ==
    IF kind = "FacilityCovenant" THEN "PATCH/facilities/<facilityIdentifier>/covenants"
    ELSE "PATCH/facilities/<facilityIdentifier>/guarantees"

\* A PATCH that succeeds has updated all the covenants, or guarantees, of the
\* facility, each in the fields of the request.
WholeSetIsUpdated ==
    [][workload.serial =>
          \A r \in Requests, kind \in Patches :
              Op(r) = PatchOp(kind) /\ pc[r] # "done" /\ Answered(r, {200})' =>
                  \A i \in Indexes(kind, FacilityIdentifier(r)) :
                      \A name \in DOMAIN Body(r) :
                          Body(r)[name] # None =>
                              acbs'[i].data[Patched[name]] =
                                  IF name = "expirationDate" THEN AddTime(Body(r)[name])
                                  ELSE Body(r)[name]]_vars

\* A PATCH changes only the fields it gives, of what is in ACBS and not of
\* what the API makes of it, and only of that facility.
PatchKeepsTheRest ==
    [][workload.serial =>
          \A i \in DOMAIN acbs :
              acbs[i].kind \in Patches /\ acbs'[i].data # acbs[i].data =>
                  LET r == acbs'[i].by
                      given == {name \in DOMAIN Body(r) : Body(r)[name] # None}
                  IN  /\ acbs[i].owner = FacilityIdentifier(r)
                      /\ \A field \in DOMAIN acbs[i].data :
                           acbs'[i].data[field] # acbs[i].data[field] =>
                               field \in {Patched[name] : name \in given}]_vars

\* Every request is answered, every PATCH gets to the end of what it read,
\* and every bundle that was accepted is posted or marked as failed.
EveryRequestIsAnswered ==
    <>[](/\ \A r \in Requests : pc[r] = "done"
         /\ \A i \in DOMAIN acbs : acbs[i].kind = "BundleInformation" =>
                acbs[i].data.BundleStatusCode # BundleStatusCodes.PENDING_POSTING)
=============================================================================
