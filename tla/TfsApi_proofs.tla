---------------------------- MODULE TfsApi_proofs ----------------------------
(***************************************************************************)
(* The inductive invariant of the ACBS half of the API, and that every     *)
(* step of every handler keeps it: what a request has made sure of before  *)
(* each call, what the store holds, and who wrote it.  And what follows    *)
(* from it: the safety properties of TfsApi that need no types, for any    *)
(* workload and any number of calls that fail.                             *)
(***************************************************************************)
EXTENDS TfsApi, FiniteSetTheorems, SequenceTheorems, TLAPS

-----------------------------------------------------------------------------
(* Where a request may be, and what it knows there.                        *)

PartyCourse(op, label) ==
    \/ op = "GET/parties" /\ label = "searchForParties"
    \/ op = "GET/parties/<partyIdentifier>" /\ label = "getParty"
    \/ op = "GET/parties/<partyIdentifier>/external-ratings" /\ label = "getExternalRatings"
    \/ op = "POST/parties" /\ label \in {"searchForParty", "createParty", "getRatings",
                                          "findCustomers", "createRating"}

DealCourse(op, label) ==
    \/ op = "GET/deals/<dealIdentifier>" /\ label = "getDeal"
    \/ op = "POST/deals" /\ label \in {"createDeal", "restrictDeal"}
    \/ op = "POST/deals/<dealIdentifier>/guarantees" /\ label = "createDealGuarantee"
    \/ op = "GET/deals/<dealIdentifier>/guarantees" /\ label = "getDealGuarantees"
    \/ op = "POST/deals/<dealIdentifier>/investors" /\ label = "createDealInvestor"
    \/ op = "GET/deals/<dealIdentifier>/investors" /\ label = "getDealInvestors"

FacilityCourse(op, label) ==
    \/ op = "GET/facilities/<facilityIdentifier>" /\ label = "getFacility"
    \/ op = "POST/facilities" /\ label = "createFacility"
    \/ /\ op = "PUT/facilities/<facilityIdentifier>"
       /\ label \in {"getFacilityToUpdate", "putFacility", "amendFacility"}

FacilityPartCourse(op, label) ==
    \/ /\ op = "POST/facilities/<facilityIdentifier>/covenants"
       /\ label \in {"getFacilityOfCovenant", "createCovenant"}
    \/ op = "GET/facilities/<facilityIdentifier>/covenants" /\ label = "getCovenants"
    \/ /\ op = "PATCH/facilities/<facilityIdentifier>/covenants"
       /\ label \in {"getCovenantsToUpdate", "putCovenant"}
    \/ /\ op = "POST/facilities/<facilityIdentifier>/guarantees"
       /\ label = "createFacilityGuarantee"
    \/ /\ op = "GET/facilities/<facilityIdentifier>/guarantees"
       /\ label = "getFacilityGuarantees"
    \/ /\ op = "PATCH/facilities/<facilityIdentifier>/guarantees"
       /\ label \in {"getGuaranteesToUpdate", "putGuarantee"}
    \/ /\ op = "POST/facilities/<facilityIdentifier>/investors"
       /\ label = "createFacilityInvestor"
    \/ /\ op = "GET/facilities/<facilityIdentifier>/investors"
       /\ label = "getFacilityInvestors"

LoanCourse(op, label) ==
    \/ /\ op = "POST/facilities/<facilityIdentifier>/activation-transactions"
       /\ label \in {"getFacilityToActivate", "createActivation"}
    \/ /\ op = "GET/facilities/<facilityIdentifier>/activation-transactions/<bundleIdentifier>"
       /\ label = "getActivation"
    \/ /\ op = "POST/facilities/<facilityIdentifier>/fixed-fees"
       /\ label \in {"getFacilityOfFee", "createFee"}
    \/ op = "GET/facilities/<facilityIdentifier>/fixed-fees" /\ label = "getFees"
    \/ /\ op = "POST/facilities/<facilityIdentifier>/fixed-fees/amendments/amount"
       /\ label = "amendFees"
    \/ op = "GET/facilities/<facilityIdentifier>/loans" /\ label = "getLoans"
    \/ op = "POST/facilities/<facilityIdentifier>/loans" /\ label = "createLoan"
    \/ /\ op = "GET/facilities/<facilityIdentifier>/loan-transactions/<bundleIdentifier>"
       /\ label = "getLoanTransaction"
    \/ /\ op = "POST/facilities/<facilityIdentifier>/loans/<loanIdentifier>/amendments/amount"
       /\ label = "amendLoan"
    \/ /\ op = "PATCH/facilities/<facilityIdentifier>/loans/<loanIdentifier>"
       /\ label \in {"getLoanToUpdate", "putLoan"}

IsCourse(op, label) ==
    \/ PartyCourse(op, label)
    \/ DealCourse(op, label)
    \/ FacilityCourse(op, label)
    \/ FacilityPartCourse(op, label)
    \/ LoanCourse(op, label)

\* POST /parties rates the party that it searched for, or created, and in a
\* serial workload nobody else creates or rates it meanwhile.
KnowsParty(r) ==
    LET party == local[r].partyIdentifier
        alternateIdentifier == PartyToCreate(r).alternateIdentifier
    IN  /\ pc[r] = "createParty" /\ workload.serial => PartiesOf(alternateIdentifier) = {}
        /\ pc[r] \in {"getRatings", "findCustomers", "createRating"} =>
             /\ IsParty(party)
             /\ acbs[party].data.PartyAlternateIdentifier = alternateIdentifier
             /\ local[r].status \in {200, 201}
        /\ pc[r] \in {"findCustomers", "createRating"} /\ workload.serial =>
             RatingsOf(party) = {}
        /\ pc[r] = "createRating" =>
             IsRatingOf(workload.mdm[alternateIdentifier], local[r].assignedRatingCode)

\* PUT and POST of a facility work on the facility of the path, which does
\* not go, nor become inactive.
KnowsFacility(r) ==
    /\ pc[r] = "amendFacility" => local[r].FacilityIdentifier = FacilityIdentifier(r)
    /\ pc[r] = "createFee" =>
         /\ FacilityExists(FacilityIdentifier(r))
         /\ \A i \in FacilityIndexes(acbs, FacilityIdentifier(r)) : IsActive(acbs, i)

CovenantsLike(facilityIdentifier, covenant) ==
    {i \in Indexes("FacilityCovenant", facilityIdentifier) :
        acbs[i].data.CovenantIdentifier = covenant.CovenantIdentifier}

GuaranteesLike(facilityIdentifier, guarantee) ==
    {i \in Indexes("FacilityGuarantee", facilityIdentifier) :
        /\ acbs[i].data.GuaranteeTypeCode = guarantee.GuaranteeTypeCode
        /\ acbs[i].data.GuarantorPartyIdentifier = guarantee.GuarantorPartyIdentifier}

\* What a PATCH has yet to put back is in ACBS, by what identifies it.
KnowsParts(r) ==
    /\ pc[r] \in {"putCovenant", "putGuarantee"} =>
         local[r] \in Seq(Range(local[r])) /\ local[r] # <<>>
    /\ pc[r] = "putCovenant" =>
         \A k \in DOMAIN local[r] :
             /\ FieldsOf("FacilityCovenant") \subseteq DOMAIN local[r][k]
             /\ CovenantsLike(FacilityIdentifier(r), local[r][k]) # {}
    /\ pc[r] = "putGuarantee" =>
         \A k \in DOMAIN local[r] :
             /\ FieldsOf("FacilityGuarantee") \subseteq DOMAIN local[r][k]
             /\ GuaranteesLike(FacilityIdentifier(r), local[r][k]) # {}

\* The dates of a loan, and the amendments of fees, were validated.
KnowsLoan(r) ==
    /\ pc[r] = "createLoan" => Body(r)[1].expiryDate \in Dates
    /\ pc[r] \in {"getLoanToUpdate", "putLoan"} => Body(r).expiryDate \in Dates
    /\ pc[r] = "putLoan" =>
         FieldsOf("Loan") \subseteq DOMAIN local[r] /\ MaturesOnADate(local[r])
    /\ pc[r] = "amendFees" =>
         /\ 1 \in DOMAIN Body(r)
         /\ \A k \in DOMAIN Body(r) : Body(r)[k].amountAmendment \in Int

Knows(r) == KnowsParty(r) /\ KnowsFacility(r) /\ KnowsParts(r) /\ KnowsLoan(r)

\* What an answer that something was created says of the store.
Fulfilled(r) ==
    Created(r) =>
        /\ Op(r) = "POST/deals" =>
             Indexes("BorrowingRestriction", Body(r)[1].dealIdentifier) # {}
        /\ Op(r) = "POST/parties" => RatingsOf(answer[r].body.partyIdentifier) # {}

\* Who has written nothing yet, or says so.
WroteNothing(r) ==
    /\ Op(r) \notin WritesSeveral
    /\ IF pc[r] = "done" THEN answer[r].status \in {400, 404} ELSE pc[r] # "restrictDeal"

InCourse(r) ==
    \/ pc[r] = "received"
    \/ IsCourse(Op(r), pc[r]) /\ Knows(r)
    \/ pc[r] = "done" /\ Fulfilled(r)

\* Of a serial workload, only the first request that is not done has begun.
Serial ==
    workload.serial =>
        \A q, r \in Requests : q < r /\ pc[r] # "received" => pc[q] = "done"

ControlOK ==
    /\ workload \in Workloads
    /\ DOMAIN pc = Requests /\ DOMAIN local = Requests /\ DOMAIN answer = Requests

StoreOK == IsStore(acbs, workload.mdm, workload.serial)

IInv ==
    /\ ControlOK
    /\ StoreOK
    /\ Serial
    /\ \A r \in Requests :
         /\ InCourse(r)
         /\ WroteNothing(r) => \A i \in DOMAIN acbs : acbs[i].by # r

-----------------------------------------------------------------------------
(* The store.                                                              *)

\* What no step changes of an entity: what it is and what it belongs to, the
\* fields that others find it by, and that a facility is active.
IsSame(old, new) ==
    /\ new.kind = old.kind /\ new.owner = old.owner
    /\ old.kind \in {"Party", "PartyExternalRating", "Deal"} => new.data = old.data
    /\ old.kind = "Facility" =>
         /\ new.data.FacilityIdentifier = old.data.FacilityIdentifier
         /\ old.data.FacilityStatusCode = FACILITY_STATUSES.ACTIVE =>
              new.data.FacilityStatusCode = FACILITY_STATUSES.ACTIVE
    /\ old.kind = "FacilityCovenant" =>
         new.data.CovenantIdentifier = old.data.CovenantIdentifier
    /\ old.kind = "FacilityGuarantee" =>
         /\ new.data.GuaranteeTypeCode = old.data.GuaranteeTypeCode
         /\ new.data.GuarantorPartyIdentifier = old.data.GuarantorPartyIdentifier

Keeps(old, new) == DOMAIN old \subseteq DOMAIN new /\ \A i \in DOMAIN old : IsSame(old[i], new[i])

LEMMA KeepsItself == \A store : Keeps(store, store)
BY DEF Keeps, IsSame

\* What is possible in a store stays possible in one that keeps it and adds no
\* second facility.
LEMMA PossibleStays ==
  ASSUME NEW mdm, NEW old, NEW new, NEW entity, Keeps(old, new), IsPossible(old, mdm, entity),
         \A j \in DOMAIN new \ DOMAIN old : new[j].kind = "Facility" =>
             FacilityIndexes(old, new[j].data.FacilityIdentifier) = {}
  PROVE  IsPossible(new, mdm, entity)
<1>1. ASSUME entity.kind = "FixedFee"
      PROVE  /\ FacilityIndexes(new, entity.owner) # {}
             /\ \A i \in FacilityIndexes(new, entity.owner) : IsActive(new, i)
  <2>1. PICK i \in FacilityIndexes(old, entity.owner) : TRUE
    BY <1>1 DEF IsPossible
  <2>2. i \in FacilityIndexes(new, entity.owner)
    BY <2>1 DEF FacilityIndexes, Keeps, IsSame
  <2>3. ASSUME NEW j \in FacilityIndexes(new, entity.owner)  PROVE IsActive(new, j)
    <3>1. j \in FacilityIndexes(old, entity.owner)
      BY <2>1 DEF FacilityIndexes, Keeps, IsSame
    <3> QED BY <1>1, <3>1 DEF IsPossible, IsActive, FacilityIndexes, Keeps, IsSame
  <2> QED BY <2>2, <2>3
<1>2. ASSUME entity.kind = "PartyExternalRating"
      PROVE  /\ entity.owner \in DOMAIN new
             /\ new[entity.owner].kind = "Party"
             /\ IsRatingOf(mdm[new[entity.owner].data.PartyAlternateIdentifier],
                           entity.data.AssignedRatingCode)
  BY <1>2 DEF IsPossible, Keeps, IsSame
<1> QED BY <1>1, <1>2 DEF IsPossible

\* The general form of a step of the store: what it keeps, it may change, and
\* what it adds is distinct from the rest.
LEMMA StoreStays ==
  ASSUME NEW mdm, NEW serial, NEW old, NEW new, IsStore(old, mdm, serial),
         new \in Seq(Range(new)), Keeps(old, new),
         \A i \in DOMAIN new : IsEntity(new[i]) /\ IsPossible(old, mdm, new[i]),
         \A i \in DOMAIN new \ DOMAIN old : \A j \in DOMAIN new \ {i} :
             AreDistinct(serial, new[j], new[i])
  PROVE  IsStore(new, mdm, serial)
<1>1. ASSUME NEW j \in DOMAIN new \ DOMAIN old, new[j].kind = "Facility"
      PROVE  FacilityIndexes(old, new[j].data.FacilityIdentifier) = {}
  <2>1. ASSUME NEW i \in FacilityIndexes(old, new[j].data.FacilityIdentifier)  PROVE FALSE
    <3>1. i \in DOMAIN new \ {j} /\ new[i].kind = "Facility"
          /\ new[i].data.FacilityIdentifier = new[j].data.FacilityIdentifier
      BY <2>1 DEF FacilityIndexes, Keeps, IsSame
    <3> QED BY <1>1, <3>1 DEF AreDistinct
  <2> QED BY <2>1
<1>2. ASSUME NEW i \in DOMAIN new  PROVE IsPossible(new, mdm, new[i])
  BY <1>1, PossibleStays
<1>3. ASSUME NEW i \in DOMAIN new, NEW j \in DOMAIN new \ {i}
      PROVE  AreDistinct(serial, new[i], new[j])
  <2>1. CASE i \in DOMAIN old /\ j \in DOMAIN old
    <3>1. AreDistinct(serial, old[i], old[j])
      BY <2>1 DEF IsStore
    <3> QED BY <2>1, <3>1 DEF AreDistinct, Keeps, IsSame
  <2>2. CASE j \notin DOMAIN old
    BY <2>2
  <2>3. CASE i \notin DOMAIN old
    <3>1. AreDistinct(serial, new[j], new[i])
      BY <2>3
    <3> QED BY <3>1 DEF AreDistinct
  <2> QED BY <2>1, <2>2, <2>3
<1> QED BY <1>2, <1>3 DEF IsStore

\* Another value in a field of an entity.
LEMMA EntityExcept ==
  ASSUME NEW entity, IsEntity(entity), NEW data, NEW by
  PROVE  /\ [entity EXCEPT !.data = data] =
              [kind |-> entity.kind, owner |-> entity.owner, data |-> data, by |-> entity.by]
         /\ [entity EXCEPT !.data = data, !.by = by] =
              [kind |-> entity.kind, owner |-> entity.owner, data |-> data, by |-> by]
<1>1. PICK k, o, d, b : entity = [kind |-> k, owner |-> o, data |-> d, by |-> b]
  BY DEF IsEntity
<1>2. entity.kind = k /\ entity.owner = o /\ entity.by = b
  BY <1>1
<1>3. [entity EXCEPT !.data = data] = [kind |-> k, owner |-> o, data |-> data, by |-> b]
  BY <1>1
<1>4. [entity EXCEPT !.data = data, !.by = by] = [[entity EXCEPT !.data = data] EXCEPT !.by = by]
  OBVIOUS
<1>5. [[kind |-> k, owner |-> o, data |-> data, by |-> b] EXCEPT !.by = by] =
        [kind |-> k, owner |-> o, data |-> data, by |-> by]
  OBVIOUS
<1> QED BY <1>2, <1>3, <1>4, <1>5

LEMMA IsASequence == \A store : store \in Seq(Range(store)) =>
                         Len(store) \in Nat /\ DOMAIN store = 1..Len(store)
OBVIOUS

LEMMA AFunctionIsASequence ==
  ASSUME NEW n \in Nat, NEW f, DOMAIN f = 1..n, f = [i \in 1..n |-> f[i]]
  PROVE  f \in Seq(Range(f))
<1>1. f \in [1..n -> Range(f)]
  BY DEF Range
<1> QED BY <1>1, SeqDef

\* A store that has one more entity.
LEMMA AddedToStore ==
  ASSUME NEW mdm, NEW serial, NEW store, NEW entity, IsStore(store, mdm, serial),
         IsEntity(entity), IsPossible(store, mdm, entity),
         \A i \in DOMAIN store : AreDistinct(serial, store[i], entity)
  PROVE  /\ IsStore(Append(store, entity), mdm, serial)
         /\ Keeps(store, Append(store, entity))
         /\ DOMAIN Append(store, entity) = DOMAIN store \cup {Len(store) + 1}
         /\ Append(store, entity)[Len(store) + 1] = entity
         /\ \A i \in DOMAIN store : Append(store, entity)[i] = store[i]
<1> DEFINE new == Append(store, entity)
<1>1. store \in Seq(Range(store)) /\ Len(store) \in Nat /\ DOMAIN store = 1..Len(store)
  BY IsASequence DEF IsStore
<1>2. /\ DOMAIN new = DOMAIN store \cup {Len(store) + 1}
      /\ new[Len(store) + 1] = entity
      /\ \A i \in DOMAIN store : new[i] = store[i]
      /\ Len(store) + 1 \notin DOMAIN store
      /\ Len(new) = Len(store) + 1
  BY <1>1
<1>3. new \in Seq(Range(new))
  <2> DEFINE S == Range(store) \cup {entity}
  <2>1. store \in Seq(S)
    BY <1>1, SeqMonotonic
  <2>2. new \in Seq(S)
    BY <2>1, AppendProperties
  <2> QED BY <2>2, SeqOfRange
<1>4. Keeps(store, new)
  BY <1>2 DEF Keeps, IsSame
<1>5. \A i \in DOMAIN new : IsEntity(new[i]) /\ IsPossible(store, mdm, new[i])
  BY <1>2 DEF IsStore
<1>6. \A i \in DOMAIN new \ DOMAIN store : \A j \in DOMAIN new \ {i} :
          AreDistinct(serial, new[j], new[i])
  BY <1>2
<1>7. IsStore(new, mdm, serial)
  BY <1>3, <1>4, <1>5, <1>6, StoreStays
<1> QED BY <1>2, <1>4, <1>7

\* A store that has another entity in place of one that is the same thing.
LEMMA ReplacedInStore ==
  ASSUME NEW mdm, NEW serial, NEW store, NEW i \in DOMAIN store, NEW entity,
         IsStore(store, mdm, serial),
         IsEntity(entity), IsPossible(store, mdm, entity), IsSame(store[i], entity)
  PROVE  /\ IsStore([store EXCEPT ![i] = entity], mdm, serial)
         /\ Keeps(store, [store EXCEPT ![i] = entity])
<1> DEFINE new == [store EXCEPT ![i] = entity]
<1>1. store \in Seq(Range(store)) /\ Len(store) \in Nat /\ DOMAIN store = 1..Len(store)
  BY IsASequence DEF IsStore
<1>2. DOMAIN new = DOMAIN store /\ new[i] = entity
      /\ \A j \in DOMAIN store \ {i} : new[j] = store[j]
  BY <1>1
<1>3. new \in Seq(Range(new))
  <2>1. new = [j \in 1..Len(store) |-> new[j]]
    BY <1>1
  <2> QED BY <1>1, <1>2, <2>1, AFunctionIsASequence
<1>4. Keeps(store, new)
  BY <1>2 DEF Keeps, IsSame
<1>5. \A j \in DOMAIN new : IsEntity(new[j]) /\ IsPossible(store, mdm, new[j])
  BY <1>2 DEF IsStore
<1>6. IsStore(new, mdm, serial)
  BY <1>2, <1>3, <1>4, <1>5, StoreStays
<1> QED BY <1>4, <1>6

-----------------------------------------------------------------------------
(* A step of a request.                                                    *)

Frame(r) ==
    /\ pc[r] # "done"
    /\ pc[r] = "received" => MayBegin(r)
    /\ DOMAIN pc' = DOMAIN pc /\ DOMAIN local' = DOMAIN local /\ DOMAIN answer' = DOMAIN answer
    /\ \A q \in Requests \ {r} :
         pc'[q] = pc[q] /\ local'[q] = local[q] /\ answer'[q] = answer[q]

AmendFeesOp == "POST/facilities/<facilityIdentifier>/fixed-fees/amendments/amount"

\* What request r adds of fees is what its body asks for: a fee of the amount
\* of its item, and a bundle, to be posted, with a message for each amendment.
IsAsAsked(r, entity) ==
    /\ entity.kind = "FixedFee" => entity.data.FixedFeeAmount = Body(r)[1].amount
    /\ entity.kind = "BundleInformation" =>
         LET messages == entity.data.BundleMessageList
         IN  IF Op(r) = AmendFeesOp
             THEN /\ entity.data.BundleStatusCode = BundleStatusCodes.PENDING_POSTING
                  /\ messages = [k \in DOMAIN Body(r) |->
                                   FeeAmountAmendmentMessage(FacilityIdentifier(r), Body(r)[k])]
                  /\ \A k \in DOMAIN Body(r) : Body(r)[k].amountAmendment \in Int
             ELSE \A k \in DOMAIN messages : messages[k].type # "FacilityFeeAmountTransaction"

\* Request r adds an entity, or replaces one by one that is the same thing:
\* a covenant or a guarantee only in a PATCH of them.  A bundle is the last
\* thing it adds, and it replaces no bundle, fee, party or deal.
Wrote(r) ==
    \E entity :
        /\ entity.by = r
        /\ IsEntity(entity)
        /\ IsPossible(acbs, workload.mdm, entity)
        /\ \/ /\ acbs' = Append(acbs, entity)
              /\ \A i \in DOMAIN acbs : AreDistinct(workload.serial, acbs[i], entity)
              /\ entity.kind = "BundleInformation" => pc'[r] = "done"
              /\ IsAsAsked(r, entity)
           \/ \E i \in DOMAIN acbs :
                 /\ acbs' = [acbs EXCEPT ![i] = entity] /\ IsSame(acbs[i], entity)
                 /\ acbs[i].kind \notin {"BundleInformation", "FixedFee", "Party", "Deal"}
                 /\ acbs[i].kind \in Patches => Op(r) = PatchOp(acbs[i].kind)

\* Where a step of request r takes it.
Lands(r) ==
    \/ /\ pc'[r] = "done"
       /\ answer'[r].status \in {200, 201, 400, 404, 500}
       /\ answer'[r].status = 404 => Absent(r)
       /\ Fulfilled(r)'
    \/ IsCourse(Op(r), pc'[r]) /\ Knows(r)'

\* What a step of any handler is.
Step(r) ==
    /\ Frame(r)
    /\ Lands(r)
    /\ acbs' = acbs \/ Wrote(r)
    /\ WroteNothing(r)' => WroteNothing(r) /\ acbs' = acbs

LEMMA GotoMoves ==
  ASSUME ControlOK, NEW r \in Requests, NEW label, NEW loc, Goto(r, label, loc),
         pc[r] # "done", pc[r] = "received" => MayBegin(r)
  PROVE  Frame(r) /\ pc'[r] = label /\ local'[r] = loc
BY DEF ControlOK, Goto, Frame

LEMMA ReplyEnds ==
  ASSUME ControlOK, NEW r \in Requests, NEW status, NEW body, Reply(r, status, body),
         pc[r] # "done", pc[r] = "received" => MayBegin(r)
  PROVE  /\ Frame(r) /\ pc'[r] = "done"
         /\ answer'[r].status = status /\ answer'[r].body = body
BY DEF ControlOK, Reply, Frame

LEMMA CourseGoesOn ==
  ASSUME NEW op, NEW label, IsCourse(op, label)  PROVE label \notin {"received", "done"}
<1>1. ASSUME PartyCourse(op, label)  PROVE label \notin {"received", "done"}
  BY <1>1 DEF PartyCourse
<1>2. ASSUME DealCourse(op, label)  PROVE label \notin {"received", "done"}
  BY <1>2 DEF DealCourse
<1>3. ASSUME FacilityCourse(op, label)  PROVE label \notin {"received", "done"}
  BY <1>3 DEF FacilityCourse
<1>4. ASSUME FacilityPartCourse(op, label)  PROVE label \notin {"received", "done"}
  BY <1>4 DEF FacilityPartCourse
<1>5. ASSUME LoanCourse(op, label)  PROVE label \notin {"received", "done"}
  BY <1>5 DEF LoanCourse
<1> QED BY <1>1, <1>2, <1>3, <1>4, <1>5 DEF IsCourse

\* The calls before which a request knows something.
Informed ==
    {"createParty", "getRatings", "findCustomers", "createRating", "amendFacility",
     "createFee", "putCovenant", "putGuarantee", "createLoan", "getLoanToUpdate",
     "putLoan", "amendFees"}

LEMMA KnowsNothing == ASSUME NEW r, pc'[r] \notin Informed  PROVE Knows(r)'
BY DEF Informed, Knows, KnowsParty, KnowsFacility, KnowsParts, KnowsLoan

\* A step that goes on to another call.
LEMMA MovesStep ==
  ASSUME ControlOK, NEW r \in Requests, UNCHANGED <<workload, acbs>>,
         pc[r] # "done", pc[r] # "restrictDeal", pc[r] = "received" => MayBegin(r),
         NEW label, NEW loc, Goto(r, label, loc), IsCourse(Op(r), label), Knows(r)'
  PROVE  Step(r)
BY GotoMoves, CourseGoesOn DEF Step, Lands, WroteNothing, Op

LEMMA MovesOnStep ==
  ASSUME ControlOK, NEW r \in Requests, UNCHANGED <<workload, acbs>>,
         pc[r] # "done", pc[r] # "restrictDeal", pc[r] = "received" => MayBegin(r),
         NEW label, NEW loc, Goto(r, label, loc), IsCourse(Op(r), label), label \notin Informed
  PROVE  Step(r)
<1>1. pc'[r] = label
  BY GotoMoves
<1> QED BY <1>1, KnowsNothing, MovesStep

\* A step that answers with what was read.
LEMMA AnswersStep ==
  ASSUME ControlOK, NEW r \in Requests, UNCHANGED <<workload, acbs>>,
         pc[r] # "done", pc[r] # "restrictDeal", pc[r] = "received" => MayBegin(r),
         NEW status \in {200, 201}, NEW body, Reply(r, status, body),
         Op(r) # "POST/deals", Op(r) # "POST/parties"
  PROVE  Step(r)
<1>1. Frame(r) /\ pc'[r] = "done" /\ answer'[r].status = status
  BY ReplyEnds
<1>2. Fulfilled(r)'
  BY DEF Fulfilled, Op
<1> QED BY <1>1, <1>2 DEF Step, Lands, WroteNothing, Op

LEMMA Statuses == \A exception : HttpStatus(exception) \in {400, 404, 500}
BY DEF HttpStatus

\* A step that answers with an error, and has written nothing.
LEMMA ThrowsStep ==
  ASSUME ControlOK, NEW r \in Requests, UNCHANGED <<workload, acbs>>,
         pc[r] # "done", pc[r] # "restrictDeal", pc[r] = "received" => MayBegin(r),
         NEW exception, Throw(r, exception), HttpStatus(exception) = 404 => Absent(r)
  PROVE  Step(r)
<1>1. Frame(r) /\ pc'[r] = "done" /\ answer'[r].status = HttpStatus(exception)
  BY ReplyEnds DEF Throw
<1>2. ~Created(r)'
  BY <1>1, Statuses DEF Created, Answered
<1>3. Fulfilled(r)'
  BY <1>2 DEF Fulfilled
<1>4. Lands(r)
  BY <1>1, <1>3, Statuses DEF Lands
<1> QED BY <1>1, <1>4 DEF Step, WroteNothing, Op

\* A request begins, or its parameters or its body are refused.
Begins(r, op, label) ==
    /\ Receives(r, op)
    /\ WithoutAcbs
    /\ \/ Goto(r, label, None)
       \/ Throw(r, "BadRequestException")
       \/ Throw(r, "TypeError")

LEMMA BeginsStep ==
  ASSUME ControlOK, NEW r \in Requests, UNCHANGED workload,
         NEW op, NEW label, Begins(r, op, label), IsCourse(op, label),
         pc'[r] = label => Knows(r)'
  PROVE  Step(r)
<1>1. pc[r] = "received" /\ Op(r) = op /\ MayBegin(r) /\ UNCHANGED acbs
  BY DEF Begins, Receives, WithoutAcbs
<1>2. CASE Goto(r, label, None)
  BY <1>1, <1>2, GotoMoves, MovesStep
<1>3. ASSUME NEW exception \in {"BadRequestException", "TypeError"}, Throw(r, exception)
      PROVE  Step(r)
  BY <1>1, <1>3, ThrowsStep DEF HttpStatus
<1> QED BY <1>2, <1>3 DEF Begins

LEMMA BeginsUninformed ==
  ASSUME ControlOK, NEW r \in Requests, UNCHANGED workload,
         NEW op, NEW label, Begins(r, op, label), IsCourse(op, label), label \notin Informed
  PROVE  Step(r)
BY BeginsStep, KnowsNothing

-----------------------------------------------------------------------------
(* The calls.                                                              *)

IsResult(result) ==
    \/ result = Null
    \/ \E text : result = Refusal(text)
    \/ \E data : result = Ok(data)

IsCall(call) ==
    /\ call = [known |-> call.known, result |-> call.result, ofWrite |-> call.ofWrite]
    /\ call.known \subseteq DOMAIN KnownErrors
    /\ IsResult(call.result)

\* A refusal, or null, that becomes a 404.
IsMissing(known, result) ==
    \/ result = Null
    \/ \E text \in known : /\ result = Refusal(text)
                           /\ KnownErrors[text] = "AcbsResourceNotFoundException"

LEMMA KnownErrorsType ==
  ASSUME NEW text \in DOMAIN KnownErrors
  PROVE  KnownErrors[text] \in {"AcbsResourceNotFoundException", "AcbsBadRequestException"}
BY DEF KnownErrors

LEMMA UnknownErrors == "other" \notin DOMAIN KnownErrors /\ "none" \notin DOMAIN KnownErrors
BY DEF KnownErrors

LEMMA Results ==
  /\ Null.status = 200 /\ Null.body = "null"
  /\ \A text : Refusal(text).status = 400 /\ Refusal(text).text = text
  /\ \A data : Ok(data).status = 200 /\ Ok(data).body = "given" /\ Ok(data).data = data
BY DEF Null, Refusal, Ok

LEMMA FaultsAre ==
  ASSUME NEW error \in Faults
  PROVE  error.status \in {0, 400, 500} /\ error.text \in {"other", "none"}
BY DEF Faults

IsGiven(ended) == ended.status = 200 /\ ended.body # "null"

\* A GET ends with what ACBS has, or with an exception, which is that of a
\* missing resource only if ACBS does not have it.
LEMMA GetEnds ==
  ASSUME NEW call, IsCall(call), NEW outcome \in GetOutcomes(call)
  PROVE  IF IsGiven(outcome[1]) THEN call.result = Ok(outcome[1].data)
         ELSE HttpStatus(GetException(call, outcome[1])) = 404 =>
                  IsMissing(call.known, call.result)
<1> DEFINE ended == outcome[1]
           exception == GetException(call, ended)
<1>1. ended = call.result \/ ended \in Faults
  BY DEF GetOutcomes, FaultsLeft
<1>2. HttpStatus(exception) = 404 => exception = "AcbsResourceNotFoundException"
  BY DEF HttpStatus
<1>3. CASE ended \in Faults
  <2>1. ended.status # 200 /\ ended.text \notin call.known
    BY <1>3, FaultsAre, UnknownErrors DEF IsCall
  <2>2. exception # "AcbsResourceNotFoundException"
    BY <2>1 DEF GetException, WrapAcbsHttpGetError, WrapAcbsHttpPostOrPutError
  <2> QED BY <1>2, <2>1, <2>2 DEF IsGiven
<1>4. CASE ended = call.result /\ call.result = Null
  BY <1>4, Results DEF IsGiven, IsMissing
<1>5. ASSUME NEW text, ended = call.result, call.result = Refusal(text)
      PROVE  IF IsGiven(ended) THEN call.result = Ok(ended.data)
             ELSE HttpStatus(exception) = 404 => IsMissing(call.known, call.result)
  <2>1. ended.status = 400 /\ ended.text = text
    BY <1>5, Results
  <2>2. exception = "AcbsResourceNotFoundException" =>
          text \in call.known /\ KnownErrors[text] = "AcbsResourceNotFoundException"
    BY <2>1 DEF GetException, WrapAcbsHttpGetError, WrapAcbsHttpPostOrPutError
  <2> QED BY <1>2, <1>5, <2>1, <2>2 DEF IsGiven, IsMissing
<1>6. ASSUME NEW data, ended = call.result, call.result = Ok(data)
      PROVE  IsGiven(ended) /\ call.result = Ok(ended.data)
  <2>1. ended.status = 200 /\ ended.body = "given" /\ ended.data = data
    BY <1>6, Results
  <2> QED BY <1>6, <2>1 DEF IsGiven
<1> QED BY <1>1, <1>3, <1>4, <1>5, <1>6 DEF IsCall, IsResult

\* A write ends as ACBS answers it, or with an error after ACBS took it or not;
\* it is refused only if ACBS has not taken it.
LEMMA WriteEnds ==
  ASSUME NEW known, known \subseteq DOMAIN KnownErrors, NEW result, IsResult(result),
         result # Null, NEW outcome \in WriteOutcomes(result)
  PROVE  LET status == HttpStatus(WrapAcbsHttpPostOrPutError(known, outcome[1]))
         IN  /\ outcome[2] = acbs \/ result = Ok(outcome[2])
             /\ IF outcome[1].status = 200 THEN result = Ok(outcome[2])
                ELSE /\ status \in {400, 404} => outcome[2] = acbs
                     /\ status = 404 => IsMissing(known, result)
<1> DEFINE ended == outcome[1]
           exception == WrapAcbsHttpPostOrPutError(known, ended)
           written == IF result.status = 200 THEN result.data ELSE acbs
<1>1. \/ ended = result /\ outcome[2] = written
      \/ ended \in Faults /\ outcome[2] = acbs
      \/ ended \in Faults /\ outcome[2] = written /\ ended.status = 0
  BY DEF WriteOutcomes, FaultsLeft
<1>2. written = acbs \/ result = Ok(written)
  BY Results DEF IsResult
<1>3. HttpStatus(exception) = 404 => exception = "AcbsResourceNotFoundException"
  BY DEF HttpStatus
<1>4. CASE ended \in Faults
  <2>1. ended.status # 200 /\ ended.text \notin known
    BY <1>4, FaultsAre, UnknownErrors
  <2>2. exception \in {"AcbsUnexpectedException", "AcbsBadRequestException"}
        /\ (ended.status = 0 => exception = "AcbsUnexpectedException")
    BY <2>1 DEF WrapAcbsHttpPostOrPutError
  <2>3. HttpStatus(exception) # 404
        /\ (exception = "AcbsUnexpectedException" => HttpStatus(exception) = 500)
    BY <1>3, <2>2 DEF HttpStatus
  <2> QED BY <1>1, <1>2, <2>1, <2>2, <2>3, <1>4, Results
<1>5. ASSUME NEW text, ended = result, outcome[2] = written, result = Refusal(text)
      PROVE  /\ outcome[2] = acbs /\ ended.status # 200
             /\ HttpStatus(exception) = 404 => IsMissing(known, result)
  <2>1. ended.status = 400 /\ ended.text = text
    BY <1>5, Results
  <2>2. exception = "AcbsResourceNotFoundException" =>
          text \in known /\ KnownErrors[text] = "AcbsResourceNotFoundException"
    BY <2>1 DEF WrapAcbsHttpPostOrPutError
  <2> QED BY <1>3, <1>5, <2>1, <2>2 DEF IsMissing
<1>6. ASSUME NEW data, ended = result, outcome[2] = written, result = Ok(data)
      PROVE  ended.status = 200 /\ result = Ok(outcome[2])
  BY <1>6, Results
<1> QED BY <1>1, <1>4, <1>5, <1>6 DEF IsResult

\* Where a request is when it calls ACBS, and has written nothing but a deal.
Calls(r) == pc[r] \notin {"done", "received"}

\* A GET that answers with what it found, or refuses it, or fails.
Shows(r, call) ==
    /\ UNCHANGED acbs
    /\ \E outcome \in GetOutcomes(call) :
         IF IsGiven(outcome[1])
         THEN (\E body : Reply(r, 200, body)) \/ Throw(r, "BadRequestException")
         ELSE Throw(r, GetException(call, outcome[1]))

\* A GET that fails.
LEMMA GetFails ==
  ASSUME ControlOK, NEW r \in Requests, UNCHANGED <<workload, acbs>>,
         Calls(r), pc[r] # "restrictDeal", NEW call, IsCall(call),
         IsMissing(call.known, call.result) => Absent(r),
         NEW outcome \in GetOutcomes(call), ~IsGiven(outcome[1]),
         Throw(r, GetException(call, outcome[1]))
  PROVE  Step(r)
<1>1. HttpStatus(GetException(call, outcome[1])) = 404 => Absent(r)
  BY GetEnds
<1> QED BY <1>1, ThrowsStep DEF Calls

LEMMA ShowsStep ==
  ASSUME ControlOK, NEW r \in Requests, UNCHANGED workload,
         Calls(r), pc[r] # "restrictDeal", Op(r) # "POST/deals", Op(r) # "POST/parties",
         NEW call, IsCall(call), IsMissing(call.known, call.result) => Absent(r),
         Shows(r, call)
  PROVE  Step(r)
<1>1. PICK outcome \in GetOutcomes(call) :
        IF IsGiven(outcome[1])
        THEN (\E body : Reply(r, 200, body)) \/ Throw(r, "BadRequestException")
        ELSE Throw(r, GetException(call, outcome[1]))
  BY DEF Shows
<1>2. UNCHANGED acbs
  BY DEF Shows
<1>3. CASE ~IsGiven(outcome[1])
  BY <1>1, <1>2, <1>3, GetFails
<1>4. ASSUME NEW body, Reply(r, 200, body)  PROVE Step(r)
  BY <1>2, <1>4, AnswersStep DEF Calls
<1>5. CASE Throw(r, "BadRequestException")
  BY <1>2, <1>5, ThrowsStep DEF Calls, HttpStatus
<1> QED BY <1>1, <1>3, <1>4, <1>5

\* A write that fails.
LEMMA WriteFails ==
  ASSUME ControlOK, NEW r \in Requests, UNCHANGED workload,
         Calls(r), pc[r] # "restrictDeal",
         NEW known, known \subseteq DOMAIN KnownErrors, NEW result, IsResult(result),
         result # Null, result = Ok(acbs') => Wrote(r), IsMissing(known, result) => Absent(r),
         NEW outcome \in WriteOutcomes(result), acbs' = outcome[2], outcome[1].status # 200,
         Throw(r, WrapAcbsHttpPostOrPutError(known, outcome[1]))
  PROVE  Step(r)
<1> DEFINE exception == WrapAcbsHttpPostOrPutError(known, outcome[1])
<1>1. /\ acbs' = acbs \/ Wrote(r)
      /\ HttpStatus(exception) \in {400, 404} => acbs' = acbs
      /\ HttpStatus(exception) = 404 => Absent(r)
  BY WriteEnds
<1>2. Frame(r) /\ pc'[r] = "done" /\ answer'[r].status = HttpStatus(exception)
  BY ReplyEnds DEF Throw, Calls
<1>3. ~Created(r)'
  BY <1>2, Statuses DEF Created, Answered
<1>4. Fulfilled(r)'
  BY <1>3 DEF Fulfilled
<1>5. Lands(r)
  BY <1>1, <1>2, <1>4, Statuses DEF Lands
<1>6. WroteNothing(r)' => WroteNothing(r) /\ acbs' = acbs
  BY <1>1, <1>2 DEF WroteNothing, Op, Calls
<1> QED BY <1>1, <1>2, <1>5, <1>6 DEF Step

\* A write that answers that it was done, or fails.
Posts(r, known, result, status, body) ==
    \E outcome \in WriteOutcomes(result) :
        /\ acbs' = outcome[2]
        /\ IF outcome[1].status = 200 THEN Reply(r, status, body)
           ELSE Throw(r, WrapAcbsHttpPostOrPutError(known, outcome[1]))

\* It is the last of its request.
LEMMA PostsEnd ==
  ASSUME ControlOK, NEW r \in Requests, NEW known, NEW result, NEW status, NEW body,
         Posts(r, known, result, status, body)
  PROVE  pc'[r] = "done"
BY DEF ControlOK, Posts, Reply, Throw

\* A write that was done and is answered so.
LEMMA WriteAnswers ==
  ASSUME ControlOK, NEW r \in Requests, UNCHANGED workload, Calls(r),
         NEW status \in {200, 201}, NEW body, Reply(r, status, body), Wrote(r), Fulfilled(r)'
  PROVE  Step(r)
<1>1. Frame(r) /\ pc'[r] = "done" /\ answer'[r].status = status
  BY ReplyEnds DEF Calls
<1> QED BY <1>1 DEF Step, Lands, WroteNothing

LEMMA PostsStep ==
  ASSUME ControlOK, NEW r \in Requests, UNCHANGED workload,
         Calls(r), pc[r] # "restrictDeal", Op(r) # "POST/deals", Op(r) # "POST/parties",
         NEW known, known \subseteq DOMAIN KnownErrors, NEW result, IsResult(result),
         result # Null, result = Ok(acbs') => Wrote(r), IsMissing(known, result) => Absent(r),
         NEW status \in {200, 201}, NEW body, Posts(r, known, result, status, body)
  PROVE  Step(r)
<1>1. PICK outcome \in WriteOutcomes(result) :
        /\ acbs' = outcome[2]
        /\ IF outcome[1].status = 200 THEN Reply(r, status, body)
           ELSE Throw(r, WrapAcbsHttpPostOrPutError(known, outcome[1]))
  BY DEF Posts
<1>2. CASE outcome[1].status # 200
  BY <1>1, <1>2, WriteFails
<1>3. CASE outcome[1].status = 200
  <2>1. Wrote(r)
    BY <1>1, <1>3, WriteEnds
  <2>2. Fulfilled(r)'
    BY DEF Fulfilled, Op
  <2> QED BY <1>1, <1>3, <2>1, <2>2, WriteAnswers
<1> QED BY <1>2, <1>3

\* What a call may answer: something, or a refusal.
LEMMA OkOrRefused ==
  ASSUME NEW data, NEW text, NEW result, result \in {Ok(data), Refusal(text)}
  PROVE  /\ IsResult(result) /\ result # Null
         /\ \A other : result = Ok(other) => result # Refusal(text) /\ other = data
         /\ \A known : IsMissing(known, result) => result = Refusal(text) /\ text \in known
BY Results DEF IsResult, IsMissing

\* Or something, or null.
LEMMA OkOrNull ==
  ASSUME NEW data, NEW result, result = Ok(data) \/ result = Null
  PROVE  /\ IsResult(result)
         /\ \A other : result = Ok(other) => result # Null /\ other = data
         /\ \A known : IsMissing(known, result) => result = Null
<1>1. \A other : Ok(other) # Null
  <2>1. ASSUME NEW other  PROVE Ok(other).body # Null.body
    BY DEF Ok, Null
  <2> QED BY <2>1
<1>2. \A other : result = Ok(other) => result # Null /\ other = data
  BY <1>1, Results
<1>3. IsResult(result)
  BY DEF IsResult
<1>4. \A known : IsMissing(known, result) => result = Null
  BY Results DEF IsMissing
<1> QED BY <1>2, <1>3, <1>4

\* The usual call: it is of something, and refused if that does not exist.
AnswersIf(exists, result, data, text) ==
    /\ exists \in BOOLEAN
    /\ exists => result = Ok(data)
    /\ ~exists => result = Refusal(text)

LEMMA OkIf ==
  ASSUME NEW exists, NEW data, NEW text, NEW result, AnswersIf(exists, result, data, text)
  PROVE  /\ IsResult(result) /\ result # Null
         /\ \A other : result = Ok(other) => exists /\ other = data
         /\ \A known : IsMissing(known, result) => ~exists /\ text \in known
<1>1. Ok(data) # Refusal(text)
  BY Results
<1> QED BY <1>1, OkOrRefused DEF AnswersIf

LEMMA GetCalls ==
  ASSUME NEW known, known \subseteq DOMAIN KnownErrors, NEW result, IsResult(result)
  PROVE  /\ IsCall(GetCall(known, result))
         /\ GetCall(known, result).known = known
         /\ GetCall(known, result).result = result
BY DEF GetCall, IsCall

LEMMA KnownTexts ==
  {"PartyNotFound", "DealNotFound", "FacilityNotFound", "LoanNotFound",
   "FacilityDoesNotExist", "FixedFeeExists", "InvalidPortfolioIdAndFacilityId",
   "BundleInformationNotFound", "PartyIdentifierIsNotValid", "LoanDoesNotExist"}
     \subseteq DOMAIN KnownErrors
BY DEF KnownErrors

\* The usual GET and the usual write, which ACBS refuses because it does not
\* have something.
LEMMA ShowsIf ==
  ASSUME ControlOK, NEW r \in Requests, UNCHANGED workload,
         Calls(r), pc[r] # "restrictDeal", Op(r) # "POST/deals", Op(r) # "POST/parties",
         NEW known, known \subseteq DOMAIN KnownErrors,
         NEW exists, NEW data, NEW text, NEW result, AnswersIf(exists, result, data, text),
         ~exists => Absent(r), Shows(r, GetCall(known, result))
  PROVE  Step(r)
<1> DEFINE call == GetCall(known, result)
<1>1. IsResult(result) /\ (IsMissing(known, result) => ~exists)
  BY OkIf
<1>2. IsCall(call) /\ call.known = known /\ call.result = result
  BY <1>1, GetCalls
<1> HIDE DEF call
<1> QED BY <1>1, <1>2, ShowsStep DEF call

LEMMA PostsIf ==
  ASSUME ControlOK, NEW r \in Requests, UNCHANGED workload,
         Calls(r), pc[r] # "restrictDeal", Op(r) # "POST/deals", Op(r) # "POST/parties",
         NEW known, known \subseteq DOMAIN KnownErrors,
         NEW exists, NEW data, NEW text, NEW result, AnswersIf(exists, result, data, text),
         exists /\ acbs' = data => Wrote(r), ~exists /\ text \in known => Absent(r),
         NEW status \in {200, 201}, NEW body, Posts(r, known, result, status, body)
  PROVE  Step(r)
<1>1. /\ IsResult(result) /\ result # Null
      /\ result = Ok(acbs') => exists /\ acbs' = data
      /\ IsMissing(known, result) => ~exists /\ text \in known
  BY OkIf
<1> QED BY <1>1, PostsStep

LEMMA ParamsAre ==
  ASSUME ControlOK, NEW r \in Requests
  PROVE  /\ DOMAIN Params(r) = ParamNames(Op(r))
         /\ Op(r) \in ArrayOps => Body(r) \in Seq(Range(Body(r)))
         /\ r \in Nat \ {0}
         /\ workload.serial \in BOOLEAN
BY WorkloadAssumption DEF ControlOK, Requests, Params, Op, Body

\* The kinds of which there may be any number, anywhere.
PlainKinds ==
    {"BorrowingRestriction", "DealGuarantee", "DealParty", "FacilityCovenant",
     "FacilityGuarantee", "FacilityParty"}

LEMMA AddsPlain ==
  ASSUME NEW r, NEW kind \in PlainKinds, NEW owner, NEW data,
         FieldsOf(kind) \subseteq DOMAIN data, acbs' = Added(r, kind, owner, data)
  PROVE  Wrote(r)
<1> DEFINE entity == [kind |-> kind, owner |-> owner, data |-> data, by |-> r]
<1>1. entity.by = r /\ IsEntity(entity)
  BY DEF IsEntity
<1>2. entity.kind \notin {"FixedFee", "PartyExternalRating", "BundleInformation", "Loan",
                           "Party", "Facility", "Deal"}
  BY DEF PlainKinds
<1>3. IsPossible(acbs, workload.mdm, entity)
  BY <1>2 DEF IsPossible
<1>4. \A i \in DOMAIN acbs : AreDistinct(workload.serial, acbs[i], entity)
  BY <1>2 DEF AreDistinct
<1>5. acbs' = Append(acbs, entity)
  BY DEF Added
<1> HIDE DEF entity
<1> QED BY <1>1, <1>2, <1>3, <1>4, <1>5 DEF Wrote, IsAsAsked

\* In place of one it writes another that is the same thing.
LEMMA ReplacesInPlace ==
  ASSUME NEW r, NEW i \in DOMAIN acbs, NEW data, StoreOK, acbs' = Replaced(r, i, data),
         FieldsOf(acbs[i].kind) \subseteq DOMAIN data,
         acbs[i].kind \in Patches => Op(r) = PatchOp(acbs[i].kind),
         acbs[i].kind \notin {"BundleInformation", "FixedFee", "Party", "Deal"},
         LET entity == [kind |-> acbs[i].kind, owner |-> acbs[i].owner, data |-> data, by |-> r]
         IN  IsPossible(acbs, workload.mdm, entity) /\ IsSame(acbs[i], entity)
  PROVE  Wrote(r)
<1> DEFINE entity == [kind |-> acbs[i].kind, owner |-> acbs[i].owner, data |-> data, by |-> r]
<1>1. IsEntity(acbs[i])
  BY DEF StoreOK, IsStore
<1>2. acbs' = [acbs EXCEPT ![i] = entity]
  <2>1. [acbs[i] EXCEPT !.data = data, !.by = r] = entity
    BY <1>1, EntityExcept
  <2> QED BY <2>1 DEF Replaced
<1>3. entity.by = r /\ IsEntity(entity)
  BY DEF IsEntity
<1>4. IsPossible(acbs, workload.mdm, entity) /\ IsSame(acbs[i], entity)
  OBVIOUS
<1> HIDE DEF entity
<1> QED BY <1>2, <1>3, <1>4 DEF Wrote

-----------------------------------------------------------------------------
(* Deals.                                                                  *)

LEMMA DealCourses ==
  ASSUME NEW r, InCourse(r)
  PROVE  /\ pc[r] = "getDeal" => Op(r) = "GET/deals/<dealIdentifier>"
         /\ pc[r] \in {"createDeal", "restrictDeal"} => Op(r) = "POST/deals"
         /\ pc[r] = "createDealGuarantee" => Op(r) = "POST/deals/<dealIdentifier>/guarantees"
         /\ pc[r] = "getDealGuarantees" => Op(r) = "GET/deals/<dealIdentifier>/guarantees"
         /\ pc[r] = "createDealInvestor" => Op(r) = "POST/deals/<dealIdentifier>/investors"
         /\ pc[r] = "getDealInvestors" => Op(r) = "GET/deals/<dealIdentifier>/investors"
BY DEF InCourse, IsCourse, PartyCourse, DealCourse, FacilityCourse, FacilityPartCourse, LoanCourse

LEMMA DealAbsent ==
  ASSUME ControlOK, NEW r \in Requests, DealIndexes(DealIdentifier(r)) = {},
         Op(r) \in {"GET/deals/<dealIdentifier>", "POST/deals/<dealIdentifier>/guarantees",
                    "GET/deals/<dealIdentifier>/guarantees",
                    "POST/deals/<dealIdentifier>/investors",
                    "GET/deals/<dealIdentifier>/investors"}
  PROVE  Absent(r)
<1>1. "dealIdentifier" \in DOMAIN Params(r)
  BY ParamsAre DEF ParamNames
<1> QED BY <1>1 DEF Absent, DealIdentifier

LEMMA DealBeginnings ==
  ASSUME NEW r, pc[r] = "received", DealHandler(r)
  PROVE  \/ Begins(r, "GET/deals/<dealIdentifier>", "getDeal")
         \/ Begins(r, "POST/deals", "createDeal")
         \/ Begins(r, "POST/deals/<dealIdentifier>/guarantees", "createDealGuarantee")
         \/ Begins(r, "GET/deals/<dealIdentifier>/guarantees", "getDealGuarantees")
         \/ Begins(r, "POST/deals/<dealIdentifier>/investors", "createDealInvestor")
         \/ Begins(r, "GET/deals/<dealIdentifier>/investors", "getDealInvestors")
BY DEF DealHandler, GetDeal, ReceiveDeal, CreateDeal, UpdateBorrowingRestrictionForNewDeal,
       CreateGuaranteeForDeal, GetGuaranteesForDeal, CreateInvestorForDeal, GetDealInvestors,
       ValidatedItem, ValidatedItems, Validated, Begins

LEMMA DealBegins ==
  ASSUME ControlOK, NEW r \in Requests, UNCHANGED workload, pc[r] = "received", DealHandler(r)
  PROVE  Step(r)
BY DealBeginnings, BeginsUninformed DEF IsCourse, DealCourse, Informed

LEMMA GetDealStep ==
  ASSUME ControlOK, NEW r \in Requests, InCourse(r), UNCHANGED workload, GetDeal(r),
         pc[r] = "getDeal"
  PROVE  Step(r)
<1> DEFINE result == AcbsGetDealByIdentifier(DealIdentifier(r)).result
           call == GetCall({}, result)
<1>1. Op(r) = "GET/deals/<dealIdentifier>"
  BY DealCourses
<1>2. PICK data : \/ DealIndexes(DealIdentifier(r)) = {} /\ result = Null
                  \/ result = Ok(data)
  BY DEF AcbsGetDealByIdentifier, GetCall
<1>3. IsResult(result) /\ (IsMissing({}, result) => Absent(r))
  <2> HIDE DEF result
  <2>1. DealIndexes(DealIdentifier(r)) = {} => Absent(r)
    BY <1>1, DealAbsent
  <2>2. IsResult(result) /\ (IsMissing({}, result) => result = Null)
        /\ (result = Ok(data) => result # Null)
    BY <1>2, OkOrNull
  <2> QED BY <1>2, <2>1, <2>2
<1>4. Shows(r, call)
  BY DEF GetDeal, Receives, Get, Shows, IsGiven, AcbsGetDealByIdentifier, GetCall
<1>5. IsCall(call) /\ call.known = {} /\ call.result = result
  BY <1>3, GetCalls
<1> HIDE DEF call
<1> QED BY <1>1, <1>3, <1>4, <1>5, ShowsStep DEF Calls

LEMMA GetGuaranteesForDealStep ==
  ASSUME ControlOK, NEW r \in Requests, InCourse(r), UNCHANGED workload, GetGuaranteesForDeal(r),
         pc[r] = "getDealGuarantees"
  PROVE  Step(r)
<1> DEFINE exists == DealIndexes(DealIdentifier(r)) # {}
           data == DataOf("DealGuarantee", DealIdentifier(r))
           result == IfDealExists(DealIdentifier(r), Ok(data))
<1>1. Op(r) = "GET/deals/<dealIdentifier>/guarantees"
  BY DealCourses
<1>2. AnswersIf(exists, result, data, "DealNotFound")
  BY DEF AnswersIf, IfDealExists
<1>3. Shows(r, GetCall({"DealNotFound"}, result))
  BY DEF GetGuaranteesForDeal, Receives, Get, Shows, IsGiven, AcbsGetGuaranteesForDeal
<1>4. ~exists => Absent(r)
  BY <1>1, DealAbsent
<1> HIDE DEF exists, data, result
<1> QED BY <1>1, <1>2, <1>3, <1>4, ShowsIf, KnownTexts DEF Calls

LEMMA GetDealInvestorsStep ==
  ASSUME ControlOK, NEW r \in Requests, InCourse(r), UNCHANGED workload, GetDealInvestors(r),
         pc[r] = "getDealInvestors"
  PROVE  Step(r)
<1> DEFINE data == DataOf("DealParty", DealIdentifier(r))
           result == AcbsGetDealPartiesForDeal(DealIdentifier(r)).result
           call == GetCall({}, result)
<1>1. Op(r) = "GET/deals/<dealIdentifier>/investors"
  BY DealCourses
<1>2. \/ DealIndexes(DealIdentifier(r)) = {} /\ result = Null
      \/ result = Ok(data)
  BY DEF AcbsGetDealPartiesForDeal, GetCall
<1>3. Shows(r, call)
  BY DEF GetDealInvestors, Receives, Get, Shows, IsGiven, AcbsGetDealPartiesForDeal, GetCall
<1>4. DealIndexes(DealIdentifier(r)) = {} => Absent(r)
  BY <1>1, DealAbsent
<1> HIDE DEF data, result
<1>5. IsResult(result) /\ (IsMissing({}, result) => result = Null)
        /\ (result = Ok(data) => result # Null)
  BY <1>2, OkOrNull
<1>6. IsCall(call) /\ call.known = {} /\ call.result = result
  BY <1>5, GetCalls
<1> HIDE DEF call
<1> QED BY <1>1, <1>2, <1>3, <1>4, <1>5, <1>6, ShowsStep DEF Calls

LEMMA CreateGuaranteeForDealStep ==
  ASSUME ControlOK, NEW r \in Requests, InCourse(r), UNCHANGED workload, CreateGuaranteeForDeal(r),
         pc[r] = "createDealGuarantee"
  PROVE  Step(r)
<1> DEFINE exists == DealIndexes(DealIdentifier(r)) # {}
           guarantee == DealGuaranteeToCreateInAcbs(Body(r)[1])
           data == Added(r, "DealGuarantee", DealIdentifier(r), guarantee)
           result == IfDealExists(DealIdentifier(r), Ok(data))
           body == [dealIdentifier |-> DealIdentifier(r)]
<1>1. Op(r) = "POST/deals/<dealIdentifier>/guarantees"
  BY DealCourses
<1>2. AnswersIf(exists, result, data, "DealNotFound")
  BY DEF AnswersIf, IfDealExists
<1>3. Posts(r, {"DealNotFound"}, result, 201, body)
  BY DEF CreateGuaranteeForDeal, Receives, AcbsCreateGuaranteeForDeal, Write, WriteOr, Posts,
         AnswerDeal
<1>4. ~exists => Absent(r)
  BY <1>1, DealAbsent
<1>5. acbs' = data => Wrote(r)
  BY AddsPlain DEF PlainKinds, FieldsOf
<1>6. Calls(r) /\ {"DealNotFound"} \subseteq DOMAIN KnownErrors
  BY KnownTexts DEF Calls
<1> HIDE DEF exists, data, result, body
<1> QED BY <1>1, <1>2, <1>3, <1>4, <1>5, <1>6, PostsIf

LEMMA CreateInvestorForDealStep ==
  ASSUME ControlOK, NEW r \in Requests, InCourse(r), UNCHANGED workload, CreateInvestorForDeal(r),
         pc[r] = "createDealInvestor"
  PROVE  Step(r)
<1> DEFINE exists == DealIndexes(DealIdentifier(r)) # {}
           investor == DealInvestorToCreateInAcbs(Body(r)[1])
           data == Added(r, "DealParty", DealIdentifier(r), investor)
           result == IfDealExists(DealIdentifier(r), Ok(data))
           body == [dealIdentifier |-> DealIdentifier(r)]
<1>1. Op(r) = "POST/deals/<dealIdentifier>/investors"
  BY DealCourses
<1>2. AnswersIf(exists, result, data, "DealNotFound")
  BY DEF AnswersIf, IfDealExists
<1>3. Posts(r, {"DealNotFound"}, result, 201, body)
  BY DEF CreateInvestorForDeal, Receives, AcbsCreateInvestorForDeal, Write, WriteOr, Posts,
         AnswerDeal
<1>4. ~exists => Absent(r)
  BY <1>1, DealAbsent
<1>5. acbs' = data => Wrote(r)
  BY AddsPlain DEF PlainKinds, FieldsOf
<1>6. Calls(r) /\ {"DealNotFound"} \subseteq DOMAIN KnownErrors
  BY KnownTexts DEF Calls
<1> HIDE DEF exists, data, result, body
<1> QED BY <1>1, <1>2, <1>3, <1>4, <1>5, <1>6, PostsIf

\* ACBS has no other deal of the identifier of one that is created.
LEMMA AddsDeal ==
  ASSUME StoreOK, NEW r, NEW data, DealIndexes(data.DealIdentifier) = {},
         acbs' = Added(r, "Deal", GLOBAL.portfolioIdentifier, data)
  PROVE  Wrote(r)
<1> DEFINE entity == [kind |-> "Deal", owner |-> GLOBAL.portfolioIdentifier, data |-> data,
                      by |-> r]
<1>1. entity.by = r /\ IsEntity(entity) /\ entity.kind \notin {"BundleInformation", "FixedFee"}
  BY DEF IsEntity, FieldsOf
<1>2. IsPossible(acbs, workload.mdm, entity)
  BY DEF IsPossible
<1>3. \A i \in DOMAIN acbs : AreDistinct(workload.serial, acbs[i], entity)
  BY DEF AreDistinct, DealIndexes, Indexes
<1>4. acbs' = Append(acbs, entity)
  BY DEF Added
<1> HIDE DEF entity
<1> QED BY <1>1, <1>2, <1>3, <1>4 DEF Wrote, IsAsAsked

\* The deal is created first.
LEMMA CreateDealStep ==
  ASSUME ControlOK, StoreOK, NEW r \in Requests, InCourse(r), UNCHANGED workload, CreateDeal(r)
  PROVE  Step(r)
<1> DEFINE deal == BuildAcbsRequestBodyToCreateDeal(Body(r)[1])
           isNew == DealIndexes(deal.DealIdentifier) = {}
           data == Added(r, "Deal", GLOBAL.portfolioIdentifier, deal)
           result == IF isNew THEN Ok(data) ELSE Refusal("other")
<1>1. pc[r] = "createDeal" /\ Op(r) = "POST/deals"
  BY DealCourses DEF CreateDeal
<1>2. AnswersIf(isNew, result, data, "other")
  BY DEF AnswersIf
<1>3. PICK outcome \in WriteOutcomes(result) :
        /\ acbs' = outcome[2]
        /\ IF outcome[1].status = 200 THEN Goto(r, "restrictDeal", None)
           ELSE Throw(r, WrapAcbsHttpPostOrPutError({}, outcome[1]))
  BY DEF CreateDeal, AcbsCreateDeal, Write, WriteOr
<1>4. isNew /\ acbs' = data => Wrote(r)
  BY AddsDeal
<1> HIDE DEF isNew, data, result
<1>6. /\ IsResult(result) /\ result # Null /\ ~IsMissing({}, result)
      /\ result = Ok(acbs') => isNew /\ acbs' = data
  BY <1>2, OkIf
<1>7. CASE outcome[1].status # 200
  BY <1>1, <1>3, <1>4, <1>6, <1>7, WriteFails DEF Calls
<1>8. CASE outcome[1].status = 200
  <2>1. Wrote(r)
    BY <1>3, <1>4, <1>6, <1>8, WriteEnds
  <2>2. Frame(r) /\ pc'[r] = "restrictDeal"
    BY <1>1, <1>3, <1>8, GotoMoves
  <2>3. Lands(r)
    BY <1>1, <2>2, KnowsNothing DEF Lands, IsCourse, DealCourse, Informed
  <2> QED BY <2>1, <2>2, <2>3 DEF Step, WroteNothing
<1> QED BY <1>7, <1>8

\* Its restriction is added, or put in place of another.
LEMMA RestrictDealStep ==
  ASSUME ControlOK, StoreOK, NEW r \in Requests, InCourse(r), UNCHANGED workload,
         UpdateBorrowingRestrictionForNewDeal(r)
  PROVE  Step(r)
<1> DEFINE dealIdentifier == Body(r)[1].dealIdentifier
           restriction == BuildBorrowingRestrictionToUpdateInAcbs
           held == Indexes("BorrowingRestriction", dealIdentifier)
           added == Added(r, "BorrowingRestriction", dealIdentifier, restriction)
           index == CHOOSE i \in held : TRUE
           data == Restricted(r, dealIdentifier, restriction)
           exists == DealIndexes(dealIdentifier) # {}
           result == IfDealExists(dealIdentifier, Ok(data))
<1>1. pc[r] = "restrictDeal" /\ Op(r) = "POST/deals"
  BY DealCourses DEF UpdateBorrowingRestrictionForNewDeal
<1>2. AnswersIf(exists, result, data, "DealNotFound")
  BY DEF AnswersIf, IfDealExists
<1>3. PICK outcome \in WriteOutcomes(result) :
        /\ acbs' = outcome[2]
        /\ IF outcome[1].status = 200 THEN AnswerDeal(r, dealIdentifier)
           ELSE Throw(r, "InternalServerErrorException")
  BY DEF UpdateBorrowingRestrictionForNewDeal, AcbsUpdateBorrowingRestrictionForDeal, WriteOr
<1>4. ASSUME acbs' = data  PROVE Wrote(r) /\ held' # {}
  <2>1. CASE held = {}
    <3>1. acbs' = added
      BY <1>4, <2>1 DEF Restricted
    <3>2. Wrote(r)
      BY <3>1, AddsPlain DEF PlainKinds, FieldsOf
    <3>3. Len(acbs) + 1 \in DOMAIN acbs' /\ acbs'[Len(acbs) + 1] =
            [kind |-> "BorrowingRestriction", owner |-> dealIdentifier, data |-> restriction,
             by |-> r]
      BY <3>1, AddedToStore DEF StoreOK, IsStore, Added
    <3>4. Len(acbs) + 1 \in held'
      BY <3>3 DEF Indexes, Body
    <3> QED BY <3>2, <3>4
  <2>2. CASE held # {}
    <3>1. index \in DOMAIN acbs /\ acbs[index].kind = "BorrowingRestriction"
            /\ acbs[index].owner = dealIdentifier
      BY <2>2 DEF Indexes
    <3>2. acbs' = Replaced(r, index, restriction)
      BY <1>4, <2>2 DEF Restricted
    <3> HIDE DEF index
    <3>3. Wrote(r)
      BY <3>1, <3>2, ReplacesInPlace DEF FieldsOf, IsPossible, IsSame, Patches
    <3>4. index \in held'
      BY <3>1, <3>2 DEF Indexes, Replaced, Body
    <3> QED BY <3>3, <3>4
  <2> QED BY <2>1, <2>2
<1> HIDE DEF exists, data, result, held
<1>6. /\ IsResult(result) /\ result # Null
      /\ \A other : result = Ok(other) => other = data
  BY <1>2, OkIf
<1>7. acbs' = acbs \/ Wrote(r)
  BY <1>3, <1>4, <1>6, WriteEnds
<1>8. CASE outcome[1].status # 200
  <2>1. /\ Frame(r) /\ pc'[r] = "done"
        /\ answer'[r].status = HttpStatus("InternalServerErrorException")
    BY <1>1, <1>3, <1>8, ReplyEnds DEF Throw
  <2>2. answer'[r].status = 500
    BY <2>1 DEF HttpStatus
  <2>3. Fulfilled(r)'
    BY <2>1, <2>2 DEF Fulfilled, Created, Answered
  <2> QED BY <1>7, <2>1, <2>2, <2>3 DEF Step, Lands, WroteNothing
<1>9. CASE outcome[1].status = 200
  <2>1. Wrote(r) /\ held' # {}
    BY <1>3, <1>4, <1>6, <1>9, WriteEnds
  <2>2. Fulfilled(r)'
    BY <1>1, <2>1 DEF Fulfilled, Op, held, Body
  <2> QED BY <1>1, <1>3, <1>9, <2>1, <2>2, WriteAnswers DEF AnswerDeal, Calls
<1> QED BY <1>8, <1>9

LEMMA DealStep ==
  ASSUME ControlOK, StoreOK, NEW r \in Requests, InCourse(r), UNCHANGED workload, DealHandler(r)
  PROVE  Step(r)
<1>1. CASE pc[r] = "received"
  BY <1>1, DealBegins
<1>2. CASE pc[r] # "received"
  <2>1. CASE GetDeal(r)
    <3>1. pc[r] = "getDeal"
      BY <1>2, <2>1 DEF GetDeal, Receives
    <3> QED BY <2>1, <3>1, GetDealStep
  <2>2. CASE GetGuaranteesForDeal(r)
    <3>1. pc[r] = "getDealGuarantees"
      BY <1>2, <2>2 DEF GetGuaranteesForDeal, Receives
    <3> QED BY <2>2, <3>1, GetGuaranteesForDealStep
  <2>3. CASE GetDealInvestors(r)
    <3>1. pc[r] = "getDealInvestors"
      BY <1>2, <2>3 DEF GetDealInvestors, Receives
    <3> QED BY <2>3, <3>1, GetDealInvestorsStep
  <2>4. CASE CreateGuaranteeForDeal(r)
    <3>1. pc[r] = "createDealGuarantee"
      BY <1>2, <2>4 DEF CreateGuaranteeForDeal, Receives
    <3> QED BY <2>4, <3>1, CreateGuaranteeForDealStep
  <2>5. CASE CreateInvestorForDeal(r)
    <3>1. pc[r] = "createDealInvestor"
      BY <1>2, <2>5 DEF CreateInvestorForDeal, Receives
    <3> QED BY <2>5, <3>1, CreateInvestorForDealStep
  <2>6. CASE CreateDeal(r)
    BY <2>6, CreateDealStep
  <2>7. CASE UpdateBorrowingRestrictionForNewDeal(r)
    BY <2>7, RestrictDealStep
  <2>8. ~ReceiveDeal(r)
    BY <1>2 DEF ReceiveDeal, Receives
  <2> QED BY <2>1, <2>2, <2>3, <2>4, <2>5, <2>6, <2>7, <2>8 DEF DealHandler
<1> QED BY <1>1, <1>2

-----------------------------------------------------------------------------
(* Facilities.                                                             *)

LEMMA Merged ==
  ASSUME NEW f, NEW g
  PROVE  /\ DOMAIN (f ++ g) = DOMAIN f \cup DOMAIN g
         /\ \A x \in DOMAIN f : (f ++ g)[x] = f[x]
         /\ \A x \in DOMAIN g \ DOMAIN f : (f ++ g)[x] = g[x]
BY DEF ++

LEMMA CourseKnows ==
  ASSUME NEW r, InCourse(r), Calls(r)  PROVE Knows(r) /\ IsCourse(Op(r), pc[r])
BY DEF InCourse, Calls

LEMMA FacilityCourses ==
  ASSUME NEW r, InCourse(r)
  PROVE  /\ pc[r] = "getFacility" => Op(r) = "GET/facilities/<facilityIdentifier>"
         /\ pc[r] = "createFacility" => Op(r) = "POST/facilities"
         /\ pc[r] \in {"getFacilityToUpdate", "putFacility", "amendFacility"} =>
              Op(r) = "PUT/facilities/<facilityIdentifier>"
BY DEF InCourse, IsCourse, PartyCourse, DealCourse, FacilityCourse, FacilityPartCourse, LoanCourse

\* The operations whose path names a facility and nothing that belongs to it.
FacilityOps ==
    {"GET/facilities/<facilityIdentifier>", "PUT/facilities/<facilityIdentifier>",
     "POST/facilities/<facilityIdentifier>/covenants",
     "GET/facilities/<facilityIdentifier>/covenants",
     "PATCH/facilities/<facilityIdentifier>/covenants",
     "POST/facilities/<facilityIdentifier>/guarantees",
     "GET/facilities/<facilityIdentifier>/guarantees",
     "PATCH/facilities/<facilityIdentifier>/guarantees",
     "POST/facilities/<facilityIdentifier>/investors",
     "GET/facilities/<facilityIdentifier>/investors",
     "POST/facilities/<facilityIdentifier>/activation-transactions",
     "POST/facilities/<facilityIdentifier>/fixed-fees",
     "GET/facilities/<facilityIdentifier>/fixed-fees",
     "POST/facilities/<facilityIdentifier>/fixed-fees/amendments/amount",
     "GET/facilities/<facilityIdentifier>/loans",
     "POST/facilities/<facilityIdentifier>/loans"}

LEMMA FacilityAbsent ==
  ASSUME ControlOK, NEW r \in Requests, Op(r) \in FacilityOps,
         ~FacilityExists(FacilityIdentifier(r))
  PROVE  Absent(r)
<1>1. DOMAIN Params(r) \in {{"facilityIdentifier"}, {"facilityIdentifier", "op"}}
  BY ParamsAre DEF ParamNames, FacilityOps
<1>2. "facilityIdentifier" \in DOMAIN Params(r)
      /\ {"loanIdentifier", "bundleIdentifier"} \cap DOMAIN Params(r) = {}
  BY <1>1
<1> QED BY <1>2 DEF Absent, FacilityIdentifier

LEMMA FacilityBeginnings ==
  ASSUME NEW r, pc[r] = "received", FacilityHandler(r)
  PROVE  \/ Begins(r, "GET/facilities/<facilityIdentifier>", "getFacility")
         \/ Begins(r, "POST/facilities", "createFacility")
         \/ Begins(r, "PUT/facilities/<facilityIdentifier>", "getFacilityToUpdate")
BY DEF FacilityHandler, GetFacility, CreateFacility, ReceiveFacilityUpdate, GetFacilityToUpdate,
       UpdateFacility, AmendFacilityAmount, ValidatedItems, Validated, Begins

LEMMA FacilityBegins ==
  ASSUME ControlOK, NEW r \in Requests, UNCHANGED workload, pc[r] = "received",
         FacilityHandler(r)
  PROVE  Step(r)
BY FacilityBeginnings, BeginsUninformed DEF IsCourse, FacilityCourse, Informed

LEMMA GetFacilityStep ==
  ASSUME ControlOK, NEW r \in Requests, InCourse(r), UNCHANGED workload, GetFacility(r),
         pc[r] = "getFacility"
  PROVE  Step(r)
<1> DEFINE exists == FacilityExists(FacilityIdentifier(r))
           data == acbs[FacilityIndex(FacilityIdentifier(r))].data
           result == AcbsGetFacilityByIdentifier(FacilityIdentifier(r)).result
<1>1. Op(r) = "GET/facilities/<facilityIdentifier>"
  BY FacilityCourses
<1>2. AnswersIf(exists, result, data, "FacilityNotFound")
  BY DEF AnswersIf, AcbsGetFacilityByIdentifier, GetCall, FacilityExists
<1>3. Shows(r, GetCall({"FacilityNotFound"}, result))
  BY DEF GetFacility, Receives, Get, Shows, IsGiven, AcbsGetFacilityByIdentifier, GetCall
<1>4. ~exists => Absent(r)
  BY <1>1, FacilityAbsent DEF FacilityOps
<1> HIDE DEF exists, data, result
<1> QED BY <1>1, <1>2, <1>3, <1>4, ShowsIf, KnownTexts DEF Calls

\* ACBS has one facility of an identifier.
LEMMA OneFacility ==
  ASSUME StoreOK, NEW facilityIdentifier, NEW i \in FacilityIndexes(acbs, facilityIdentifier)
  PROVE  FacilityIndexes(acbs, facilityIdentifier) = {i}
<1>1. ASSUME NEW j \in FacilityIndexes(acbs, facilityIdentifier), j # i  PROVE FALSE
  <2>1. AreDistinct(workload.serial, acbs[i], acbs[j])
    BY <1>1 DEF StoreOK, IsStore, FacilityIndexes
  <2> QED BY <1>1, <2>1 DEF AreDistinct, FacilityIndexes
<1> QED BY <1>1

\* What a GET of a facility found is the facility.
LEMMA FacilityFound ==
  ASSUME StoreOK, NEW facilityIdentifier, NEW facility, 
         AcbsGetFacilityByIdentifier(facilityIdentifier).result = Ok(facility)
  PROVE  \E i \in DOMAIN acbs :
            /\ FacilityIndexes(acbs, facilityIdentifier) = {i}
            /\ FacilityExists(facilityIdentifier)
            /\ acbs[i].data = facility
            /\ facility.FacilityIdentifier = facilityIdentifier
<1> DEFINE i == FacilityIndex(facilityIdentifier)
<1>1. AnswersIf(FacilityExists(facilityIdentifier),
                AcbsGetFacilityByIdentifier(facilityIdentifier).result, acbs[i].data,
                "FacilityNotFound")
  BY DEF AnswersIf, AcbsGetFacilityByIdentifier, GetCall, FacilityExists
<1>2. FacilityExists(facilityIdentifier) /\ acbs[i].data = facility
  BY <1>1, OkIf
<1>3. i \in FacilityIndexes(acbs, facilityIdentifier)
  BY <1>2 DEF FacilityExists, FacilityIndex
<1>4. FacilityIndexes(acbs, facilityIdentifier) = {i}
  BY <1>3, OneFacility
<1> QED BY <1>2, <1>3, <1>4 DEF FacilityIndexes

LEMMA GetsFacility ==
  ASSUME NEW facilityIdentifier
  PROVE  LET call == AcbsGetFacilityByIdentifier(facilityIdentifier)
         IN  /\ IsCall(call)
             /\ IsMissing(call.known, call.result) => ~FacilityExists(facilityIdentifier)
<1> DEFINE exists == FacilityExists(facilityIdentifier)
           data == acbs[FacilityIndex(facilityIdentifier)].data
           result == IF exists THEN Ok(data) ELSE Refusal("FacilityNotFound")
<1>1. AcbsGetFacilityByIdentifier(facilityIdentifier) = GetCall({"FacilityNotFound"}, result)
  BY DEF AcbsGetFacilityByIdentifier
<1>2. AnswersIf(exists, result, data, "FacilityNotFound")
  BY DEF AnswersIf, FacilityExists
<1> HIDE DEF exists, data, result
<1>3. IsResult(result) /\ (\A known : IsMissing(known, result) => ~exists)
  BY <1>2, OkIf
<1>4. /\ IsCall(GetCall({"FacilityNotFound"}, result))
      /\ GetCall({"FacilityNotFound"}, result).result = result
  BY <1>3, GetCalls, KnownTexts
<1> QED BY <1>1, <1>3, <1>4 DEF exists

\* ACBS has no other facility of the identifier of one that is created.
LEMMA AddsFacility ==
  ASSUME StoreOK, NEW r, NEW owner, NEW facilityIdentifier, NEW data,
         ~FacilityExists(facilityIdentifier), FieldsOf("Facility") \subseteq DOMAIN data,
         data.FacilityIdentifier = facilityIdentifier, acbs' = Added(r, "Facility", owner, data)
  PROVE  Wrote(r)
<1> DEFINE entity == [kind |-> "Facility", owner |-> owner, data |-> data, by |-> r]
<1>1. entity.by = r /\ IsEntity(entity) /\ entity.kind \notin {"BundleInformation", "FixedFee"}
  BY DEF IsEntity
<1>2. IsPossible(acbs, workload.mdm, entity)
  BY DEF IsPossible
<1>3. \A i \in DOMAIN acbs : AreDistinct(workload.serial, acbs[i], entity)
  BY DEF AreDistinct, FacilityExists, FacilityIndexes
<1>4. acbs' = Append(acbs, entity)
  BY DEF Added
<1> HIDE DEF entity
<1> QED BY <1>1, <1>2, <1>3, <1>4 DEF Wrote, IsAsAsked

LEMMA CreateFacilityStep ==
  ASSUME ControlOK, StoreOK, NEW r \in Requests, InCourse(r), UNCHANGED workload,
         CreateFacility(r), pc[r] = "createFacility"
  PROVE  Step(r)
<1> DEFINE facilityIdentifier == Body(r)[1].facilityIdentifier
           isNew == ~FacilityExists(facilityIdentifier)
           status == [FacilityIdentifier |-> facilityIdentifier,
                      FacilityStatusCode |-> FACILITY_STATUSES.PENDING]
           known == {}
           facility == status ++ BuildCreateAcbsFacilityRequest(Body(r)[1])
           data == Added(r, "Facility", None, facility)
           result == IF FacilityExists(facilityIdentifier) THEN Refusal("other") ELSE Ok(data)
           body == [facilityIdentifier |-> facilityIdentifier]
<1>1. Op(r) = "POST/facilities"
  BY FacilityCourses
<1>2. AnswersIf(isNew, result, data, "other")
  BY DEF AnswersIf, FacilityExists
<1>3. Posts(r, known, result, 201, body)
  BY DEF CreateFacility, Receives, AcbsCreateFacility, Write, WriteOr, Posts
<1>4. FieldsOf("Facility") \subseteq DOMAIN facility
      /\ facility.FacilityIdentifier = facilityIdentifier
  <2>1. DOMAIN status = {"FacilityIdentifier", "FacilityStatusCode"}
        /\ status.FacilityIdentifier = facilityIdentifier
    OBVIOUS
  <2> HIDE DEF status
  <2>2. DOMAIN status \subseteq DOMAIN facility
        /\ (\A x \in DOMAIN status : facility[x] = status[x])
    BY Merged
  <2> HIDE DEF facility
  <2> QED BY <2>1, <2>2 DEF FieldsOf
<1> HIDE DEF facility
<1>5. isNew /\ acbs' = data => Wrote(r)
  BY <1>4, AddsFacility
<1>6. Calls(r) /\ known \subseteq DOMAIN KnownErrors /\ "other" \notin known
  BY DEF Calls
<1> HIDE DEF known, isNew, data, result, body
<1> QED BY <1>1, <1>2, <1>3, <1>5, <1>6, PostsIf

LEMMA GetFacilityToUpdateStep ==
  ASSUME ControlOK, StoreOK, NEW r \in Requests, InCourse(r), UNCHANGED workload,
         GetFacilityToUpdate(r)
  PROVE  Step(r)
<1> DEFINE exists == FacilityExists(FacilityIdentifier(r))
           call == AcbsGetFacilityByIdentifier(FacilityIdentifier(r))
           next == IF Params(r).op = "amendAmount" THEN "amendFacility" ELSE "putFacility"
<1>1. pc[r] = "getFacilityToUpdate" /\ Op(r) = "PUT/facilities/<facilityIdentifier>"
  BY FacilityCourses DEF GetFacilityToUpdate
<1>2. PICK outcome \in GetOutcomes(call) :
        /\ UNCHANGED acbs
        /\ IF IsGiven(outcome[1]) THEN Goto(r, next, outcome[1].data)
           ELSE Throw(r, GetException(call, outcome[1]))
  BY DEF GetFacilityToUpdate, Get, IsGiven
<1>3. IsCall(call) /\ (IsMissing(call.known, call.result) => ~exists)
  BY GetsFacility
<1>4. ~exists => Absent(r)
  BY <1>1, FacilityAbsent DEF FacilityOps
<1>5. CASE ~IsGiven(outcome[1])
  BY <1>1, <1>2, <1>3, <1>4, <1>5, GetFails DEF Calls
<1>6. CASE IsGiven(outcome[1])
  <2>1. outcome[1].data.FacilityIdentifier = FacilityIdentifier(r)
    BY <1>2, <1>3, <1>6, GetEnds, FacilityFound
  <2>2. Goto(r, next, outcome[1].data)
    BY <1>2, <1>6
  <2>3. pc'[r] = next /\ local'[r] = outcome[1].data
    BY <1>1, <2>2, GotoMoves
  <2>4. Knows(r)'
    BY <2>1, <2>3
       DEF Knows, KnowsParty, KnowsFacility, KnowsParts, KnowsLoan, FacilityIdentifier, Params
  <2>5. IsCourse(Op(r), next)
    BY <1>1 DEF IsCourse, FacilityCourse
  <2> QED BY <1>1, <1>2, <2>2, <2>4, <2>5, MovesStep
<1> QED BY <1>5, <1>6

\* ACBS keeps the identifier and the status of a facility that is put back.
LEMMA UpdateFacilityStep ==
  ASSUME ControlOK, StoreOK, NEW r \in Requests, InCourse(r), UNCHANGED workload,
         UpdateFacility(r)
  PROVE  Step(r)
<1> DEFINE facilityIdentifier == FacilityIdentifier(r)
           exists == FacilityExists(facilityIdentifier)
           i == FacilityIndex(facilityIdentifier)
           kept == [FacilityIdentifier |-> facilityIdentifier,
                    FacilityStatusCode |-> acbs[i].data.FacilityStatusCode]
           facility == kept ++ BuildAcbsUpdateFacilityRequest(Body(r), facilityIdentifier, local[r])
           data == Replaced(r, i, facility)
           result == IfFacilityExists(facilityIdentifier, "FacilityNotFound", Ok(data))
           body == [facilityIdentifier |-> facilityIdentifier]
<1>1. pc[r] = "putFacility" /\ Op(r) = "PUT/facilities/<facilityIdentifier>"
  BY FacilityCourses DEF UpdateFacility
<1>2. AnswersIf(exists, result, data, "FacilityNotFound")
  BY DEF AnswersIf, IfFacilityExists, FacilityExists
<1>3. Posts(r, {"FacilityNotFound"}, result, 200, body)
  BY DEF UpdateFacility, AcbsUpdateFacilityByIdentifier, Write, WriteOr, Posts
<1>4. ~exists => Absent(r)
  BY <1>1, FacilityAbsent DEF FacilityOps
<1>5. ASSUME exists, acbs' = data  PROVE Wrote(r)
  <2>1. i \in FacilityIndexes(acbs, facilityIdentifier)
    BY <1>5 DEF FacilityExists, FacilityIndex
  <2>2. i \in DOMAIN acbs /\ acbs[i].kind = "Facility"
        /\ acbs[i].data.FacilityIdentifier = facilityIdentifier
    BY <2>1 DEF FacilityIndexes
  <2> HIDE DEF i
  <2>3. DOMAIN kept = {"FacilityIdentifier", "FacilityStatusCode"}
        /\ kept.FacilityIdentifier = acbs[i].data.FacilityIdentifier
        /\ kept.FacilityStatusCode = acbs[i].data.FacilityStatusCode
    BY <2>2
  <2> HIDE DEF kept
  <2>4. DOMAIN kept \subseteq DOMAIN facility
        /\ (\A x \in DOMAIN kept : facility[x] = kept[x])
    BY Merged
  <2> HIDE DEF facility
  <2>5. FieldsOf("Facility") \subseteq DOMAIN facility
        /\ facility.FacilityIdentifier = acbs[i].data.FacilityIdentifier
        /\ facility.FacilityStatusCode = acbs[i].data.FacilityStatusCode
    BY <2>3, <2>4 DEF FieldsOf
  <2> QED BY <1>5, <2>2, <2>5, ReplacesInPlace DEF IsPossible, IsSame, Patches
<1>6. Calls(r) /\ {"FacilityNotFound"} \subseteq DOMAIN KnownErrors
  BY <1>1, KnownTexts DEF Calls
<1> HIDE DEF exists, data, result, body
<1> QED BY <1>1, <1>2, <1>3, <1>4, <1>5, <1>6, PostsIf

\* What every handler that asks for a bundle does: it is accepted with
\* messages that are possible, or refused for what one of them is about.
IsBundle(r, bundle) ==
    LET entity == [kind |-> "BundleInformation", owner |-> None, data |-> bundle, by |-> r]
    IN  /\ FieldsOf("BundleInformation") \subseteq DOMAIN bundle
        /\ IsPossible(acbs, workload.mdm, entity)
        /\ IsAsAsked(r, entity)

LEMMA BundleStep ==
  ASSUME ControlOK, StoreOK, NEW r \in Requests, UNCHANGED workload,
         Calls(r), pc[r] # "restrictDeal", Op(r) # "POST/deals", Op(r) # "POST/parties",
         NEW status \in {200, 201}, NEW bundle, IsBundle(r, bundle),
         (\E message \in Range(bundle.BundleMessageList) : Refused(message)) => Absent(r),
         CreateBundleInformation(r, status, bundle)
  PROVE  Step(r)
<1> DEFINE known == KnownErrorsForAction(bundle.BundleMessageList[1])
           text == KnownErrorForAction(bundle.BundleMessageList[1])
           accepted == \A message \in Range(bundle.BundleMessageList) : ~Refused(message)
           data == Added(r, "BundleInformation", None, bundle)
           result == IF \E message \in Range(bundle.BundleMessageList) : Refused(message)
                     THEN Refusal(text) ELSE Ok(data)
           body == [bundleIdentifier |-> Len(acbs) + 1]
<1>1. AnswersIf(accepted, result, data, text)
  BY DEF AnswersIf
<1>2. Posts(r, known, result, status, body)
  BY DEF CreateBundleInformation, Write, WriteOr, Posts
<1>3. known \subseteq DOMAIN KnownErrors
  BY KnownTexts DEF KnownErrorsForAction, KnownErrorForAction
<1>4. ~accepted => Absent(r)
  OBVIOUS
<1>5. ASSUME acbs' = data  PROVE Wrote(r)
  <2> DEFINE entity == [kind |-> "BundleInformation", owner |-> None, data |-> bundle, by |-> r]
  <2>1. entity.by = r /\ IsEntity(entity)
    BY DEF IsEntity, IsBundle
  <2>2. IsPossible(acbs, workload.mdm, entity) /\ IsAsAsked(r, entity)
    BY DEF IsBundle
  <2>3. \A i \in DOMAIN acbs : AreDistinct(workload.serial, acbs[i], entity)
    BY DEF AreDistinct
  <2>4. acbs' = Append(acbs, entity)
    BY <1>5 DEF Added
  <2>5. pc'[r] = "done"
    BY <1>2, PostsEnd
  <2> HIDE DEF entity
  <2> QED BY <2>1, <2>2, <2>3, <2>4, <2>5 DEF Wrote
<1> HIDE DEF known, text, accepted, data, result, body
<1>6. /\ IsResult(result) /\ result # Null
      /\ result = Ok(acbs') => acbs' = data
      /\ IsMissing(known, result) => ~accepted
  BY <1>1, OkIf
<1> QED BY <1>2, <1>3, <1>4, <1>5, <1>6, PostsStep

\* A bundle of one message, which is about a facility or a loan.
LEMMA OneMessage ==
  ASSUME NEW r, Op(r) # AmendFeesOp, NEW initialBundleStatusCode, NEW postingDate, NEW message,
         message.type # "FacilityFeeAmountTransaction",
         IsFacilityCodeValueTransaction(message) =>
             message.FacilityTransactionCodeValueCode = FACILITY_STATUSES.ACTIVE,
         IsNewLoanRequest(message) =>
             FieldsOf("Loan") \subseteq DOMAIN message /\ MaturesOnADate(message)
  PROVE  LET bundle == BundleInformation(initialBundleStatusCode, postingDate, <<message>>)
         IN  IsBundle(r, bundle) /\ Range(bundle.BundleMessageList) = {message}
<1> DEFINE bundle == BundleInformation(initialBundleStatusCode, postingDate, <<message>>)
<1>1. bundle.BundleMessageList = <<message>>
      /\ {"BundleStatusCode", "BundleMessageList"} \subseteq DOMAIN bundle
  BY DEF BundleInformation
<1>2. 1 \in DOMAIN <<message>> /\ (\A k \in DOMAIN <<message>> : <<message>>[k] = message)
      /\ Range(<<message>>) = {message}
  BY DEF Range
<1> HIDE DEF bundle
<1>3. FieldsOf("BundleInformation") \subseteq DOMAIN bundle
  BY <1>1 DEF FieldsOf
<1> DEFINE entity == [kind |-> "BundleInformation", owner |-> None, data |-> bundle, by |-> r]
<1>4. IsPossible(acbs, workload.mdm, entity)
  BY <1>1, <1>2 DEF IsPossible
<1>5. IsAsAsked(r, entity)
  BY <1>1, <1>2 DEF IsAsAsked
<1> QED BY <1>1, <1>2, <1>3, <1>4, <1>5 DEF IsBundle, bundle

LEMMA AmendFacilityAmountStep ==
  ASSUME ControlOK, StoreOK, NEW r \in Requests, InCourse(r), UNCHANGED workload,
         AmendFacilityAmount(r)
  PROVE  Step(r)
<1> DEFINE message == BuildAmendFacilityAmountMessage(Body(r), local[r])
           bundle == BundleInformation(FACILITY_AMOUNT_TRANSACTION.initialBundleStatusCode, None,
                                       <<message>>)
<1>1. pc[r] = "amendFacility" /\ Op(r) = "PUT/facilities/<facilityIdentifier>" /\ Calls(r)
  BY FacilityCourses DEF AmendFacilityAmount, Calls
<1>2. CreateBundleInformation(r, 200, bundle)
  BY DEF AmendFacilityAmount
<1>3. message.type = "FacilityAmountTransaction"
      /\ message.FacilityIdentifier = local[r].FacilityIdentifier
  BY DEF BuildAmendFacilityAmountMessage
<1>4. local[r].FacilityIdentifier = FacilityIdentifier(r)
  BY <1>1, CourseKnows DEF Knows, KnowsFacility
<1>5. Refused(message) => Absent(r)
  BY <1>1, <1>3, <1>4, FacilityAbsent DEF Refused, IsLoanAdvanceTransaction, FacilityOps
<1> HIDE DEF message
<1>6. IsBundle(r, bundle) /\ Range(bundle.BundleMessageList) = {message}
  BY <1>1, <1>3, OneMessage
     DEF IsFacilityCodeValueTransaction, IsNewLoanRequest, AmendFeesOp
<1> HIDE DEF bundle
<1> QED BY <1>1, <1>2, <1>5, <1>6, BundleStep

LEMMA FacilityStep ==
  ASSUME ControlOK, StoreOK, NEW r \in Requests, InCourse(r), UNCHANGED workload,
         FacilityHandler(r)
  PROVE  Step(r)
<1>1. CASE pc[r] = "received"
  BY <1>1, FacilityBegins
<1>2. CASE pc[r] # "received"
  <2>1. CASE GetFacility(r)
    <3>1. pc[r] = "getFacility"
      BY <1>2, <2>1 DEF GetFacility, Receives
    <3> QED BY <2>1, <3>1, GetFacilityStep
  <2>2. CASE CreateFacility(r)
    <3>1. pc[r] = "createFacility"
      BY <1>2, <2>2 DEF CreateFacility, Receives
    <3> QED BY <2>2, <3>1, CreateFacilityStep
  <2>3. ~ReceiveFacilityUpdate(r)
    BY <1>2 DEF ReceiveFacilityUpdate, Receives
  <2> QED BY <2>1, <2>2, <2>3, GetFacilityToUpdateStep, UpdateFacilityStep,
             AmendFacilityAmountStep DEF FacilityHandler
<1> QED BY <1>1, <1>2

-----------------------------------------------------------------------------
(* The parts of a facility.                                                *)

\* A step of a request keeps what the store holds.
LEMMA WroteKeeps ==
  ASSUME StoreOK, NEW r, UNCHANGED workload, acbs' = acbs \/ Wrote(r)
  PROVE  /\ StoreOK'
         /\ Keeps(acbs, acbs')
         /\ \A i \in DOMAIN acbs' : acbs'[i].by = r \/ (i \in DOMAIN acbs /\ acbs'[i] = acbs[i])
<1>1. CASE acbs' = acbs
  BY <1>1, KeepsItself DEF StoreOK
<1>2. CASE Wrote(r)
  <2>1. PICK entity :
          /\ entity.by = r
          /\ IsEntity(entity)
          /\ IsPossible(acbs, workload.mdm, entity)
          /\ \/ /\ acbs' = Append(acbs, entity)
                /\ \A i \in DOMAIN acbs : AreDistinct(workload.serial, acbs[i], entity)
             \/ \E i \in DOMAIN acbs :
                   acbs' = [acbs EXCEPT ![i] = entity] /\ IsSame(acbs[i], entity)
    BY <1>2 DEF Wrote
  <2>2. CASE acbs' = Append(acbs, entity)
             /\ \A i \in DOMAIN acbs : AreDistinct(workload.serial, acbs[i], entity)
    <3>1. /\ IsStore(acbs', workload.mdm, workload.serial)
          /\ Keeps(acbs, acbs')
          /\ DOMAIN acbs' = DOMAIN acbs \cup {Len(acbs) + 1}
          /\ acbs'[Len(acbs) + 1] = entity
          /\ \A i \in DOMAIN acbs : acbs'[i] = acbs[i]
      BY <2>1, <2>2, AddedToStore DEF StoreOK
    <3> QED BY <2>1, <3>1 DEF StoreOK
  <2>3. ASSUME NEW i \in DOMAIN acbs, acbs' = [acbs EXCEPT ![i] = entity], IsSame(acbs[i], entity)
        PROVE  /\ StoreOK'
               /\ Keeps(acbs, acbs')
               /\ \A j \in DOMAIN acbs' :
                     acbs'[j].by = r \/ (j \in DOMAIN acbs /\ acbs'[j] = acbs[j])
    <3>1. IsStore(acbs', workload.mdm, workload.serial) /\ Keeps(acbs, acbs')
      BY <2>1, <2>3, ReplacedInStore DEF StoreOK
    <3>2. \A j \in DOMAIN acbs' : IF j = i THEN acbs'[j] = entity
                                  ELSE j \in DOMAIN acbs /\ acbs'[j] = acbs[j]
      BY <2>3
    <3> QED BY <2>1, <3>1, <3>2 DEF StoreOK
  <2> QED BY <2>1, <2>2, <2>3
<1> QED BY <1>1, <1>2

LEMMA SetAsASequence ==
  ASSUME NEW S, IsFiniteSet(S)
  PROVE  /\ SetToSeq(S) \in Seq(S)
         /\ SetToSeq(S) = <<>> => S = {}
<1> DEFINE n == Cardinality(S)
<1>1. n \in Nat /\ ExistsBijection(1..n, S)
  BY FS_CardinalityType
<1>2. PICK f : f \in [1..n -> S] /\ IsInjective(f)
  BY <1>1 DEF ExistsBijection, Bijection, Injection
<1>3. SetToSeq(S) \in [1..n -> S]
  <2>1. \E g \in [1..n -> S] : IsInjective(g)
    BY <1>2
  <2> HIDE DEF n
  <2> QED BY <2>1 DEF SetToSeq, n
<1>4. SetToSeq(S) \in Seq(S)
  BY <1>1, <1>3, SeqDef
<1>5. ASSUME SetToSeq(S) = <<>>  PROVE S = {}
  <2>1. DOMAIN SetToSeq(S) = 1..n
    BY <1>3
  <2>2. DOMAIN SetToSeq(S) = {}
    BY <1>5
  <2>3. n = 0
    BY <1>1, <2>1, <2>2
  <2> QED BY <2>3, FS_EmptySet
<1> QED BY <1>4, <1>5

\* What ACBS answers with for all of a kind is what it has of that kind.
LEMMA DataFound ==
  ASSUME StoreOK, NEW kind, NEW owner
  PROVE  LET parts == DataOf(kind, owner)
         IN  /\ parts \in Seq(Range(parts))
             /\ \A k \in DOMAIN parts : \E i \in Indexes(kind, owner) : parts[k] = acbs[i].data
             /\ parts = <<>> => Indexes(kind, owner) = {}
<1> DEFINE S == Indexes(kind, owner)
           found == SetToSeq(S)
           parts == [i \in DOMAIN found |-> acbs[found[i]].data]
<1>1. DOMAIN acbs = 1..Len(acbs) /\ Len(acbs) \in Nat
  BY IsASequence DEF StoreOK, IsStore
<1>2. IsFiniteSet(DOMAIN acbs) /\ S \in SUBSET DOMAIN acbs
  BY <1>1, FS_Interval DEF Indexes
<1>3. IsFiniteSet(S)
  BY <1>2, FS_Subset
<1>4. DataOf(kind, owner) = parts
  BY DEF DataOf
<1> HIDE DEF S
<1>5. found \in Seq(S) /\ (found = <<>> => S = {})
  BY <1>3, SetAsASequence
<1> HIDE DEF found
<1>6. Len(found) \in Nat /\ DOMAIN found = 1..Len(found) /\ \A k \in DOMAIN found : found[k] \in S
  BY <1>5
<1>7. parts \in Seq(Range(parts))
  BY <1>6, AFunctionIsASequence
<1>8. parts = <<>> => S = {}
  <2>1. ASSUME parts = <<>>  PROVE S = {}
    <3>1. DOMAIN parts = {}
      BY <2>1
    <3>2. 1..Len(found) = {}
      BY <1>6, <3>1
    <3>3. Len(found) = 0
      BY <1>6, <3>2
    <3>4. found = <<>>
      BY <1>5, <3>3, EmptySeq
    <3> QED BY <1>5, <3>4
  <2> QED BY <2>1
<1> QED BY <1>4, <1>6, <1>7, <1>8 DEF S

LEMMA FacilityPartCourses ==
  ASSUME NEW r, InCourse(r)
  PROVE  /\ pc[r] \in {"getFacilityOfCovenant", "createCovenant"} =>
              Op(r) = "POST/facilities/<facilityIdentifier>/covenants"
         /\ pc[r] = "getCovenants" => Op(r) = "GET/facilities/<facilityIdentifier>/covenants"
         /\ pc[r] \in {"getCovenantsToUpdate", "putCovenant"} =>
              Op(r) = "PATCH/facilities/<facilityIdentifier>/covenants"
         /\ pc[r] = "createFacilityGuarantee" =>
              Op(r) = "POST/facilities/<facilityIdentifier>/guarantees"
         /\ pc[r] = "getFacilityGuarantees" =>
              Op(r) = "GET/facilities/<facilityIdentifier>/guarantees"
         /\ pc[r] \in {"getGuaranteesToUpdate", "putGuarantee"} =>
              Op(r) = "PATCH/facilities/<facilityIdentifier>/guarantees"
         /\ pc[r] = "createFacilityInvestor" =>
              Op(r) = "POST/facilities/<facilityIdentifier>/investors"
         /\ pc[r] = "getFacilityInvestors" =>
              Op(r) = "GET/facilities/<facilityIdentifier>/investors"
BY DEF InCourse, IsCourse, PartyCourse, DealCourse, FacilityCourse, FacilityPartCourse, LoanCourse

LEMMA FacilityPartBeginnings ==
  ASSUME NEW r, pc[r] = "received", FacilityPartHandler(r)
  PROVE  \/ Begins(r, "POST/facilities/<facilityIdentifier>/covenants", "getFacilityOfCovenant")
         \/ Begins(r, "GET/facilities/<facilityIdentifier>/covenants", "getCovenants")
         \/ Begins(r, "PATCH/facilities/<facilityIdentifier>/covenants", "getCovenantsToUpdate")
         \/ Begins(r, "POST/facilities/<facilityIdentifier>/guarantees", "createFacilityGuarantee")
         \/ Begins(r, "GET/facilities/<facilityIdentifier>/guarantees", "getFacilityGuarantees")
         \/ Begins(r, "PATCH/facilities/<facilityIdentifier>/guarantees", "getGuaranteesToUpdate")
         \/ Begins(r, "POST/facilities/<facilityIdentifier>/investors", "createFacilityInvestor")
         \/ Begins(r, "GET/facilities/<facilityIdentifier>/investors", "getFacilityInvestors")
BY DEF FacilityPartHandler, CreateCovenantForFacility, GetCovenantsForFacility,
       UpdateCovenantsForFacility, CreateGuaranteeForFacility, GetGuaranteesForFacility,
       UpdateGuaranteesForFacility, CreateInvestorForFacility, GetInvestorsForFacility,
       ReceivesFor, ReceivesArrayFor, ReceivesItemFor, ValidatedItem, ValidatedItems, Validated,
       Begins

LEMMA FacilityPartBegins ==
  ASSUME ControlOK, NEW r \in Requests, UNCHANGED workload, pc[r] = "received",
         FacilityPartHandler(r)
  PROVE  Step(r)
BY FacilityPartBeginnings, BeginsUninformed DEF IsCourse, FacilityPartCourse, Informed

\* ACBS answers for the covenants of any facility.
LEMMA GetsCovenants ==
  ASSUME NEW facilityIdentifier
  PROVE  LET call == AcbsGetCovenantsForFacility(facilityIdentifier)
             covenants == DataOf("FacilityCovenant", facilityIdentifier)
         IN  /\ IsCall(call) /\ ~IsMissing(call.known, call.result)
             /\ \A data : call.result = Ok(data) => data = covenants
<1> DEFINE covenants == DataOf("FacilityCovenant", facilityIdentifier)
           result == Ok(covenants)
<1>1. AcbsGetCovenantsForFacility(facilityIdentifier) = GetCall({}, result)
  BY DEF AcbsGetCovenantsForFacility
<1> HIDE DEF covenants, result
<1>2. IsResult(result) /\ ~IsMissing({}, result) /\ \A data : result = Ok(data) => data = covenants
  BY OkOrNull DEF result
<1>3. /\ IsCall(GetCall({}, result))
      /\ GetCall({}, result).result = result /\ GetCall({}, result).known = {}
  BY <1>2, GetCalls
<1> QED BY <1>1, <1>2, <1>3 DEF covenants

\* And with null for the guarantees of a facility that has none.
LEMMA GetsGuarantees ==
  ASSUME ControlOK, StoreOK, NEW r \in Requests,
         Op(r) \in {"GET/facilities/<facilityIdentifier>/guarantees",
                    "PATCH/facilities/<facilityIdentifier>/guarantees"}
  PROVE  LET call == AcbsGetGuaranteesForFacility(FacilityIdentifier(r))
             guarantees == DataOf("FacilityGuarantee", FacilityIdentifier(r))
         IN  /\ IsCall(call) /\ (IsMissing(call.known, call.result) => Absent(r))
             /\ \A data : call.result = Ok(data) => data = guarantees
<1> DEFINE guarantees == DataOf("FacilityGuarantee", FacilityIdentifier(r))
           result == IF guarantees = <<>> THEN Null ELSE Ok(guarantees)
<1>1. AcbsGetGuaranteesForFacility(FacilityIdentifier(r)) = GetCall({}, result)
  BY DEF AcbsGetGuaranteesForFacility
<1>2. "facilityIdentifier" \in DOMAIN Params(r)
      /\ {"loanIdentifier", "bundleIdentifier"} \cap DOMAIN Params(r) = {}
  <2>1. DOMAIN Params(r) = {"facilityIdentifier"}
    BY ParamsAre DEF ParamNames
  <2> QED BY <2>1
<1>3. guarantees = <<>> => Absent(r)
  BY <1>2, DataFound DEF Absent, FacilityIdentifier
<1>4. result = Ok(guarantees) \/ (result = Null /\ guarantees = <<>>)
  OBVIOUS
<1> HIDE DEF guarantees, result
<1>5. IsResult(result) /\ (IsMissing({}, result) => result = Null)
      /\ \A data : result = Ok(data) => result # Null /\ data = guarantees
  BY <1>4, OkOrNull
<1>6. /\ IsCall(GetCall({}, result))
      /\ GetCall({}, result).result = result /\ GetCall({}, result).known = {}
  BY <1>5, GetCalls
<1>7. IsMissing({}, result) => Absent(r)
  BY <1>3, <1>4, <1>5, OkOrNull
<1> QED BY <1>1, <1>5, <1>6, <1>7 DEF guarantees

LEMMA CallOfWrite ==
  ASSUME NEW known, NEW result
  PROVE  [GetCall(known, result) EXCEPT !.ofWrite = TRUE] =
           [known |-> known, result |-> result, ofWrite |-> TRUE]
<1>1. \A a, b : [[known |-> known, result |-> result, ofWrite |-> a] EXCEPT !.ofWrite = b] =
                 [known |-> known, result |-> result, ofWrite |-> b]
  OBVIOUS
<1> QED BY <1>1, Zenon DEF GetCall

LEMMA GetInvestorsForFacilityStep ==
  ASSUME ControlOK, NEW r \in Requests, InCourse(r), UNCHANGED workload,
         GetInvestorsForFacility(r), pc[r] = "getFacilityInvestors"
  PROVE  Step(r)
<1> DEFINE data == DataOf("FacilityParty", FacilityIdentifier(r))
           result == IF FacilityExists(FacilityIdentifier(r)) THEN Ok(data) ELSE Null
           call == [GetCall({}, result) EXCEPT !.ofWrite = TRUE]
<1>1. Op(r) = "GET/facilities/<facilityIdentifier>/investors"
  BY FacilityPartCourses
<1>2. Shows(r, call)
  BY DEF GetInvestorsForFacility, ReceivesFor, Receives, Get, Shows, IsGiven,
         AcbsGetFacilityPartiesForFacility, ReplyEach
<1>3. ~FacilityExists(FacilityIdentifier(r)) => Absent(r)
  BY <1>1, FacilityAbsent DEF FacilityOps
<1>4. result = Ok(data) \/ (result = Null /\ ~FacilityExists(FacilityIdentifier(r)))
  OBVIOUS
<1> HIDE DEF data, result
<1>5. IsResult(result) /\ (IsMissing({}, result) => result = Null)
      /\ (result = Ok(data) => result # Null)
  BY <1>4, OkOrNull
<1>6. IsCall(call) /\ call.known = {} /\ call.result = result
  <2>1. call = [known |-> {}, result |-> result, ofWrite |-> TRUE]
    BY CallOfWrite
  <2>2. /\ call.known = {} /\ call.result = result
        /\ call = [known |-> call.known, result |-> call.result, ofWrite |-> call.ofWrite]
    BY <2>1
  <2> HIDE DEF call
  <2> QED BY <1>5, <2>2 DEF IsCall
<1> HIDE DEF call
<1> QED BY <1>1, <1>2, <1>3, <1>4, <1>5, <1>6, ShowsStep DEF Calls

LEMMA GetGuaranteesForFacilityStep ==
  ASSUME ControlOK, StoreOK, NEW r \in Requests, InCourse(r), UNCHANGED workload,
         GetGuaranteesForFacility(r), pc[r] = "getFacilityGuarantees"
  PROVE  Step(r)
<1>1. Op(r) = "GET/facilities/<facilityIdentifier>/guarantees"
  BY FacilityPartCourses
<1>2. Shows(r, AcbsGetGuaranteesForFacility(FacilityIdentifier(r)))
  BY DEF GetGuaranteesForFacility, ReceivesFor, Receives, Get, Shows, IsGiven, ReplyEach
<1>3. /\ IsCall(AcbsGetGuaranteesForFacility(FacilityIdentifier(r)))
      /\ IsMissing(AcbsGetGuaranteesForFacility(FacilityIdentifier(r)).known,
                   AcbsGetGuaranteesForFacility(FacilityIdentifier(r)).result) => Absent(r)
  BY <1>1, GetsGuarantees
<1> QED BY <1>1, <1>2, <1>3, ShowsStep DEF Calls

LEMMA GetCovenantsForFacilityStep ==
  ASSUME ControlOK, NEW r \in Requests, InCourse(r), UNCHANGED workload,
         GetCovenantsForFacility(r), pc[r] = "getCovenants"
  PROVE  Step(r)
<1>1. Op(r) = "GET/facilities/<facilityIdentifier>/covenants"
  BY FacilityPartCourses
<1>2. Shows(r, AcbsGetCovenantsForFacility(FacilityIdentifier(r)))
  BY DEF GetCovenantsForFacility, ReceivesFor, Receives, Get, Shows, IsGiven, ReplyEach
<1>3. /\ IsCall(AcbsGetCovenantsForFacility(FacilityIdentifier(r)))
      /\ ~IsMissing(AcbsGetCovenantsForFacility(FacilityIdentifier(r)).known,
                    AcbsGetCovenantsForFacility(FacilityIdentifier(r)).result)
  BY GetsCovenants
<1> QED BY <1>1, <1>2, <1>3, ShowsStep DEF Calls

\* FacilityController's read of a facility, by another handler that goes on.
Reads(r, label) ==
    /\ UNCHANGED acbs
    /\ \E outcome \in GetOutcomes(AcbsGetFacilityByIdentifier(FacilityIdentifier(r))) :
         IF IsGiven(outcome[1])
         THEN \/ Throw(r, "BadRequestException")
              \/ Throw(r, "TypeError")
              \/ Goto(r, label, outcome[1].data)
         ELSE Throw(r, GetException(AcbsGetFacilityByIdentifier(FacilityIdentifier(r)),
                                    outcome[1]))

LEMMA ReadsStep ==
  ASSUME ControlOK, NEW r \in Requests, UNCHANGED workload,
         Calls(r), pc[r] # "restrictDeal", Op(r) \in FacilityOps,
         NEW label, label \notin Informed, IsCourse(Op(r), label), Reads(r, label)
  PROVE  Step(r)
<1> DEFINE exists == FacilityExists(FacilityIdentifier(r))
           call == AcbsGetFacilityByIdentifier(FacilityIdentifier(r))
<1>1. PICK outcome \in GetOutcomes(call) :
        IF IsGiven(outcome[1])
        THEN \/ Throw(r, "BadRequestException")
             \/ Throw(r, "TypeError")
             \/ Goto(r, label, outcome[1].data)
        ELSE Throw(r, GetException(call, outcome[1]))
  BY DEF Reads
<1>2. UNCHANGED acbs
  BY DEF Reads
<1>3. IsCall(call) /\ (IsMissing(call.known, call.result) => Absent(r))
  BY GetsFacility, FacilityAbsent
<1> HIDE DEF call
<1>4. CASE ~IsGiven(outcome[1])
  BY <1>1, <1>2, <1>3, <1>4, GetFails
<1>5. ASSUME NEW exception \in {"BadRequestException", "TypeError"}, Throw(r, exception)
      PROVE  Step(r)
  BY <1>2, <1>5, ThrowsStep DEF HttpStatus, Calls
<1>6. CASE Goto(r, label, outcome[1].data)
  BY <1>2, <1>6, MovesOnStep DEF Calls
<1> QED BY <1>1, <1>4, <1>5, <1>6

LEMMA CreateCovenantForFacilityStep ==
  ASSUME ControlOK, StoreOK, NEW r \in Requests, InCourse(r), UNCHANGED workload,
         CreateCovenantForFacility(r), Calls(r)
  PROVE  Step(r)
<1>1. pc[r] \in {"getFacilityOfCovenant", "createCovenant"}
      /\ Op(r) = "POST/facilities/<facilityIdentifier>/covenants"
  BY FacilityPartCourses
     DEF CreateCovenantForFacility, ReceivesArrayFor, ReceivesFor, Receives, Calls
<1>2. CASE pc[r] = "getFacilityOfCovenant"
  <2>1. Reads(r, "createCovenant")
    BY <1>2 DEF CreateCovenantForFacility, ReceivesArrayFor, ReceivesFor, Receives,
                ReadFacilityThen, Get, Reads, IsGiven
  <2>2. IsCourse(Op(r), "createCovenant") /\ "createCovenant" \notin Informed
    BY <1>1 DEF IsCourse, FacilityPartCourse, Informed
  <2> QED BY <1>1, <1>2, <2>1, <2>2, ReadsStep DEF FacilityOps
<1>3. CASE pc[r] = "createCovenant"
  <2> DEFINE facilityIdentifier == FacilityIdentifier(r)
             exists == FacilityExists(facilityIdentifier)
             covenant == CovenantToCreateInAcbs(local[r].FacilityTypeCode,
                                                local[r].BorrowerPartyIdentifier, Body(r)[1])
             data == Added(r, "FacilityCovenant", facilityIdentifier, covenant)
             result == IfFacilityExists(facilityIdentifier, "FacilityNotFound", Ok(data))
             body == [facilityIdentifier |-> facilityIdentifier]
  <2>1. AnswersIf(exists, result, data, "FacilityNotFound")
    BY DEF AnswersIf, IfFacilityExists, FacilityExists
  <2>2. Posts(r, {"FacilityNotFound"}, result, 201, body)
    BY <1>3 DEF CreateCovenantForFacility, ReceivesArrayFor, ReceivesFor, Receives,
                AcbsCreateCovenantForFacility, Write, WriteOr, Posts, AnswerFacility
  <2>3. ~exists => Absent(r)
    BY <1>1, FacilityAbsent DEF FacilityOps
  <2>4. FieldsOf("FacilityCovenant") \subseteq DOMAIN covenant
    BY DEF CovenantToCreateInAcbs, FieldsOf
  <2> HIDE DEF covenant
  <2>5. acbs' = data => Wrote(r)
    BY <2>4, AddsPlain DEF PlainKinds, FieldsOf
  <2> HIDE DEF exists, data, result, body
  <2> QED BY <1>1, <1>3, <2>1, <2>2, <2>3, <2>5, PostsIf, KnownTexts
<1> QED BY <1>1, <1>2, <1>3

LEMMA CreateGuaranteeForFacilityStep ==
  ASSUME ControlOK, StoreOK, NEW r \in Requests, InCourse(r), UNCHANGED workload,
         CreateGuaranteeForFacility(r), pc[r] = "createFacilityGuarantee"
  PROVE  Step(r)
<1> DEFINE facilityIdentifier == FacilityIdentifier(r)
           exists == FacilityExists(facilityIdentifier)
           guarantee == GuaranteeToCreateInAcbs(Body(r)[1])
           data == Added(r, "FacilityGuarantee", facilityIdentifier, guarantee)
           result == IfFacilityExists(facilityIdentifier, "FacilityNotFound", Ok(data))
           body == [facilityIdentifier |-> facilityIdentifier]
<1>1. Op(r) = "POST/facilities/<facilityIdentifier>/guarantees"
  BY FacilityPartCourses
<1>2. AnswersIf(exists, result, data, "FacilityNotFound")
  BY DEF AnswersIf, IfFacilityExists, FacilityExists
<1>3. Posts(r, {"FacilityNotFound"}, result, 201, body)
  BY DEF CreateGuaranteeForFacility, ReceivesItemFor, Receives, AcbsCreateGuaranteeForFacility,
         Write, WriteOr, Posts, AnswerFacility
<1>4. ~exists => Absent(r)
  BY <1>1, FacilityAbsent DEF FacilityOps
<1>5. FieldsOf("FacilityGuarantee") \subseteq DOMAIN guarantee
  BY DEF GuaranteeToCreateInAcbs, FieldsOf
<1> HIDE DEF guarantee
<1>6. acbs' = data => Wrote(r)
  BY <1>5, AddsPlain DEF PlainKinds, FieldsOf
<1> HIDE DEF exists, data, result, body
<1> QED BY <1>1, <1>2, <1>3, <1>4, <1>6, PostsIf, KnownTexts DEF Calls

LEMMA CreateInvestorForFacilityStep ==
  ASSUME ControlOK, StoreOK, NEW r \in Requests, InCourse(r), UNCHANGED workload,
         CreateInvestorForFacility(r), pc[r] = "createFacilityInvestor"
  PROVE  Step(r)
<1> DEFINE facilityIdentifier == FacilityIdentifier(r)
           exists == FacilityExists(facilityIdentifier)
           party == FacilityPartyToCreateInAcbs(Body(r)[1])
           data == Added(r, "FacilityParty", facilityIdentifier, party)
           result == IfFacilityExists(facilityIdentifier, "FacilityNotFound", Ok(data))
           body == [facilityIdentifier |-> facilityIdentifier]
<1>1. Op(r) = "POST/facilities/<facilityIdentifier>/investors"
  BY FacilityPartCourses
<1>2. AnswersIf(exists, result, data, "FacilityNotFound")
  BY DEF AnswersIf, IfFacilityExists, FacilityExists
<1>3. Posts(r, {"FacilityNotFound"}, result, 201, body)
  BY DEF CreateInvestorForFacility, ReceivesItemFor, Receives, AcbsCreatePartyForFacility,
         Write, WriteOr, Posts, AnswerFacility
<1>4. ~exists => Absent(r)
  BY <1>1, FacilityAbsent DEF FacilityOps
<1>5. acbs' = data => Wrote(r)
  BY AddsPlain DEF PlainKinds, FieldsOf
<1> HIDE DEF exists, data, result, body
<1> QED BY <1>1, <1>2, <1>3, <1>4, <1>5, PostsIf, KnownTexts DEF Calls

\* What a PATCH has read stays in ACBS, and it has read what is there.
LEMMA LikeStays ==
  ASSUME Keeps(acbs, acbs')
  PROVE  \A facilityIdentifier, part, i :
            /\ i \in CovenantsLike(facilityIdentifier, part) =>
                 /\ i \in DOMAIN acbs'
                 /\ acbs'[i].kind = "FacilityCovenant" /\ acbs'[i].owner = facilityIdentifier
                 /\ acbs'[i].data.CovenantIdentifier = part.CovenantIdentifier
            /\ i \in GuaranteesLike(facilityIdentifier, part) =>
                 /\ i \in DOMAIN acbs'
                 /\ acbs'[i].kind = "FacilityGuarantee" /\ acbs'[i].owner = facilityIdentifier
                 /\ acbs'[i].data.GuaranteeTypeCode = part.GuaranteeTypeCode
                 /\ acbs'[i].data.GuarantorPartyIdentifier = part.GuarantorPartyIdentifier
BY DEF Keeps, IsSame, CovenantsLike, GuaranteesLike, Indexes

LEMMA PartsFound ==
  ASSUME StoreOK, NEW facilityIdentifier
  PROVE  LET covenants == DataOf("FacilityCovenant", facilityIdentifier)
             guarantees == DataOf("FacilityGuarantee", facilityIdentifier)
         IN  /\ \A k \in DOMAIN covenants :
                  /\ FieldsOf("FacilityCovenant") \subseteq DOMAIN covenants[k]
                  /\ CovenantsLike(facilityIdentifier, covenants[k]) # {}
             /\ \A k \in DOMAIN guarantees :
                  /\ FieldsOf("FacilityGuarantee") \subseteq DOMAIN guarantees[k]
                  /\ GuaranteesLike(facilityIdentifier, guarantees[k]) # {}
<1> DEFINE covenants == DataOf("FacilityCovenant", facilityIdentifier)
           guarantees == DataOf("FacilityGuarantee", facilityIdentifier)
<1> HIDE DEF covenants, guarantees
<1>1. ASSUME NEW k \in DOMAIN covenants
      PROVE  /\ FieldsOf("FacilityCovenant") \subseteq DOMAIN covenants[k]
             /\ CovenantsLike(facilityIdentifier, covenants[k]) # {}
  <2>1. PICK i \in Indexes("FacilityCovenant", facilityIdentifier) : covenants[k] = acbs[i].data
    BY DataFound DEF covenants
  <2>2. FieldsOf("FacilityCovenant") \subseteq DOMAIN acbs[i].data
    BY DEF StoreOK, IsStore, IsEntity, Indexes
  <2> QED BY <2>1, <2>2 DEF FieldsOf, CovenantsLike
<1>2. ASSUME NEW k \in DOMAIN guarantees
      PROVE  /\ FieldsOf("FacilityGuarantee") \subseteq DOMAIN guarantees[k]
             /\ GuaranteesLike(facilityIdentifier, guarantees[k]) # {}
  <2>1. PICK i \in Indexes("FacilityGuarantee", facilityIdentifier) : guarantees[k] = acbs[i].data
    BY DataFound DEF guarantees
  <2>2. FieldsOf("FacilityGuarantee") \subseteq DOMAIN acbs[i].data
    BY DEF StoreOK, IsStore, IsEntity, Indexes
  <2> QED BY <2>1, <2>2 DEF FieldsOf, GuaranteesLike
<1> QED BY <1>1, <1>2 DEF covenants, guarantees

LEMMA PatchOps ==
  ASSUME NEW r, Op(r) \in {"PATCH/facilities/<facilityIdentifier>/covenants",
                           "PATCH/facilities/<facilityIdentifier>/guarantees"},
         UNCHANGED workload
  PROVE  /\ Op(r) \in WritesSeveral /\ Op(r) \in FacilityOps
         /\ Op(r) # "POST/deals" /\ Op(r) # "POST/parties"
         /\ ~WroteNothing(r)'
BY DEF WritesSeveral, FacilityOps, WroteNothing, Op

\* A PATCH goes on with what is left, or answers.
LEMMA PutNextStep ==
  ASSUME ControlOK, NEW r \in Requests, UNCHANGED workload, Calls(r),
         Op(r) \in {"PATCH/facilities/<facilityIdentifier>/covenants",
                    "PATCH/facilities/<facilityIdentifier>/guarantees"},
         acbs' = acbs \/ Wrote(r),
         NEW label, IsCourse(Op(r), label), NEW parts, PutNext(r, label, parts),
         parts # <<>> /\ pc'[r] = label /\ local'[r] = parts => Knows(r)'
  PROVE  Step(r)
<1>1. CASE parts = <<>>
  <2>1. Reply(r, 200, [facilityIdentifier |-> FacilityIdentifier(r)])
    BY <1>1 DEF PutNext, AnswerFacility
  <2>2. Frame(r) /\ pc'[r] = "done" /\ answer'[r].status = 200
    BY <2>1, ReplyEnds DEF Calls
  <2>3. Fulfilled(r)'
    BY PatchOps DEF Fulfilled, Op
  <2> QED BY <2>2, <2>3, PatchOps DEF Step, Lands
<1>2. CASE parts # <<>>
  <2>1. Goto(r, label, parts)
    BY <1>2 DEF PutNext
  <2>2. Frame(r) /\ pc'[r] = label /\ local'[r] = parts
    BY <2>1, GotoMoves DEF Calls
  <2> QED BY <1>2, <2>2, PatchOps DEF Step, Lands
<1> QED BY <1>1, <1>2

\* It reads what it will put back.
LEMMA GetsPartsStep ==
  ASSUME ControlOK, NEW r \in Requests, UNCHANGED <<workload, acbs>>, Calls(r),
         pc[r] # "restrictDeal",
         Op(r) \in {"PATCH/facilities/<facilityIdentifier>/covenants",
                    "PATCH/facilities/<facilityIdentifier>/guarantees"},
         NEW call, IsCall(call), IsMissing(call.known, call.result) => Absent(r),
         NEW label, IsCourse(Op(r), label), NEW parts,
         \A data : call.result = Ok(data) => data = parts,
         parts # <<>> /\ pc'[r] = label /\ local'[r] = parts => Knows(r)',
         NEW outcome \in GetOutcomes(call),
         IF IsGiven(outcome[1]) THEN PutNext(r, label, outcome[1].data)
         ELSE Throw(r, GetException(call, outcome[1]))
  PROVE  Step(r)
<1>1. CASE ~IsGiven(outcome[1])
  BY <1>1, GetFails
<1>2. CASE IsGiven(outcome[1])
  <2>1. outcome[1].data = parts
    BY <1>2, GetEnds
  <2>2. PutNext(r, label, parts)
    BY <1>2, <2>1
  <2> QED BY <2>2, PutNextStep
<1> QED BY <1>1, <1>2

\* It puts back one of them.
LEMMA PutsPartStep ==
  ASSUME ControlOK, StoreOK, NEW r \in Requests, UNCHANGED workload, Calls(r),
         pc[r] # "restrictDeal",
         Op(r) \in {"PATCH/facilities/<facilityIdentifier>/covenants",
                    "PATCH/facilities/<facilityIdentifier>/guarantees"},
         NEW written, acbs' = written => Wrote(r),
         NEW label, IsCourse(Op(r), label), NEW parts,
         Keeps(acbs, acbs') /\ parts # <<>> /\ pc'[r] = label /\ local'[r] = parts => Knows(r)',
         NEW outcome \in WriteOutcomes(Ok(written)), acbs' = outcome[2],
         IF outcome[1].status = 200 THEN PutNext(r, label, parts)
         ELSE Throw(r, WrapAcbsHttpPostOrPutError({"FacilityNotFound"}, outcome[1]))
  PROVE  Step(r)
<1> DEFINE result == Ok(written)
           known == {"FacilityNotFound"}
<1>1. /\ IsResult(result) /\ result # Null /\ ~IsMissing(known, result)
      /\ \A data : result = Ok(data) => data = written
  BY OkOrNull
<1>2. known \subseteq DOMAIN KnownErrors
  BY KnownTexts
<1> HIDE DEF result, known
<1>3. outcome \in WriteOutcomes(result)
  BY DEF result
<1>4. acbs' = acbs \/ Wrote(r)
  BY <1>1, <1>2, <1>3, WriteEnds
<1>5. CASE outcome[1].status # 200
  <2>1. Throw(r, WrapAcbsHttpPostOrPutError(known, outcome[1]))
    BY <1>5 DEF known
  <2> QED BY <1>1, <1>2, <1>3, <1>5, <2>1, WriteFails
<1>6. CASE outcome[1].status = 200
  <2>1. Keeps(acbs, acbs')
    BY <1>4, WroteKeeps
  <2> QED BY <1>4, <1>6, <2>1, PutNextStep
<1> QED BY <1>5, <1>6

\* What a PATCH knows of what is left of the parts it read.
LEMMA TailOfParts ==
  ASSUME NEW parts, parts \in Seq(Range(parts)), parts # <<>>
  PROVE  /\ Tail(parts) \in Seq(Range(Tail(parts)))
         /\ \A k \in DOMAIN Tail(parts) : \E n \in DOMAIN parts : Tail(parts)[k] = parts[n]
         /\ \E n \in DOMAIN parts : Head(parts) = parts[n]
<1>1. /\ Tail(parts) \in Seq(Range(parts)) /\ Head(parts) = parts[1]
      /\ Len(parts) \in Nat \ {0} /\ DOMAIN parts = 1..Len(parts)
      /\ Len(Tail(parts)) = Len(parts) - 1 /\ DOMAIN Tail(parts) = 1..(Len(parts) - 1)
      /\ \A k \in 1..(Len(parts) - 1) : Tail(parts)[k] = parts[k + 1]
  BY EmptySeq
<1>2. Tail(parts) \in Seq(Range(Tail(parts)))
  BY <1>1, SeqOfRange
<1>3. \A k \in 1..(Len(parts) - 1) : k + 1 \in DOMAIN parts
  BY <1>1
<1>4. 1 \in DOMAIN parts
  BY <1>1
<1> QED BY <1>1, <1>2, <1>3, <1>4

LEMMA KnowsCovenants ==
  ASSUME NEW r, UNCHANGED workload, Keeps(acbs, acbs'),
         NEW parts, parts \in Seq(Range(parts)), parts # <<>>,
         \A k \in DOMAIN parts :
             /\ FieldsOf("FacilityCovenant") \subseteq DOMAIN parts[k]
             /\ \E i : i \in CovenantsLike(FacilityIdentifier(r), parts[k]),
         pc'[r] = "putCovenant", local'[r] = parts
  PROVE  Knows(r)'
<1>1. FacilityIdentifier(r)' = FacilityIdentifier(r)
  BY DEF FacilityIdentifier, Params
<1>2. ASSUME NEW k \in DOMAIN local'[r]
      PROVE  /\ FieldsOf("FacilityCovenant") \subseteq DOMAIN local'[r][k]
             /\ CovenantsLike(FacilityIdentifier(r), local[r][k])' # {}
  <2>1. PICK i : i \in CovenantsLike(FacilityIdentifier(r), parts[k])
    OBVIOUS
  <2>2. /\ i \in DOMAIN acbs'
        /\ acbs'[i].kind = "FacilityCovenant" /\ acbs'[i].owner = FacilityIdentifier(r)
        /\ acbs'[i].data.CovenantIdentifier = parts[k].CovenantIdentifier
    BY <2>1, LikeStays
  <2>3. i \in CovenantsLike(FacilityIdentifier(r), local[r][k])'
    BY <1>1, <2>2 DEF CovenantsLike, Indexes
  <2> QED BY <2>3
<1>3. KnowsParts(r)'
  BY <1>2 DEF KnowsParts
<1> QED BY <1>3 DEF Knows, KnowsParty, KnowsFacility, KnowsLoan

LEMMA UpdateCovenantsForFacilityStep ==
  ASSUME ControlOK, StoreOK, NEW r \in Requests, InCourse(r), UNCHANGED workload,
         UpdateCovenantsForFacility(r), Calls(r)
  PROVE  Step(r)
<1> DEFINE facilityIdentifier == FacilityIdentifier(r)
<1>1. /\ pc[r] \in {"getCovenantsToUpdate", "putCovenant"} /\ pc[r] # "restrictDeal"
      /\ Op(r) = "PATCH/facilities/<facilityIdentifier>/covenants"
      /\ IsCourse(Op(r), "putCovenant")
  <2>1. pc[r] \in {"getCovenantsToUpdate", "putCovenant"}
    BY DEF UpdateCovenantsForFacility, ReceivesFor, Receives, Calls
  <2>2. Op(r) = "PATCH/facilities/<facilityIdentifier>/covenants"
    BY <2>1, FacilityPartCourses
  <2> QED BY <2>1, <2>2 DEF IsCourse, FacilityPartCourse
<1>2. CASE pc[r] = "getCovenantsToUpdate"
  <2> DEFINE call == AcbsGetCovenantsForFacility(facilityIdentifier)
             parts == DataOf("FacilityCovenant", facilityIdentifier)
  <2>1. PICK outcome \in GetOutcomes(call) :
          /\ UNCHANGED acbs
          /\ IF IsGiven(outcome[1]) THEN PutNext(r, "putCovenant", outcome[1].data)
             ELSE Throw(r, GetException(call, outcome[1]))
    BY <1>2 DEF UpdateCovenantsForFacility, ReceivesFor, Receives, Get, IsGiven
  <2>2. /\ IsCall(call) /\ ~IsMissing(call.known, call.result)
        /\ \A data : call.result = Ok(data) => data = parts
    BY GetsCovenants
  <2>3. /\ parts \in Seq(Range(parts))
        /\ \A k \in DOMAIN parts :
             /\ FieldsOf("FacilityCovenant") \subseteq DOMAIN parts[k]
             /\ \E i \in CovenantsLike(facilityIdentifier, parts[k]) : TRUE
    BY DataFound, PartsFound
  <2> HIDE DEF call, parts
  <2>4. ASSUME parts # <<>>, pc'[r] = "putCovenant", local'[r] = parts  PROVE Knows(r)'
    <3>1. Keeps(acbs, acbs')
      BY <2>1, KeepsItself
    <3> QED BY <2>3, <2>4, <3>1, KnowsCovenants
  <2> QED BY <1>1, <2>1, <2>2, <2>4, GetsPartsStep
<1>3. CASE pc[r] = "putCovenant"
  <2> DEFINE head == Head(local[r])
             parts == Tail(local[r])
             covenant == CovenantFieldsToUpdate(Body(r), head)
             found == {i \in Indexes("FacilityCovenant", facilityIdentifier) :
                          acbs[i].data.CovenantIdentifier = covenant.CovenantIdentifier}
             index == CHOOSE i \in found : TRUE
             written == Replaced(r, index, covenant)
  <2>1. /\ local[r] \in Seq(Range(local[r])) /\ local[r] # <<>>
        /\ \A k \in DOMAIN local[r] :
             /\ FieldsOf("FacilityCovenant") \subseteq DOMAIN local[r][k]
             /\ \E i : i \in CovenantsLike(facilityIdentifier, local[r][k])
    BY <1>3, CourseKnows DEF Knows, KnowsParts
  <2>2. /\ parts \in Seq(Range(parts))
        /\ \A k \in DOMAIN parts : \E n \in DOMAIN local[r] : parts[k] = local[r][n]
        /\ \E n \in DOMAIN local[r] : head = local[r][n]
    BY <2>1, TailOfParts
  <2>3. /\ FieldsOf("FacilityCovenant") \subseteq DOMAIN head
        /\ \E i : i \in CovenantsLike(facilityIdentifier, head)
    BY <2>1, <2>2
  <2>4. PICK outcome \in WriteOutcomes(IF found = {} THEN Refusal("FacilityNotFound")
                                       ELSE Ok(written)) :
          /\ acbs' = outcome[2]
          /\ IF outcome[1].status = 200 THEN PutNext(r, "putCovenant", parts)
             ELSE Throw(r, WrapAcbsHttpPostOrPutError({"FacilityNotFound"}, outcome[1]))
    BY <1>3 DEF UpdateCovenantsForFacility, ReceivesFor, Receives,
                AcbsReplaceCovenantForFacility, AcbsReplace, Write, WriteOr
  <2> HIDE DEF head, parts
  <2>5. covenant.CovenantIdentifier = head.CovenantIdentifier
        /\ FieldsOf("FacilityCovenant") \subseteq DOMAIN covenant
    BY <2>3 DEF CovenantFieldsToUpdate
  <2> HIDE DEF covenant
  <2>6. found # {}
    BY <2>3, <2>5 DEF CovenantsLike
  <2>7. index \in DOMAIN acbs /\ acbs[index].kind = "FacilityCovenant"
        /\ acbs[index].data.CovenantIdentifier = covenant.CovenantIdentifier
    BY <2>6 DEF Indexes
  <2> HIDE DEF found, index
  <2>8. acbs' = written => Wrote(r)
    BY <1>1, <2>5, <2>7, ReplacesInPlace DEF IsPossible, IsSame, PatchOp
  <2> HIDE DEF written
  <2>9. ASSUME Keeps(acbs, acbs'), parts # <<>>, pc'[r] = "putCovenant", local'[r] = parts
        PROVE  Knows(r)'
    <3>1. \A k \in DOMAIN parts :
            /\ FieldsOf("FacilityCovenant") \subseteq DOMAIN parts[k]
            /\ \E i : i \in CovenantsLike(facilityIdentifier, parts[k])
      BY <2>1, <2>2
    <3> QED BY <2>2, <2>9, <3>1, KnowsCovenants
  <2>10. outcome \in WriteOutcomes(Ok(written))
    BY <2>4, <2>6
  <2> QED BY <1>1, <2>4, <2>8, <2>9, <2>10, PutsPartStep
<1> QED BY <1>1, <1>2, <1>3

LEMMA KnowsGuarantees ==
  ASSUME NEW r, UNCHANGED workload, Keeps(acbs, acbs'),
         NEW parts, parts \in Seq(Range(parts)), parts # <<>>,
         \A k \in DOMAIN parts :
             /\ FieldsOf("FacilityGuarantee") \subseteq DOMAIN parts[k]
             /\ \E i : i \in GuaranteesLike(FacilityIdentifier(r), parts[k]),
         pc'[r] = "putGuarantee", local'[r] = parts
  PROVE  Knows(r)'
<1>1. FacilityIdentifier(r)' = FacilityIdentifier(r)
  BY DEF FacilityIdentifier, Params
<1>2. ASSUME NEW k \in DOMAIN local'[r]
      PROVE  /\ FieldsOf("FacilityGuarantee") \subseteq DOMAIN local'[r][k]
             /\ GuaranteesLike(FacilityIdentifier(r), local[r][k])' # {}
  <2>1. PICK i : i \in GuaranteesLike(FacilityIdentifier(r), parts[k])
    OBVIOUS
  <2>2. /\ i \in DOMAIN acbs'
        /\ acbs'[i].kind = "FacilityGuarantee" /\ acbs'[i].owner = FacilityIdentifier(r)
        /\ acbs'[i].data.GuaranteeTypeCode = parts[k].GuaranteeTypeCode
        /\ acbs'[i].data.GuarantorPartyIdentifier = parts[k].GuarantorPartyIdentifier
    BY <2>1, LikeStays
  <2>3. i \in GuaranteesLike(FacilityIdentifier(r), local[r][k])'
    BY <1>1, <2>2 DEF GuaranteesLike, Indexes
  <2> QED BY <2>3
<1>3. KnowsParts(r)'
  BY <1>2 DEF KnowsParts
<1> QED BY <1>3 DEF Knows, KnowsParty, KnowsFacility, KnowsLoan

LEMMA UpdateGuaranteesForFacilityStep ==
  ASSUME ControlOK, StoreOK, NEW r \in Requests, InCourse(r), UNCHANGED workload,
         UpdateGuaranteesForFacility(r), Calls(r)
  PROVE  Step(r)
<1> DEFINE facilityIdentifier == FacilityIdentifier(r)
<1>1. /\ pc[r] \in {"getGuaranteesToUpdate", "putGuarantee"} /\ pc[r] # "restrictDeal"
      /\ Op(r) = "PATCH/facilities/<facilityIdentifier>/guarantees"
      /\ IsCourse(Op(r), "putGuarantee")
  <2>1. pc[r] \in {"getGuaranteesToUpdate", "putGuarantee"}
    BY DEF UpdateGuaranteesForFacility, ReceivesFor, Receives, Calls
  <2>2. Op(r) = "PATCH/facilities/<facilityIdentifier>/guarantees"
    BY <2>1, FacilityPartCourses
  <2> QED BY <2>1, <2>2 DEF IsCourse, FacilityPartCourse
<1>2. CASE pc[r] = "getGuaranteesToUpdate"
  <2> DEFINE call == AcbsGetGuaranteesForFacility(facilityIdentifier)
             parts == DataOf("FacilityGuarantee", facilityIdentifier)
  <2>1. PICK outcome \in GetOutcomes(call) :
          /\ UNCHANGED acbs
          /\ IF IsGiven(outcome[1]) THEN PutNext(r, "putGuarantee", outcome[1].data)
             ELSE Throw(r, GetException(call, outcome[1]))
    BY <1>2 DEF UpdateGuaranteesForFacility, ReceivesFor, Receives, Get, IsGiven
  <2>2. /\ IsCall(call) /\ (IsMissing(call.known, call.result) => Absent(r))
        /\ \A data : call.result = Ok(data) => data = parts
    BY <1>1, GetsGuarantees
  <2>3. /\ parts \in Seq(Range(parts))
        /\ \A k \in DOMAIN parts :
             /\ FieldsOf("FacilityGuarantee") \subseteq DOMAIN parts[k]
             /\ \E i \in GuaranteesLike(facilityIdentifier, parts[k]) : TRUE
    BY DataFound, PartsFound
  <2> HIDE DEF call, parts
  <2>4. ASSUME parts # <<>>, pc'[r] = "putGuarantee", local'[r] = parts  PROVE Knows(r)'
    <3>1. Keeps(acbs, acbs')
      BY <2>1, KeepsItself
    <3> QED BY <2>3, <2>4, <3>1, KnowsGuarantees
  <2> QED BY <1>1, <2>1, <2>2, <2>4, GetsPartsStep
<1>3. CASE pc[r] = "putGuarantee"
  <2> DEFINE head == Head(local[r])
             parts == Tail(local[r])
             guarantee == GuaranteeFieldsToUpdate(Body(r), head)
             found == {i \in Indexes("FacilityGuarantee", facilityIdentifier) :
                         /\ acbs[i].data.GuaranteeTypeCode = guarantee.GuaranteeTypeCode
                         /\ acbs[i].data.GuarantorPartyIdentifier =
                              guarantee.GuarantorPartyIdentifier}
             index == CHOOSE i \in found : TRUE
             written == Replaced(r, index, guarantee)
  <2>1. /\ local[r] \in Seq(Range(local[r])) /\ local[r] # <<>>
        /\ \A k \in DOMAIN local[r] :
             /\ FieldsOf("FacilityGuarantee") \subseteq DOMAIN local[r][k]
             /\ \E i : i \in GuaranteesLike(facilityIdentifier, local[r][k])
    BY <1>3, CourseKnows DEF Knows, KnowsParts
  <2>2. /\ parts \in Seq(Range(parts))
        /\ \A k \in DOMAIN parts : \E n \in DOMAIN local[r] : parts[k] = local[r][n]
        /\ \E n \in DOMAIN local[r] : head = local[r][n]
    BY <2>1, TailOfParts
  <2>3. /\ FieldsOf("FacilityGuarantee") \subseteq DOMAIN head
        /\ \E i : i \in GuaranteesLike(facilityIdentifier, head)
    BY <2>1, <2>2
  <2>4. PICK outcome \in WriteOutcomes(IF found = {} THEN Refusal("FacilityNotFound")
                                       ELSE Ok(written)) :
          /\ acbs' = outcome[2]
          /\ IF outcome[1].status = 200 THEN PutNext(r, "putGuarantee", parts)
             ELSE Throw(r, WrapAcbsHttpPostOrPutError({"FacilityNotFound"}, outcome[1]))
    BY <1>3 DEF UpdateGuaranteesForFacility, ReceivesFor, Receives,
                AcbsReplaceGuaranteeForFacility, AcbsReplace, Write, WriteOr
  <2> HIDE DEF head, parts
  <2>5. guarantee.GuaranteeTypeCode = head.GuaranteeTypeCode
        /\ guarantee.GuarantorPartyIdentifier = head.GuarantorPartyIdentifier
        /\ FieldsOf("FacilityGuarantee") \subseteq DOMAIN guarantee
    BY <2>3 DEF GuaranteeFieldsToUpdate
  <2> HIDE DEF guarantee
  <2>6. found # {}
    BY <2>3, <2>5 DEF GuaranteesLike
  <2>7. index \in DOMAIN acbs /\ acbs[index].kind = "FacilityGuarantee"
        /\ acbs[index].data.GuaranteeTypeCode = guarantee.GuaranteeTypeCode
        /\ acbs[index].data.GuarantorPartyIdentifier = guarantee.GuarantorPartyIdentifier
    BY <2>6 DEF Indexes
  <2> HIDE DEF found, index
  <2>8. acbs' = written => Wrote(r)
    BY <1>1, <2>5, <2>7, ReplacesInPlace DEF IsPossible, IsSame, PatchOp
  <2> HIDE DEF written
  <2>9. ASSUME Keeps(acbs, acbs'), parts # <<>>, pc'[r] = "putGuarantee", local'[r] = parts
        PROVE  Knows(r)'
    <3>1. \A k \in DOMAIN parts :
            /\ FieldsOf("FacilityGuarantee") \subseteq DOMAIN parts[k]
            /\ \E i : i \in GuaranteesLike(facilityIdentifier, parts[k])
      BY <2>1, <2>2
    <3> QED BY <2>2, <2>9, <3>1, KnowsGuarantees
  <2>10. outcome \in WriteOutcomes(Ok(written))
    BY <2>4, <2>6
  <2> QED BY <1>1, <2>4, <2>8, <2>9, <2>10, PutsPartStep
<1> QED BY <1>1, <1>2, <1>3

LEMMA FacilityPartStep ==
  ASSUME ControlOK, StoreOK, NEW r \in Requests, InCourse(r), UNCHANGED workload,
         FacilityPartHandler(r), pc[r] # "done"
  PROVE  Step(r)
<1>1. CASE pc[r] = "received"
  BY <1>1, FacilityPartBegins
<1>2. CASE pc[r] # "received"
  <2>1. CASE GetCovenantsForFacility(r)
    <3>1. pc[r] = "getCovenants"
      BY <1>2, <2>1 DEF GetCovenantsForFacility, ReceivesFor, Receives
    <3> QED BY <2>1, <3>1, GetCovenantsForFacilityStep
  <2>2. CASE CreateGuaranteeForFacility(r)
    <3>1. pc[r] = "createFacilityGuarantee"
      BY <1>2, <2>2 DEF CreateGuaranteeForFacility, ReceivesItemFor, Receives
    <3> QED BY <2>2, <3>1, CreateGuaranteeForFacilityStep
  <2>3. CASE GetGuaranteesForFacility(r)
    <3>1. pc[r] = "getFacilityGuarantees"
      BY <1>2, <2>3 DEF GetGuaranteesForFacility, ReceivesFor, Receives
    <3> QED BY <2>3, <3>1, GetGuaranteesForFacilityStep
  <2>4. CASE CreateInvestorForFacility(r)
    <3>1. pc[r] = "createFacilityInvestor"
      BY <1>2, <2>4 DEF CreateInvestorForFacility, ReceivesItemFor, Receives
    <3> QED BY <2>4, <3>1, CreateInvestorForFacilityStep
  <2>5. CASE GetInvestorsForFacility(r)
    <3>1. pc[r] = "getFacilityInvestors"
      BY <1>2, <2>5 DEF GetInvestorsForFacility, ReceivesFor, Receives
    <3> QED BY <2>5, <3>1, GetInvestorsForFacilityStep
  <2>6. Calls(r)
    BY <1>2 DEF Calls
  <2> QED BY <2>1, <2>2, <2>3, <2>4, <2>5, <2>6, CreateCovenantForFacilityStep,
             UpdateCovenantsForFacilityStep, UpdateGuaranteesForFacilityStep
          DEF FacilityPartHandler
<1> QED BY <1>1, <1>2

-----------------------------------------------------------------------------
(* Activations, fees and loans.                                            *)

LEMMA LoanCourses ==
  ASSUME NEW r, InCourse(r)
  PROVE  /\ pc[r] \in {"getFacilityToActivate", "createActivation"} =>
              Op(r) = "POST/facilities/<facilityIdentifier>/activation-transactions"
         /\ pc[r] = "getActivation" =>
              Op(r) =
                "GET/facilities/<facilityIdentifier>/activation-transactions/<bundleIdentifier>"
         /\ pc[r] \in {"getFacilityOfFee", "createFee"} =>
              Op(r) = "POST/facilities/<facilityIdentifier>/fixed-fees"
         /\ pc[r] = "getFees" => Op(r) = "GET/facilities/<facilityIdentifier>/fixed-fees"
         /\ pc[r] = "amendFees" =>
              Op(r) = "POST/facilities/<facilityIdentifier>/fixed-fees/amendments/amount"
         /\ pc[r] = "getLoans" => Op(r) = "GET/facilities/<facilityIdentifier>/loans"
         /\ pc[r] = "createLoan" => Op(r) = "POST/facilities/<facilityIdentifier>/loans"
         /\ pc[r] = "getLoanTransaction" =>
              Op(r) = "GET/facilities/<facilityIdentifier>/loan-transactions/<bundleIdentifier>"
         /\ pc[r] = "amendLoan" =>
              Op(r) =
                "POST/facilities/<facilityIdentifier>/loans/<loanIdentifier>/amendments/amount"
         /\ pc[r] \in {"getLoanToUpdate", "putLoan"} =>
              Op(r) = "PATCH/facilities/<facilityIdentifier>/loans/<loanIdentifier>"
BY DEF InCourse, IsCourse, PartyCourse, DealCourse, FacilityCourse, FacilityPartCourse, LoanCourse

\* The first item of an array that is not empty.
LEMMA FirstItem ==
  ASSUME ControlOK, NEW r \in Requests, Op(r) \in ArrayOps, Body(r) # <<>>
  PROVE  1 \in DOMAIN Body(r) /\ Body(r)[1] \in Range(Body(r))
<1>1. Body(r) \in Seq(Range(Body(r)))
  BY ParamsAre
<1>2. Len(Body(r)) \in Nat /\ DOMAIN Body(r) = 1..Len(Body(r))
  BY <1>1
<1>3. Len(Body(r)) # 0
  BY <1>1, EmptySeq
<1>4. 1 \in DOMAIN Body(r)
  BY <1>2, <1>3
<1> QED BY <1>4 DEF Range

LEMMA CreateLoanBegins ==
  ASSUME ControlOK, NEW r \in Requests, UNCHANGED workload, pc[r] = "received",
         CreateLoanForFacility(r)
  PROVE  Step(r)
<1> DEFINE op == "POST/facilities/<facilityIdentifier>/loans"
           valid == /\ FacilityIdentifier(r) \in Identifiers
                    /\ \A item \in Range(Body(r)) : IsCreateFacilityLoanRequestItem(item)
<1>1. Begins(r, op, "createLoan") /\ Op(r) = op
      /\ ((valid /\ Body(r) # <<>>) \/ ~Goto(r, "createLoan", None)
          \/ Throw(r, "BadRequestException") \/ Throw(r, "TypeError"))
  BY DEF CreateLoanForFacility, ValidatedItems, Validated, Begins, Receives
<1>2. ASSUME pc'[r] = "createLoan"  PROVE Knows(r)'
  <2>1. ~Throw(r, "BadRequestException") /\ ~Throw(r, "TypeError")
    BY <1>1, <1>2, ReplyEnds DEF Throw, Begins, Receives
  <2>2. Goto(r, "createLoan", None)
    BY <1>1, <2>1 DEF Begins
  <2>3. valid /\ Body(r) # <<>>
    BY <1>1, <2>1, <2>2
  <2>4. Body(r)[1] \in CreateFacilityLoanRequestItem
    BY <1>1, <2>3, FirstItem DEF ArrayOps, IsCreateFacilityLoanRequestItem
  <2>5. Body(r)[1].expiryDate \in Dates
    BY <2>4 DEF CreateFacilityLoanRequestItem
  <2> QED BY <1>2, <2>5 DEF Knows, KnowsParty, KnowsFacility, KnowsParts, KnowsLoan, Body
<1> QED BY <1>1, <1>2, BeginsStep DEF IsCourse, LoanCourse

LEMMA AmendFeesBegins ==
  ASSUME ControlOK, NEW r \in Requests, UNCHANGED workload, pc[r] = "received",
         CreateAmountAmendmentForFixedFees(r)
  PROVE  Step(r)
<1> DEFINE op == "POST/facilities/<facilityIdentifier>/fixed-fees/amendments/amount"
           valid == Range(Body(r)) \subseteq CreateFixedFeeAmountAmendmentRequestItem
<1>1. Begins(r, op, "amendFees") /\ Op(r) = op
      /\ ((valid /\ Body(r) # <<>>) \/ ~Goto(r, "amendFees", None)
          \/ Throw(r, "BadRequestException") \/ Throw(r, "TypeError"))
  BY DEF CreateAmountAmendmentForFixedFees, ReceivesItemFor, ValidatedItem, ValidatedItems,
         Validated, Begins, Receives
<1>2. ASSUME pc'[r] = "amendFees"  PROVE Knows(r)'
  <2>1. ~Throw(r, "BadRequestException") /\ ~Throw(r, "TypeError")
    BY <1>1, <1>2, ReplyEnds DEF Throw, Begins, Receives
  <2>2. valid /\ Body(r) # <<>>
    BY <1>1, <2>1 DEF Begins
  <2>3. 1 \in DOMAIN Body(r)
    BY <1>1, <2>2, FirstItem DEF ArrayOps
  <2>4. \A k \in DOMAIN Body(r) : Body(r)[k].amountAmendment \in Int
    BY <2>2 DEF Range, CreateFixedFeeAmountAmendmentRequestItem
  <2> QED BY <1>2, <2>3, <2>4 DEF Knows, KnowsParty, KnowsFacility, KnowsParts, KnowsLoan, Body
<1> QED BY <1>1, <1>2, BeginsStep DEF IsCourse, LoanCourse

LEMMA UpdateLoanBegins ==
  ASSUME ControlOK, NEW r \in Requests, UNCHANGED workload, pc[r] = "received",
         UpdateLoanExpiryDate(r)
  PROVE  Step(r)
<1> DEFINE op == "PATCH/facilities/<facilityIdentifier>/loans/<loanIdentifier>"
<1>1. Begins(r, op, "getLoanToUpdate") /\ Op(r) = op
      /\ (Body(r).expiryDate \in Dates \/ Throw(r, "BadRequestException"))
  BY DEF UpdateLoanExpiryDate, ReceivesFor, Validated, Begins, Receives
<1>2. ASSUME pc'[r] = "getLoanToUpdate"  PROVE Knows(r)'
  <2>1. ~Throw(r, "BadRequestException")
    BY <1>1, <1>2, ReplyEnds DEF Throw, Begins, Receives
  <2>2. Body(r).expiryDate \in Dates
    BY <1>1, <2>1
  <2> QED BY <1>2, <2>2 DEF Knows, KnowsParty, KnowsFacility, KnowsParts, KnowsLoan, Body
<1> QED BY <1>1, <1>2, BeginsStep DEF IsCourse, LoanCourse

LEMMA LoanBeginnings ==
  ASSUME NEW r, pc[r] = "received", LoanHandler(r)
  PROVE  \/ Begins(r, "POST/facilities/<facilityIdentifier>/activation-transactions",
                   "getFacilityToActivate")
         \/ Begins(r,
                "GET/facilities/<facilityIdentifier>/activation-transactions/<bundleIdentifier>",
                "getActivation")
         \/ Begins(r, "POST/facilities/<facilityIdentifier>/fixed-fees", "getFacilityOfFee")
         \/ Begins(r, "GET/facilities/<facilityIdentifier>/fixed-fees", "getFees")
         \/ Begins(r, "GET/facilities/<facilityIdentifier>/loans", "getLoans")
         \/ Begins(r, "GET/facilities/<facilityIdentifier>/loan-transactions/<bundleIdentifier>",
                   "getLoanTransaction")
         \/ Begins(r,
                "POST/facilities/<facilityIdentifier>/loans/<loanIdentifier>/amendments/amount",
                "amendLoan")
         \/ CreateAmountAmendmentForFixedFees(r)
         \/ CreateLoanForFacility(r)
         \/ UpdateLoanExpiryDate(r)
BY DEF LoanHandler, CreateActivationTransactionForFacility,
       GetActivationTransactionByBundleIdentifier, CreateFixedFeeForFacility,
       GetFixedFeesForFacility, GetLoansForFacility, GetLoanTransactionByBundleIdentifier,
       CreateAmountAmendmentForLoan, ReceivesFor, ReceivesArrayFor, ReceivesItemFor,
       ValidatedItem, ValidatedItems, Validated, Begins

LEMMA LoanBegins ==
  ASSUME ControlOK, NEW r \in Requests, UNCHANGED workload, pc[r] = "received", LoanHandler(r)
  PROVE  Step(r)
BY LoanBeginnings, BeginsUninformed, CreateLoanBegins, AmendFeesBegins, UpdateLoanBegins
        DEF IsCourse, LoanCourse, Informed

LEMMA CreateActivationStep ==
  ASSUME ControlOK, StoreOK, NEW r \in Requests, InCourse(r), UNCHANGED workload,
         CreateActivationTransactionForFacility(r), Calls(r)
  PROVE  Step(r)
<1>1. pc[r] \in {"getFacilityToActivate", "createActivation"}
      /\ Op(r) = "POST/facilities/<facilityIdentifier>/activation-transactions"
  BY LoanCourses
     DEF CreateActivationTransactionForFacility, ReceivesArrayFor, ReceivesFor, Receives, Calls
<1>2. CASE pc[r] = "getFacilityToActivate"
  <2>1. Reads(r, "createActivation")
    BY <1>2 DEF CreateActivationTransactionForFacility, ReceivesArrayFor, ReceivesFor, Receives,
                ReadFacilityThen, Get, Reads, IsGiven
  <2>2. IsCourse(Op(r), "createActivation") /\ "createActivation" \notin Informed
    BY <1>1 DEF IsCourse, LoanCourse, Informed
  <2> QED BY <1>1, <1>2, <2>1, <2>2, ReadsStep DEF FacilityOps
<1>3. CASE pc[r] = "createActivation"
  <2> DEFINE message == ActivationTransaction(FacilityIdentifier(r), local[r], Body(r)[1])
             bundle == BundleInformation(Body(r)[1].initialBundleStatusCode, None, <<message>>)
  <2>1. CreateBundleInformation(r, 201, bundle)
    BY <1>3 DEF CreateActivationTransactionForFacility, ReceivesArrayFor, ReceivesFor, Receives
  <2>2. /\ message.type = "FacilityCodeValueTransaction"
        /\ message.FacilityIdentifier = FacilityIdentifier(r)
        /\ message.FacilityTransactionCodeValueCode = FACILITY_STATUSES.ACTIVE
    BY DEF ActivationTransaction, FACILITY_ACTIVATION_TRANSACTION
  <2>3. Refused(message) => Absent(r)
    BY <1>1, <2>2, FacilityAbsent DEF Refused, IsLoanAdvanceTransaction, FacilityOps
  <2> HIDE DEF message
  <2>4. IsBundle(r, bundle) /\ Range(bundle.BundleMessageList) = {message}
    BY <1>1, <2>2, OneMessage DEF IsNewLoanRequest, AmendFeesOp
  <2> HIDE DEF bundle
  <2> QED BY <1>1, <1>3, <2>1, <2>3, <2>4, BundleStep
<1> QED BY <1>1, <1>2, <1>3

LEMMA BundleAbsent ==
  ASSUME ControlOK, NEW r \in Requests,
         Op(r) \in {"GET/facilities/<facilityIdentifier>/activation-transactions/<bundleIdentifier>",
                    "GET/facilities/<facilityIdentifier>/loan-transactions/<bundleIdentifier>"},
         ~(/\ Params(r).bundleIdentifier \in DOMAIN acbs
           /\ acbs[Params(r).bundleIdentifier].kind = "BundleInformation")
  PROVE  Absent(r)
<1>1. "bundleIdentifier" \in DOMAIN Params(r)
  BY ParamsAre DEF ParamNames
<1> QED BY <1>1 DEF Absent, EntitiesOf

\* Of a bundle of another kind the answer is 400.
LEMMA ShowsBundleStep ==
  ASSUME ControlOK, NEW r \in Requests, UNCHANGED workload, Calls(r),
         Op(r) \in {"GET/facilities/<facilityIdentifier>/activation-transactions/<bundleIdentifier>",
                    "GET/facilities/<facilityIdentifier>/loan-transactions/<bundleIdentifier>"},
         pc[r] # "restrictDeal",
         Shows(r, GetBundleInformationByIdentifier(Params(r).bundleIdentifier))
  PROVE  Step(r)
<1> DEFINE bundleIdentifier == Params(r).bundleIdentifier
           exists == /\ bundleIdentifier \in DOMAIN acbs
                     /\ acbs[bundleIdentifier].kind = "BundleInformation"
           data == acbs[bundleIdentifier].data
           result == IF exists THEN Ok(data) ELSE Refusal("BundleInformationNotFound")
<1>1. AnswersIf(exists, result, data, "BundleInformationNotFound")
  BY DEF AnswersIf
<1>2. Shows(r, GetCall({"BundleInformationNotFound"}, result))
  BY DEF GetBundleInformationByIdentifier
<1>3. ~exists => Absent(r)
  BY BundleAbsent
<1> HIDE DEF exists, data, result
<1> QED BY <1>1, <1>2, <1>3, ShowsIf, KnownTexts

LEMMA GetActivationStep ==
  ASSUME ControlOK, NEW r \in Requests, InCourse(r), UNCHANGED workload,
         GetActivationTransactionByBundleIdentifier(r), Calls(r)
  PROVE  Step(r)
<1>1. pc[r] = "getActivation"
  BY DEF GetActivationTransactionByBundleIdentifier, ReceivesFor, Receives, Calls
<1>2. Shows(r, GetBundleInformationByIdentifier(Params(r).bundleIdentifier))
  BY <1>1 DEF GetActivationTransactionByBundleIdentifier, ReceivesFor, Receives, Get, Shows,
              IsGiven, ReplyIfOfKind
<1> QED BY <1>1, <1>2, LoanCourses, ShowsBundleStep

LEMMA GetLoanTransactionStep ==
  ASSUME ControlOK, NEW r \in Requests, InCourse(r), UNCHANGED workload,
         GetLoanTransactionByBundleIdentifier(r), Calls(r)
  PROVE  Step(r)
<1>1. pc[r] = "getLoanTransaction"
  BY DEF GetLoanTransactionByBundleIdentifier, ReceivesFor, Receives, Calls
<1>2. Shows(r, GetBundleInformationByIdentifier(Params(r).bundleIdentifier))
  BY <1>1 DEF GetLoanTransactionByBundleIdentifier, ReceivesFor, Receives, Get, Shows,
              IsGiven, ReplyIfOfKind
<1> QED BY <1>1, <1>2, LoanCourses, ShowsBundleStep

LEMMA GetFeesStep ==
  ASSUME ControlOK, NEW r \in Requests, InCourse(r), UNCHANGED workload,
         GetFixedFeesForFacility(r), Calls(r)
  PROVE  Step(r)
<1> DEFINE data == DataOf("FixedFee", FacilityIdentifier(r))
           known == {}
           result == Ok(data)
           call == GetCall(known, result)
<1>1. pc[r] = "getFees" /\ Op(r) = "GET/facilities/<facilityIdentifier>/fixed-fees"
  BY LoanCourses DEF GetFixedFeesForFacility, ReceivesFor, Receives, Calls
<1>2. Shows(r, call)
  BY <1>1 DEF GetFixedFeesForFacility, ReceivesFor, Receives, Get, Shows, IsGiven,
              AcbsGetFixedFeesForFacility, ReplyEach
<1>3. known \subseteq DOMAIN KnownErrors
  OBVIOUS
<1> HIDE DEF data
<1>4. IsResult(result) /\ ~IsMissing(known, result)
  BY OkOrNull
<1> HIDE DEF known, result
<1>5. IsCall(call) /\ call.known = known /\ call.result = result
  BY <1>3, <1>4, GetCalls
<1> HIDE DEF call
<1> QED BY <1>1, <1>2, <1>4, <1>5, ShowsStep

LEMMA GetLoansStep ==
  ASSUME ControlOK, NEW r \in Requests, InCourse(r), UNCHANGED workload,
         GetLoansForFacility(r), Calls(r)
  PROVE  Step(r)
<1> DEFINE facilityIdentifier == FacilityIdentifier(r)
           exists == FacilityExists(facilityIdentifier)
           data == DataOf("Loan", facilityIdentifier)
           result == IfFacilityExists(facilityIdentifier, "FacilityNotFound", Ok(data))
<1>1. pc[r] = "getLoans" /\ Op(r) = "GET/facilities/<facilityIdentifier>/loans"
  BY LoanCourses DEF GetLoansForFacility, ReceivesFor, Receives, Calls
<1>2. AnswersIf(exists, result, data, "FacilityNotFound")
  BY DEF AnswersIf, IfFacilityExists, FacilityExists
<1>3. Shows(r, GetCall({"FacilityNotFound"}, result))
  BY <1>1 DEF GetLoansForFacility, ReceivesFor, Receives, Get, Shows, IsGiven,
              AcbsGetLoansForFacility
<1>4. ~exists => Absent(r)
  BY <1>1, FacilityAbsent DEF FacilityOps
<1> HIDE DEF exists, data, result
<1> QED BY <1>1, <1>2, <1>3, <1>4, ShowsIf, KnownTexts

\* Only an active facility may be charged, and it stays active.
LEMMA GetFacilityOfFeeStep ==
  ASSUME ControlOK, StoreOK, NEW r \in Requests, InCourse(r), UNCHANGED workload,
         CreateFixedFeeForFacility(r), pc[r] = "getFacilityOfFee"
  PROVE  Step(r)
<1> DEFINE facilityIdentifier == FacilityIdentifier(r)
           call == AcbsGetFacilityByIdentifier(facilityIdentifier)
<1>1. Op(r) = "POST/facilities/<facilityIdentifier>/fixed-fees" /\ Calls(r)
  BY LoanCourses DEF Calls
<1>2. UNCHANGED acbs
  BY DEF CreateFixedFeeForFacility, ReceivesArrayFor, ReceivesFor, Receives, Get
<1>3. PICK outcome \in GetOutcomes(call) :
        IF IsGiven(outcome[1])
        THEN \/ Throw(r, "BadRequestException")
             \/ Throw(r, "TypeError")
             \/ MayBeCharged(outcome[1].data) /\ Goto(r, "createFee", outcome[1].data)
        ELSE Throw(r, GetException(call, outcome[1]))
  BY DEF CreateFixedFeeForFacility, ReceivesArrayFor, ReceivesFor, Receives, Get, IsGiven
<1>4. IsCall(call) /\ (IsMissing(call.known, call.result) => Absent(r))
  BY <1>1, GetsFacility, FacilityAbsent DEF FacilityOps
<1>5. CASE ~IsGiven(outcome[1])
  BY <1>1, <1>2, <1>3, <1>4, <1>5, GetFails
<1>6. ASSUME NEW exception \in {"BadRequestException", "TypeError"}, Throw(r, exception)
      PROVE  Step(r)
  BY <1>1, <1>2, <1>6, ThrowsStep DEF HttpStatus, Calls
<1>7. CASE IsGiven(outcome[1]) /\ MayBeCharged(outcome[1].data)
           /\ Goto(r, "createFee", outcome[1].data)
  <2> DEFINE facility == outcome[1].data
  <2>1. call.result = Ok(facility)
    BY <1>4, <1>7, GetEnds
  <2>2. PICK i \in DOMAIN acbs : /\ FacilityIndexes(acbs, facilityIdentifier) = {i}
                                 /\ FacilityExists(facilityIdentifier)
                                 /\ acbs[i].data = facility
    BY <2>1, FacilityFound
  <2>3. \A j \in FacilityIndexes(acbs, facilityIdentifier) : IsActive(acbs, j)
    BY <1>7, <2>2 DEF IsActive, MayBeCharged
  <2>4. pc'[r] = "createFee"
    BY <1>1, <1>7, GotoMoves DEF Calls
  <2>5. /\ FacilityExists(FacilityIdentifier(r))'
        /\ \A j \in FacilityIndexes(acbs', facilityIdentifier) : IsActive(acbs', j)
    BY <1>2, <2>2, <2>3 DEF FacilityExists, FacilityIdentifier, Params
  <2>6. Knows(r)'
    BY <2>4, <2>5 DEF Knows, KnowsParty, KnowsFacility, KnowsParts, KnowsLoan,
                      FacilityIdentifier, Params
  <2>7. IsCourse(Op(r), "createFee")
    BY <1>1 DEF IsCourse, LoanCourse
  <2> QED BY <1>1, <1>2, <1>7, <2>6, <2>7, MovesStep DEF Calls
<1> QED BY <1>3, <1>5, <1>6, <1>7

\* A fee may be added to a facility that is active.
LEMMA AddsFee ==
  ASSUME NEW r, NEW facilityIdentifier, NEW fee, FacilityExists(facilityIdentifier),
         \A i \in FacilityIndexes(acbs, facilityIdentifier) : IsActive(acbs, i),
         FieldsOf("FixedFee") \subseteq DOMAIN fee, fee.FixedFeeAmount = Body(r)[1].amount,
         acbs' = Added(r, "FixedFee", facilityIdentifier, fee)
  PROVE  Wrote(r)
<1> DEFINE entity == [kind |-> "FixedFee", owner |-> facilityIdentifier, data |-> fee, by |-> r]
<1>1. entity.by = r /\ IsEntity(entity) /\ entity.kind # "BundleInformation"
  BY DEF IsEntity
<1>2. IsPossible(acbs, workload.mdm, entity)
  BY DEF IsPossible, FacilityExists
<1>3. \A i \in DOMAIN acbs : AreDistinct(workload.serial, acbs[i], entity)
  BY DEF AreDistinct
<1>4. acbs' = Append(acbs, entity)
  BY DEF Added
<1>5. IsAsAsked(r, entity)
  BY DEF IsAsAsked
<1> HIDE DEF entity
<1> QED BY <1>1, <1>2, <1>3, <1>4, <1>5 DEF Wrote

LEMMA CreateFeeStep ==
  ASSUME ControlOK, StoreOK, NEW r \in Requests, InCourse(r), UNCHANGED workload,
         CreateFixedFeeForFacility(r), pc[r] = "createFee"
  PROVE  Step(r)
<1> DEFINE facilityIdentifier == FacilityIdentifier(r)
           fee == FixedFeeToCreateInAcbs(local[r], Body(r)[1])
           identified == [FacilityIdentifier |-> facilityIdentifier,
                          SegmentIdentifier |-> fee.SegmentIdentifier,
                          LenderTypeCode |-> fee.LenderTypeCode]
           isNew == FeeIndexes(acbs, identified) = {}
           data == Added(r, "FixedFee", facilityIdentifier, fee)
           known == {"InvalidPortfolioIdAndFacilityId", "FixedFeeExists"}
           result == IF FeeIndexes(acbs, identified) # {} THEN Refusal("FixedFeeExists")
                     ELSE IfFacilityExists(facilityIdentifier, "InvalidPortfolioIdAndFacilityId",
                                           Ok(data))
           body == [facilityIdentifier |-> facilityIdentifier]
<1>1. Op(r) = "POST/facilities/<facilityIdentifier>/fixed-fees" /\ Calls(r)
  BY LoanCourses DEF Calls
<1>2. /\ FacilityExists(facilityIdentifier)
      /\ \A i \in FacilityIndexes(acbs, facilityIdentifier) : IsActive(acbs, i)
  BY <1>1, CourseKnows DEF Knows, KnowsFacility
<1>3. AnswersIf(isNew, result, data, "FixedFeeExists")
  BY <1>2 DEF AnswersIf, IfFacilityExists
<1>4. Posts(r, known, result, 201, body)
  BY DEF CreateFixedFeeForFacility, ReceivesArrayFor, ReceivesFor, Receives,
         AcbsCreateFixedFeeForFacility, Write, WriteOr, Posts, AnswerFacility
<1>5. FieldsOf("FixedFee") \subseteq DOMAIN fee /\ fee.FixedFeeAmount = Body(r)[1].amount
  BY DEF FieldsOf, FixedFeeToCreateInAcbs
<1> HIDE DEF fee
<1>6. acbs' = data => Wrote(r)
  BY <1>2, <1>5, AddsFee
<1> HIDE DEF isNew, data, result, body
<1>7. /\ IsResult(result) /\ result # Null
      /\ result = Ok(acbs') => acbs' = data
  BY <1>3, OkIf
<1>8. known \subseteq DOMAIN KnownErrors
  BY KnownTexts
<1>9. ~IsMissing(known, result)
  <2>1. KnownErrors["FixedFeeExists"] = "AcbsBadRequestException"
    BY DEF KnownErrors
  <2>2. Ok(data) # Null
    BY OkOrNull
  <2>3. \A text : Refusal(text) # Ok(data)
    BY Results
  <2>4. \A text : Refusal(text) = Refusal("FixedFeeExists") => text = "FixedFeeExists"
    BY Results
  <2>5. result = Ok(data) \/ result = Refusal("FixedFeeExists")
    BY <1>3 DEF AnswersIf
  <2> HIDE DEF known
  <2> QED BY <1>7, <2>1, <2>3, <2>4, <2>5 DEF IsMissing
<1> HIDE DEF known
<1> QED BY <1>1, <1>4, <1>6, <1>7, <1>8, <1>9, PostsStep

LEMMA AmendFeesStep ==
  ASSUME ControlOK, StoreOK, NEW r \in Requests, InCourse(r), UNCHANGED workload,
         CreateAmountAmendmentForFixedFees(r), Calls(r)
  PROVE  Step(r)
<1> DEFINE messages == [i \in DOMAIN Body(r) |->
                          FeeAmountAmendmentMessage(FacilityIdentifier(r), Body(r)[i])]
           bundle == BundleInformation(SUBMIT_FOR_POSTING, None, messages)
<1>1. pc[r] = "amendFees" /\ Op(r) =
        "POST/facilities/<facilityIdentifier>/fixed-fees/amendments/amount"
  BY LoanCourses DEF CreateAmountAmendmentForFixedFees, ReceivesItemFor, Receives, Calls
<1>2. CreateBundleInformation(r, 201, bundle)
  BY <1>1 DEF CreateAmountAmendmentForFixedFees, ReceivesItemFor, Receives
<1>3. /\ 1 \in DOMAIN messages
      /\ \A k \in DOMAIN messages :
           /\ messages[k].type = "FacilityFeeAmountTransaction"
           /\ messages[k].FacilityIdentifier = FacilityIdentifier(r)
      /\ \A k \in DOMAIN Body(r) : Body(r)[k].amountAmendment \in Int
  <2>1. 1 \in DOMAIN Body(r) /\ \A k \in DOMAIN Body(r) : Body(r)[k].amountAmendment \in Int
    BY <1>1, CourseKnows DEF Knows, KnowsLoan
  <2> QED BY <2>1 DEF FeeAmountAmendmentMessage
<1> HIDE DEF messages
<1>4. bundle.BundleMessageList = messages
      /\ {"BundleStatusCode", "BundleMessageList"} \subseteq DOMAIN bundle
      /\ bundle.BundleStatusCode = BundleStatusCodes.PENDING_POSTING
  BY DEF BundleInformation, SUBMIT_FOR_POSTING, BundleStatusCodes
<1> HIDE DEF bundle
<1> DEFINE entity == [kind |-> "BundleInformation", owner |-> None, data |-> bundle, by |-> r]
<1>5. IsPossible(acbs, workload.mdm, entity)
  BY <1>3, <1>4 DEF IsPossible, IsFacilityCodeValueTransaction, IsNewLoanRequest
<1>8. IsAsAsked(r, entity)
  BY <1>1, <1>3, <1>4 DEF IsAsAsked, AmendFeesOp, messages
<1>6. IsBundle(r, bundle)
  BY <1>4, <1>5, <1>8 DEF IsBundle, FieldsOf
<1>7. (\E message \in Range(bundle.BundleMessageList) : Refused(message)) => Absent(r)
  BY <1>1, <1>3, <1>4, FacilityAbsent DEF Refused, IsLoanAdvanceTransaction, FacilityOps, Range
<1> QED BY <1>1, <1>2, <1>6, <1>7, BundleStep

LEMMA CreateLoanStep ==
  ASSUME ControlOK, StoreOK, NEW r \in Requests, InCourse(r), UNCHANGED workload,
         CreateLoanForFacility(r), Calls(r)
  PROVE  Step(r)
<1> DEFINE loan == Body(r)[1]
           message == NewLoanMessage(FacilityIdentifier(r), loan)
           bundle == BundleInformation(FACILITY_LOAN.initialBundleStatusCode,
                                       AddTime(loan.postingDate), <<message>>)
<1>1. pc[r] = "createLoan" /\ Op(r) = "POST/facilities/<facilityIdentifier>/loans"
  BY LoanCourses DEF CreateLoanForFacility, Receives, Calls
<1>2. CreateBundleInformation(r, 201, bundle)
  BY <1>1 DEF CreateLoanForFacility, Receives
<1>3. AddTime(loan.expiryDate) \in DateTimes
  BY <1>1, CourseKnows DEF Knows, KnowsLoan, AddTime, DateTimes
<1> HIDE DEF loan
<1>4. /\ message.type = "NewLoanRequest"
      /\ message.FacilityIdentifier = FacilityIdentifier(r)
      /\ message.CurrencyCode = loan.currency
      /\ message.MaturityDate = AddTime(loan.expiryDate)
      /\ message.RateMaturityDate = AddTime(loan.expiryDate)
      /\ message.FinancialNextValuationDate = NextValuationDate(loan)
      /\ message.CustomerUsageNextValuationDate = NextValuationDate(loan)
      /\ {"CurrencyCode", "MaturityDate", "RateMaturityDate", "FinancialNextValuationDate",
          "CustomerUsageNextValuationDate"} \subseteq DOMAIN message
  BY DEF NewLoanMessage
<1> HIDE DEF message
<1>5. FieldsOf("Loan") \subseteq DOMAIN message
  BY <1>4 DEF FieldsOf
<1>6. MaturesOnADate(message)
  BY <1>3, <1>4 DEF MaturesOnADate, DatesAgree, NextValuationDate
<1>7. Refused(message) => Absent(r)
  BY <1>1, <1>4, FacilityAbsent DEF Refused, IsLoanAdvanceTransaction, FacilityOps
<1>8. IsBundle(r, bundle) /\ Range(bundle.BundleMessageList) = {message}
  BY <1>1, <1>4, <1>5, <1>6, OneMessage DEF IsFacilityCodeValueTransaction, AmendFeesOp
<1> HIDE DEF bundle
<1> QED BY <1>1, <1>2, <1>7, <1>8, BundleStep

LEMMA LoanAbsent ==
  ASSUME ControlOK, NEW r \in Requests,
         Op(r) \in {"POST/facilities/<facilityIdentifier>/loans/<loanIdentifier>/amendments/amount",
                    "PATCH/facilities/<facilityIdentifier>/loans/<loanIdentifier>"},
         ~LoanExists(Params(r).loanIdentifier)
  PROVE  Absent(r)
<1>1. "loanIdentifier" \in DOMAIN Params(r)
  BY ParamsAre DEF ParamNames
<1> QED BY <1>1 DEF Absent

LEMMA AmendLoanStep ==
  ASSUME ControlOK, StoreOK, NEW r \in Requests, InCourse(r), UNCHANGED workload,
         CreateAmountAmendmentForLoan(r), Calls(r)
  PROVE  Step(r)
<1> DEFINE message == LoanAdvance(Params(r).loanIdentifier, Body(r)[1])
           bundle == BundleInformation(SUBMIT_FOR_POSTING, None, <<message>>)
<1>1. pc[r] = "amendLoan" /\ Op(r) =
        "POST/facilities/<facilityIdentifier>/loans/<loanIdentifier>/amendments/amount"
  BY LoanCourses DEF CreateAmountAmendmentForLoan, Receives, Calls
<1>2. CreateBundleInformation(r, 201, bundle)
  BY <1>1 DEF CreateAmountAmendmentForLoan, Receives
<1>3. message.type = "LoanAdvanceTransaction"
      /\ message.LoanIdentifier = Params(r).loanIdentifier
  BY DEF LoanAdvance
<1>4. Refused(message) => Absent(r)
  BY <1>1, <1>3, LoanAbsent DEF Refused, IsLoanAdvanceTransaction
<1> HIDE DEF message
<1>5. IsBundle(r, bundle) /\ Range(bundle.BundleMessageList) = {message}
  BY <1>1, <1>3, OneMessage
     DEF IsFacilityCodeValueTransaction, IsNewLoanRequest, AmendFeesOp
<1> HIDE DEF bundle
<1> QED BY <1>1, <1>2, <1>4, <1>5, BundleStep

LEMMA GetLoanToUpdateStep ==
  ASSUME ControlOK, StoreOK, NEW r \in Requests, InCourse(r), UNCHANGED workload,
         UpdateLoanExpiryDate(r), pc[r] = "getLoanToUpdate"
  PROVE  Step(r)
<1> DEFINE loanIdentifier == Params(r).loanIdentifier
           exists == LoanExists(loanIdentifier)
           data == acbs[loanIdentifier].data
           known == {"LoanNotFound"}
           result == IF exists THEN Ok(data) ELSE Refusal("LoanNotFound")
           call == GetCall(known, result)
<1>1. Op(r) = "PATCH/facilities/<facilityIdentifier>/loans/<loanIdentifier>" /\ Calls(r)
  BY LoanCourses DEF Calls
<1>2. AnswersIf(exists, result, data, "LoanNotFound")
  BY DEF AnswersIf, LoanExists
<1>3. UNCHANGED acbs
  BY DEF UpdateLoanExpiryDate, ReceivesFor, Receives, Get
<1>4. PICK outcome \in GetOutcomes(call) :
        IF IsGiven(outcome[1]) THEN Goto(r, "putLoan", outcome[1].data)
        ELSE Throw(r, GetException(call, outcome[1]))
  BY DEF UpdateLoanExpiryDate, ReceivesFor, Receives, Get, IsGiven, AcbsGetLoanByIdentifier
<1>5. ~exists => Absent(r)
  BY <1>1, LoanAbsent
<1>6. exists => FieldsOf("Loan") \subseteq DOMAIN data /\ MaturesOnADate(data)
  BY DEF LoanExists, StoreOK, IsStore, IsEntity, IsPossible
<1>7. Body(r).expiryDate \in Dates
  BY <1>1, CourseKnows DEF Knows, KnowsLoan
<1>8. known \subseteq DOMAIN KnownErrors
  BY KnownTexts
<1> HIDE DEF exists, data, result, known
<1>9. /\ IsResult(result)
      /\ \A other : result = Ok(other) => exists /\ other = data
      /\ IsMissing(known, result) => ~exists
  BY <1>2, OkIf
<1>10. IsCall(call) /\ call.known = known /\ call.result = result
  BY <1>8, <1>9, GetCalls
<1> HIDE DEF call
<1>11. CASE ~IsGiven(outcome[1])
  BY <1>1, <1>3, <1>4, <1>5, <1>9, <1>10, <1>11, GetFails
<1>12. CASE IsGiven(outcome[1])
  <2> DEFINE loan == outcome[1].data
  <2>1. exists /\ loan = data
    BY <1>9, <1>10, <1>12, GetEnds
  <2>2. pc'[r] = "putLoan" /\ local'[r] = loan
    BY <1>1, <1>4, <1>12, GotoMoves DEF Calls
  <2>3. /\ FieldsOf("Loan") \subseteq DOMAIN local'[r]
        /\ MaturesOnADate(local'[r])
    BY <1>6, <2>1, <2>2
  <2>4. Knows(r)'
    BY <1>7, <2>2, <2>3
       DEF Knows, KnowsParty, KnowsFacility, KnowsParts, KnowsLoan, Body
  <2>5. IsCourse(Op(r), "putLoan")
    BY <1>1 DEF IsCourse, LoanCourse
  <2> QED BY <1>1, <1>3, <1>4, <1>12, <2>4, <2>5, MovesStep DEF Calls
<1> QED BY <1>11, <1>12

\* The dates of a loan keep agreeing when it gets another expiry date.
LEMMA ExpiryDatesAgree ==
  ASSUME NEW loan, FieldsOf("Loan") \subseteq DOMAIN loan, MaturesOnADate(loan),
         NEW expiryDate \in Dates
  PROVE  /\ FieldsOf("Loan") \subseteq DOMAIN LoanWithExpiryDate(loan, expiryDate)
         /\ MaturesOnADate(LoanWithExpiryDate(loan, expiryDate))
<1> DEFINE date == AddTime(expiryDate)
           new == LoanWithExpiryDate(loan, expiryDate)
<1>1. date \in DateTimes
  BY DEF AddTime, DateTimes
<1>2. {"CurrencyCode", "MaturityDate", "RateMaturityDate", "FinancialNextValuationDate",
       "CustomerUsageNextValuationDate"} \subseteq DOMAIN loan
  BY DEF FieldsOf
<1>3. loan.MaturityDate # None
  <2>1. PICK day \in Dates : loan.MaturityDate = <<day, "T00:00:00Z">>
    BY DEF MaturesOnADate, DateTimes
  <2> QED BY <2>1, AcbsHttpAssumption
<1> HIDE DEF date
<1>4. /\ DOMAIN new = DOMAIN loan
      /\ new.CurrencyCode = loan.CurrencyCode
      /\ new.MaturityDate = date
      /\ new.RateMaturityDate = date
      /\ new.FinancialNextValuationDate =
           IF loan.FinancialNextValuationDate = None THEN None ELSE date
      /\ new.CustomerUsageNextValuationDate =
           IF loan.CustomerUsageNextValuationDate = None THEN None ELSE date
  BY <1>2 DEF LoanWithExpiryDate, date
<1> HIDE DEF new
<1>5. FieldsOf("Loan") \subseteq DOMAIN new /\ MaturesOnADate(new)
  BY <1>1, <1>3, <1>4 DEF MaturesOnADate, DatesAgree
<1> QED BY <1>5 DEF new

LEMMA PutLoanStep ==
  ASSUME ControlOK, StoreOK, NEW r \in Requests, InCourse(r), UNCHANGED workload,
         UpdateLoanExpiryDate(r), pc[r] = "putLoan"
  PROVE  Step(r)
<1> DEFINE loanIdentifier == Params(r).loanIdentifier
           loan == LoanWithExpiryDate(local[r], Body(r).expiryDate)
           exists == LoanExists(loanIdentifier)
           data == Replaced(r, loanIdentifier, loan)
           result == IF exists THEN Ok(data) ELSE Refusal("LoanNotFound")
           body == [loanIdentifier |-> loanIdentifier]
<1>1. Op(r) = "PATCH/facilities/<facilityIdentifier>/loans/<loanIdentifier>" /\ Calls(r)
  BY LoanCourses DEF Calls
<1>2. AnswersIf(exists, result, data, "LoanNotFound")
  BY DEF AnswersIf, LoanExists
<1>3. Posts(r, {"LoanNotFound"}, result, 200, body)
  BY DEF UpdateLoanExpiryDate, ReceivesFor, Receives, AcbsUpdateLoanByIdentifier, Write, WriteOr,
         Posts
<1>4. ~exists => Absent(r)
  BY <1>1, LoanAbsent
<1>5. FieldsOf("Loan") \subseteq DOMAIN loan /\ MaturesOnADate(loan)
  BY <1>1, CourseKnows, ExpiryDatesAgree DEF Knows, KnowsLoan
<1> HIDE DEF loan
<1>6. exists /\ acbs' = data => Wrote(r)
  BY <1>5, ReplacesInPlace DEF LoanExists, IsPossible, IsSame, Patches
<1> HIDE DEF exists, data, result, body
<1> QED BY <1>1, <1>2, <1>3, <1>4, <1>6, PostsIf, KnownTexts DEF Calls

LEMMA LoanStep ==
  ASSUME ControlOK, StoreOK, NEW r \in Requests, InCourse(r), UNCHANGED workload,
         LoanHandler(r), pc[r] # "done"
  PROVE  Step(r)
<1>1. CASE pc[r] = "received"
  BY <1>1, LoanBegins
<1>2. CASE Calls(r)
  <2>1. CASE CreateFixedFeeForFacility(r)
    <3>1. pc[r] \in {"getFacilityOfFee", "createFee"}
      BY <1>2, <2>1 DEF CreateFixedFeeForFacility, ReceivesArrayFor, ReceivesFor, Receives, Calls
    <3> QED BY <2>1, <3>1, GetFacilityOfFeeStep, CreateFeeStep
  <2>2. CASE UpdateLoanExpiryDate(r)
    <3>1. pc[r] \in {"getLoanToUpdate", "putLoan"}
      BY <1>2, <2>2 DEF UpdateLoanExpiryDate, ReceivesFor, Receives, Calls
    <3> QED BY <2>2, <3>1, GetLoanToUpdateStep, PutLoanStep
  <2> QED BY <1>2, <2>1, <2>2, CreateActivationStep, GetActivationStep, GetFeesStep,
             AmendFeesStep, GetLoansStep, CreateLoanStep, GetLoanTransactionStep, AmendLoanStep
          DEF LoanHandler
<1> QED BY <1>1, <1>2 DEF Calls

-----------------------------------------------------------------------------
(* Parties and their ratings.                                              *)

LEMMA PartyCourses ==
  ASSUME NEW r, InCourse(r)
  PROVE  /\ pc[r] = "searchForParties" => Op(r) = "GET/parties"
         /\ pc[r] = "getParty" => Op(r) = "GET/parties/<partyIdentifier>"
         /\ pc[r] = "getExternalRatings" =>
              Op(r) = "GET/parties/<partyIdentifier>/external-ratings"
         /\ pc[r] \in {"searchForParty", "createParty", "getRatings", "findCustomers",
                       "createRating"} => Op(r) = "POST/parties"
BY DEF InCourse, IsCourse, PartyCourse, DealCourse, FacilityCourse, FacilityPartCourse, LoanCourse

LEMMA PartyBeginnings ==
  ASSUME NEW r, pc[r] = "received", PartyHandler(r)
  PROVE  \/ Begins(r, "GET/parties", "searchForParties")
         \/ Begins(r, "GET/parties/<partyIdentifier>", "getParty")
         \/ Begins(r, "GET/parties/<partyIdentifier>/external-ratings", "getExternalRatings")
         \/ Begins(r, "POST/parties", "searchForParty")
BY DEF PartyHandler, GetPartiesBySearchText, GetPartyByIdentifier, GetExternalRatingsForParty,
       PostParties, ReceiveParty, SearchForParty, CreateParty, GetRatingsOfParty,
       FindCustomerType, CreateRating, ValidatedItem, ValidatedItems, Validated, Begins

LEMMA PartyBegins ==
  ASSUME ControlOK, NEW r \in Requests, UNCHANGED workload, pc[r] = "received", PartyHandler(r)
  PROVE  Step(r)
BY PartyBeginnings, BeginsUninformed DEF IsCourse, PartyCourse, Informed

LEMMA PartyAbsent ==
  ASSUME ControlOK, NEW r \in Requests, ~IsParty(Params(r).partyIdentifier),
         Op(r) \in {"GET/parties/<partyIdentifier>",
                    "GET/parties/<partyIdentifier>/external-ratings"}
  PROVE  Absent(r)
<1>1. "partyIdentifier" \in DOMAIN Params(r)
  BY ParamsAre DEF ParamNames
<1> QED BY <1>1 DEF Absent

\* What ACBS answers a search with is the parties of the identifier.
LEMMA SearchFinds ==
  ASSUME StoreOK, NEW searchText
  PROVE  LET call == AcbsGetPartyBySearchText(searchText)
             found == SetToSeq(PartiesOf(searchText))
         IN  /\ IsCall(call) /\ ~IsMissing(call.known, call.result)
             /\ \A data : call.result = Ok(data) => data = found
             /\ found = <<>> => PartiesOf(searchText) = {}
             /\ found # <<>> => found[1] \in PartiesOf(searchText)
<1> DEFINE S == PartiesOf(searchText)
           found == SetToSeq(S)
           known == {}
           result == Ok(found)
<1>1. DOMAIN acbs = 1..Len(acbs) /\ Len(acbs) \in Nat
  BY IsASequence DEF StoreOK, IsStore
<1>2. IsFiniteSet(DOMAIN acbs) /\ S \in SUBSET DOMAIN acbs
  BY <1>1, FS_Interval DEF PartiesOf
<1>3. IsFiniteSet(S)
  BY <1>2, FS_Subset
<1>4. AcbsGetPartyBySearchText(searchText) = GetCall(known, result)
  BY DEF AcbsGetPartyBySearchText
<1> HIDE DEF S
<1>5. found \in Seq(S) /\ (found = <<>> => S = {})
  BY <1>3, SetAsASequence
<1> HIDE DEF found
<1>6. found # <<>> => found[1] \in S
  BY <1>5
<1>7. known \subseteq DOMAIN KnownErrors
  OBVIOUS
<1> HIDE DEF known
<1>8. IsResult(result) /\ (\A data : result = Ok(data) => data = found)
      /\ (IsMissing(known, result) => result = Null) /\ result # Null
  BY OkOrNull
<1> HIDE DEF result
<1>9. IsCall(GetCall(known, result)) /\ GetCall(known, result).known = known
      /\ GetCall(known, result).result = result
  BY <1>7, <1>8, GetCalls
<1> QED BY <1>4, <1>5, <1>6, <1>8, <1>9 DEF S, found

LEMMA GetPartiesStep ==
  ASSUME ControlOK, StoreOK, NEW r \in Requests, InCourse(r), UNCHANGED workload,
         GetPartiesBySearchText(r), Calls(r)
  PROVE  Step(r)
<1> DEFINE call == AcbsGetPartyBySearchText(Params(r).searchText)
<1>1. pc[r] = "searchForParties" /\ Op(r) = "GET/parties"
  BY PartyCourses DEF GetPartiesBySearchText, Receives, Calls
<1>2. Shows(r, call)
  BY <1>1 DEF GetPartiesBySearchText, Receives, Get, Shows, IsGiven
<1>3. IsCall(call) /\ ~IsMissing(call.known, call.result)
  BY SearchFinds
<1> HIDE DEF call
<1> QED BY <1>1, <1>2, <1>3, ShowsStep

LEMMA GetPartyStep ==
  ASSUME ControlOK, StoreOK, NEW r \in Requests, InCourse(r), UNCHANGED workload,
         GetPartyByIdentifier(r), Calls(r)
  PROVE  Step(r)
<1> DEFINE exists == IsParty(Params(r).partyIdentifier)
           data == acbs[Params(r).partyIdentifier].data
           result == IF exists THEN Ok(data) ELSE Refusal("PartyNotFound")
<1>1. pc[r] = "getParty" /\ Op(r) = "GET/parties/<partyIdentifier>"
  BY PartyCourses DEF GetPartyByIdentifier, Receives, Calls
<1>2. AnswersIf(exists, result, data, "PartyNotFound")
  BY DEF AnswersIf, IsParty
<1>3. Shows(r, GetCall({"PartyNotFound"}, result))
  BY <1>1 DEF GetPartyByIdentifier, Receives, Get, Shows, IsGiven, AcbsGetPartyByIdentifier
<1>4. ~exists => Absent(r)
  BY <1>1, PartyAbsent
<1> HIDE DEF exists, data, result
<1> QED BY <1>1, <1>2, <1>3, <1>4, ShowsIf, KnownTexts

LEMMA GetExternalRatingsStep ==
  ASSUME ControlOK, StoreOK, NEW r \in Requests, InCourse(r), UNCHANGED workload,
         GetExternalRatingsForParty(r), Calls(r)
  PROVE  Step(r)
<1> DEFINE exists == IsParty(Params(r).partyIdentifier)
           data == DataOf("PartyExternalRating", Params(r).partyIdentifier)
           result == IF exists THEN Ok(data) ELSE Refusal("PartyNotFound")
<1>1. pc[r] = "getExternalRatings" /\ Op(r) = "GET/parties/<partyIdentifier>/external-ratings"
  BY PartyCourses DEF GetExternalRatingsForParty, Receives, Calls
<1>2. AnswersIf(exists, result, data, "PartyNotFound")
  BY DEF AnswersIf, IsParty
<1>3. Shows(r, GetCall({"PartyNotFound"}, result))
  BY <1>1 DEF GetExternalRatingsForParty, Receives, Get, Shows, IsGiven,
              AcbsGetExternalRatingsForParty
<1>4. ~exists => Absent(r)
  BY <1>1, PartyAbsent
<1> HIDE DEF exists, data, result
<1> QED BY <1>1, <1>2, <1>3, <1>4, ShowsIf, KnownTexts

\* POST /parties goes on with a party of the identifier it was given.
LEMMA KnowsItsParty ==
  ASSUME NEW r, UNCHANGED workload, pc'[r] = "getRatings",
         NEW i \in DOMAIN acbs', acbs'[i].kind = "Party",
         acbs'[i].data.PartyAlternateIdentifier = PartyToCreate(r).alternateIdentifier,
         local'[r].partyIdentifier = i, local'[r].status \in {200, 201}
  PROVE  Knows(r)'
<1>1. PartyToCreate(r)' = PartyToCreate(r)
  BY DEF PartyToCreate, Body
<1> QED BY <1>1 DEF Knows, KnowsParty, KnowsFacility, KnowsParts, KnowsLoan, IsParty

LEMMA SearchForPartyStep ==
  ASSUME ControlOK, StoreOK, NEW r \in Requests, InCourse(r), UNCHANGED workload,
         SearchForParty(r)
  PROVE  Step(r)
<1> DEFINE alternateIdentifier == PartyToCreate(r).alternateIdentifier
           call == AcbsGetPartyBySearchText(alternateIdentifier)
           found == SetToSeq(PartiesOf(alternateIdentifier))
<1>1. pc[r] = "searchForParty" /\ Op(r) = "POST/parties" /\ Calls(r)
  BY PartyCourses DEF SearchForParty, Calls
<1>2. UNCHANGED acbs
  BY DEF SearchForParty, Get
<1>3. PICK outcome \in GetOutcomes(call) :
        IF IsGiven(outcome[1])
        THEN IF outcome[1].data = <<>> THEN Goto(r, "createParty", None)
             ELSE Goto(r, "getRatings", [partyIdentifier |-> outcome[1].data[1], status |-> 200])
        ELSE Throw(r, GetException(call, outcome[1]))
  BY DEF SearchForParty, Get, IsGiven
<1>4. /\ IsCall(call) /\ ~IsMissing(call.known, call.result)
      /\ \A data : call.result = Ok(data) => data = found
      /\ found = <<>> => PartiesOf(alternateIdentifier) = {}
      /\ found # <<>> => found[1] \in PartiesOf(alternateIdentifier)
  BY SearchFinds
<1> HIDE DEF call, found, alternateIdentifier
<1>5. CASE ~IsGiven(outcome[1])
  BY <1>1, <1>2, <1>3, <1>4, <1>5, GetFails
<1>6. CASE IsGiven(outcome[1])
  <2>1. outcome[1].data = found
    BY <1>4, <1>6, GetEnds
  <2>2. CASE found = <<>>
    <3>1. Goto(r, "createParty", None)
      BY <1>3, <1>6, <2>1, <2>2
    <3>2. pc'[r] = "createParty"
      BY <1>1, <3>1, GotoMoves DEF Calls
    <3>3. PartiesOf(alternateIdentifier)' = {}
      BY <1>2, <1>4, <2>2 DEF PartiesOf, IsParty, alternateIdentifier, PartyToCreate, Body
    <3>4. Knows(r)'
      BY <3>2, <3>3 DEF Knows, KnowsParty, KnowsFacility, KnowsParts, KnowsLoan,
                        alternateIdentifier
    <3>5. IsCourse(Op(r), "createParty")
      BY <1>1 DEF IsCourse, PartyCourse
    <3> QED BY <1>1, <1>2, <3>1, <3>4, <3>5, MovesStep DEF Calls
  <2>3. CASE found # <<>>
    <3> DEFINE party == found[1]
               loc == [partyIdentifier |-> party, status |-> 200]
    <3>1. Goto(r, "getRatings", loc)
      BY <1>3, <1>6, <2>1, <2>3
    <3>2. pc'[r] = "getRatings" /\ local'[r] = loc
      BY <1>1, <3>1, GotoMoves DEF Calls
    <3>3. party \in PartiesOf(alternateIdentifier)
      BY <1>4, <2>3
    <3> HIDE DEF party
    <3>4. /\ party \in DOMAIN acbs' /\ acbs'[party].kind = "Party"
          /\ acbs'[party].data.PartyAlternateIdentifier = alternateIdentifier
      BY <1>2, <3>3 DEF PartiesOf, IsParty
    <3>5. loc.partyIdentifier = party /\ loc.status = 200
      OBVIOUS
    <3> HIDE DEF loc
    <3>6. Knows(r)'
      BY <3>2, <3>4, <3>5, KnowsItsParty DEF alternateIdentifier
    <3>7. IsCourse(Op(r), "getRatings")
      BY <1>1 DEF IsCourse, PartyCourse
    <3> QED BY <1>1, <1>2, <3>1, <3>6, <3>7, MovesStep DEF Calls
  <2> QED BY <2>2, <2>3
<1> QED BY <1>5, <1>6

\* In a serial workload ACBS has no other party of the identifier.
LEMMA AddsParty ==
  ASSUME NEW r, NEW party,
         workload.serial => PartiesOf(party.PartyAlternateIdentifier) = {},
         acbs' = Added(r, "Party", None, party)
  PROVE  Wrote(r)
<1> DEFINE entity == [kind |-> "Party", owner |-> None, data |-> party, by |-> r]
<1>1. entity.by = r /\ IsEntity(entity) /\ entity.kind \notin {"BundleInformation", "FixedFee"}
  BY DEF IsEntity, FieldsOf
<1>2. IsPossible(acbs, workload.mdm, entity)
  BY DEF IsPossible
<1>3. \A i \in DOMAIN acbs : AreDistinct(workload.serial, acbs[i], entity)
  BY DEF AreDistinct, PartiesOf, IsParty
<1>4. acbs' = Append(acbs, entity)
  BY DEF Added
<1> HIDE DEF entity
<1> QED BY <1>1, <1>2, <1>3, <1>4 DEF Wrote, IsAsAsked

LEMMA CreatePartyStep ==
  ASSUME ControlOK, StoreOK, NEW r \in Requests, InCourse(r), UNCHANGED workload,
         CreateParty(r)
  PROVE  Step(r)
<1> DEFINE party == BuildAcbsCreatePartyRequest(PartyToCreate(r))
           alternateIdentifier == PartyToCreate(r).alternateIdentifier
           known == {}
           data == Added(r, "Party", None, party)
           result == Ok(data)
           loc == [partyIdentifier |-> Len(acbs) + 1, status |-> 201]
<1>1. pc[r] = "createParty" /\ Op(r) = "POST/parties" /\ Calls(r)
  BY PartyCourses DEF CreateParty, Calls
<1>2. PICK outcome \in WriteOutcomes(result) :
        /\ acbs' = outcome[2]
        /\ IF outcome[1].status = 200 THEN Goto(r, "getRatings", loc)
           ELSE Throw(r, WrapAcbsHttpPostOrPutError(known, outcome[1]))
  BY DEF CreateParty, AcbsCreateParty, Write, WriteOr
<1>3. party.PartyAlternateIdentifier = alternateIdentifier
  BY DEF BuildAcbsCreatePartyRequest
<1>4. workload.serial => PartiesOf(alternateIdentifier) = {}
  BY <1>1, CourseKnows DEF Knows, KnowsParty
<1> HIDE DEF party
<1>5. acbs' = data => Wrote(r)
  BY <1>3, <1>4, AddsParty
<1>6. known \subseteq DOMAIN KnownErrors
  OBVIOUS
<1>7. ASSUME acbs' = data
      PROVE  Len(acbs) + 1 \in DOMAIN acbs' /\ acbs'[Len(acbs) + 1].kind = "Party"
             /\ acbs'[Len(acbs) + 1].data = party
  <2> DEFINE entity == [kind |-> "Party", owner |-> None, data |-> party, by |-> r]
  <2>1. Len(acbs) \in Nat /\ acbs \in Seq(Range(acbs))
    BY IsASequence DEF StoreOK, IsStore
  <2>2. entity.kind = "Party" /\ entity.data = party
    OBVIOUS
  <2>3. acbs' = Append(acbs, entity)
    BY <1>7 DEF Added
  <2> HIDE DEF entity
  <2>4. Len(acbs) + 1 \in DOMAIN acbs' /\ acbs'[Len(acbs) + 1] = entity
    BY <2>1, <2>3
  <2> QED BY <2>2, <2>4
<1>8. loc.partyIdentifier = Len(acbs) + 1 /\ loc.status = 201
  OBVIOUS
<1> HIDE DEF data, known, loc
<1>9. /\ IsResult(result) /\ result # Null
      /\ \A other : result = Ok(other) => other = data
      /\ ~IsMissing(known, result)
  BY OkOrNull
<1> HIDE DEF result
<1>10. CASE outcome[1].status # 200
  BY <1>1, <1>2, <1>5, <1>6, <1>9, <1>10, WriteFails
<1>11. CASE outcome[1].status = 200
  <2>1. acbs' = data
    BY <1>2, <1>6, <1>9, <1>11, WriteEnds
  <2>2. Frame(r) /\ pc'[r] = "getRatings" /\ local'[r] = loc
    BY <1>1, <1>2, <1>11, GotoMoves DEF Calls
  <2>3. Knows(r)'
    BY <1>3, <1>7, <1>8, <2>1, <2>2, KnowsItsParty
  <2>4. Lands(r)
    BY <1>1, <2>2, <2>3 DEF Lands, IsCourse, PartyCourse
  <2>5. ~WroteNothing(r)'
    BY <1>1 DEF WroteNothing, WritesSeveral, Op
  <2> QED BY <1>5, <2>1, <2>2, <2>4, <2>5 DEF Step
<1> QED BY <1>10, <1>11

\* What POST /parties answers with is a party that is rated.
LEMMA AnswersPartyStep ==
  ASSUME ControlOK, NEW r \in Requests, UNCHANGED <<workload, acbs>>, Calls(r),
         pc[r] # "restrictDeal", Op(r) = "POST/parties",
         local[r].status \in {200, 201}, AnswerParty(r), RatingsOf(local[r].partyIdentifier) # {}
  PROVE  Step(r)
<1> DEFINE body == [partyIdentifier |-> local[r].partyIdentifier]
<1>1. Reply(r, local[r].status, body)
  BY DEF AnswerParty
<1>2. Frame(r) /\ pc'[r] = "done" /\ answer'[r].status = local[r].status
      /\ answer'[r].body = body
  BY <1>1, ReplyEnds DEF Calls
<1>3. PICK i \in RatingsOf(local[r].partyIdentifier) : TRUE
  OBVIOUS
<1>4. i \in DOMAIN acbs' /\ acbs'[i].kind = "PartyExternalRating"
      /\ acbs'[i].owner = answer'[r].body.partyIdentifier
  BY <1>2, <1>3 DEF RatingsOf, EntitiesOf
<1>5. Fulfilled(r)'
  BY <1>4 DEF Fulfilled, RatingsOf, EntitiesOf, Op
<1>6. ~WroteNothing(r)'
  BY DEF WroteNothing, WritesSeveral, Op
<1> QED BY <1>2, <1>5, <1>6 DEF Step, Lands

LEMMA RatesAre ==
  ASSUME StoreOK, NEW party, IsParty(party)
  PROVE  LET call == AcbsGetExternalRatingsForParty(party)
             ratings == DataOf("PartyExternalRating", party)
         IN  /\ IsCall(call) /\ ~IsMissing(call.known, call.result)
             /\ \A data : call.result = Ok(data) => data = ratings
             /\ ratings = <<>> <=> RatingsOf(party) = {}
<1> DEFINE ratings == DataOf("PartyExternalRating", party)
           known == {"PartyNotFound"}
           result == Ok(ratings)
<1>1. AcbsGetExternalRatingsForParty(party) = GetCall(known, result)
  BY DEF AcbsGetExternalRatingsForParty
<1>2. RatingsOf(party) = Indexes("PartyExternalRating", party)
  BY DEF RatingsOf, EntitiesOf, Indexes
<1>3. /\ ratings \in Seq(Range(ratings))
      /\ \A k \in DOMAIN ratings : \E i \in Indexes("PartyExternalRating", party) :
             ratings[k] = acbs[i].data
      /\ ratings = <<>> => Indexes("PartyExternalRating", party) = {}
  BY DataFound
<1>4. known \subseteq DOMAIN KnownErrors
  BY KnownTexts
<1> HIDE DEF ratings, known
<1>5. ratings # <<>> => Indexes("PartyExternalRating", party) # {}
  <2>1. ratings # <<>> => 1 \in DOMAIN ratings
    BY <1>3, EmptySeq
  <2> QED BY <1>3, <2>1
<1>6. IsResult(result) /\ (\A data : result = Ok(data) => data = ratings)
      /\ (IsMissing(known, result) => result = Null) /\ result # Null
  BY OkOrNull
<1> HIDE DEF result
<1>7. IsCall(GetCall(known, result)) /\ GetCall(known, result).known = known
      /\ GetCall(known, result).result = result
  BY <1>4, <1>6, GetCalls
<1> QED BY <1>1, <1>2, <1>3, <1>5, <1>6, <1>7 DEF ratings

\* What POST /parties knows of its party stays when nothing is written.
LEMMA PartyToRate ==
  ASSUME NEW r, UNCHANGED <<workload, acbs>>, KnowsParty(r),
         pc[r] \in {"getRatings", "findCustomers"},
         pc'[r] \in {"findCustomers", "createRating"},
         local'[r].partyIdentifier = local[r].partyIdentifier,
         local'[r].status = local[r].status,
         workload.serial => RatingsOf(local[r].partyIdentifier) = {},
         pc'[r] = "createRating" =>
             IsRatingOf(workload.mdm[PartyToCreate(r).alternateIdentifier],
                        local'[r].assignedRatingCode)
  PROVE  Knows(r)'
<1> DEFINE party == local[r].partyIdentifier
<1>1. PartyToCreate(r)' = PartyToCreate(r)
  BY DEF PartyToCreate, Body
<1>2. /\ party \in DOMAIN acbs /\ acbs[party].kind = "Party"
      /\ acbs[party].data.PartyAlternateIdentifier = PartyToCreate(r).alternateIdentifier
      /\ local[r].status \in {200, 201}
  BY DEF KnowsParty, IsParty
<1>3. workload.serial => \A i \in DOMAIN acbs :
          ~(acbs[i].kind = "PartyExternalRating" /\ acbs[i].owner = party)
  BY DEF RatingsOf, EntitiesOf
<1> QED BY <1>1, <1>2, <1>3
        DEF Knows, KnowsParty, KnowsFacility, KnowsParts, KnowsLoan, IsParty, RatingsOf,
            EntitiesOf

LEMMA GetRatingsStep ==
  ASSUME ControlOK, StoreOK, NEW r \in Requests, InCourse(r), UNCHANGED workload,
         GetRatingsOfParty(r)
  PROVE  Step(r)
<1> DEFINE party == local[r].partyIdentifier
           call == AcbsGetExternalRatingsForParty(party)
           ratings == DataOf("PartyExternalRating", party)
<1>1. pc[r] = "getRatings" /\ Op(r) = "POST/parties" /\ Calls(r)
  BY PartyCourses DEF GetRatingsOfParty, Calls
<1>2. UNCHANGED acbs
  BY DEF GetRatingsOfParty, Get
<1>3. PICK outcome \in GetOutcomes(call) :
        IF IsGiven(outcome[1])
        THEN IF outcome[1].data = <<>> THEN Goto(r, "findCustomers", local[r]) ELSE AnswerParty(r)
        ELSE Throw(r, GetException(call, outcome[1]))
  BY DEF GetRatingsOfParty, Get, IsGiven
<1>4. KnowsParty(r) /\ IsParty(party) /\ local[r].status \in {200, 201}
  BY <1>1, CourseKnows DEF Knows, KnowsParty
<1>5. /\ IsCall(call) /\ ~IsMissing(call.known, call.result)
      /\ \A data : call.result = Ok(data) => data = ratings
      /\ ratings = <<>> <=> RatingsOf(party) = {}
  BY <1>4, RatesAre
<1> HIDE DEF call, ratings
<1>6. CASE ~IsGiven(outcome[1])
  BY <1>1, <1>2, <1>3, <1>5, <1>6, GetFails
<1>7. CASE IsGiven(outcome[1])
  <2>1. outcome[1].data = ratings
    BY <1>5, <1>7, GetEnds
  <2>2. CASE ratings = <<>>
    <3>1. Goto(r, "findCustomers", local[r])
      BY <1>3, <1>7, <2>1, <2>2
    <3>2. pc'[r] = "findCustomers" /\ local'[r] = local[r]
      BY <1>1, <3>1, GotoMoves DEF Calls
    <3>3. Knows(r)'
      BY <1>1, <1>2, <1>4, <1>5, <2>2, <3>2, PartyToRate
    <3>4. IsCourse(Op(r), "findCustomers")
      BY <1>1 DEF IsCourse, PartyCourse
    <3> QED BY <1>1, <1>2, <3>1, <3>3, <3>4, MovesStep DEF Calls
  <2>3. CASE ratings # <<>>
    <3>1. AnswerParty(r)
      BY <1>3, <1>7, <2>1, <2>3
    <3> QED BY <1>1, <1>2, <1>4, <1>5, <2>3, <3>1, AnswersPartyStep
  <2> QED BY <2>2, <2>3
<1> QED BY <1>6, <1>7

\* The rating is that of the first customer, and corporate if there is none.
LEMMA RatingOfTypes ==
  ASSUME NEW types
  PROVE  IsRatingOf(types, AssignedRatingCode(GetPartyCustomerType(types)))
<1>1. ASSIGNED_RATING_CODES.SOVEREIGN # ASSIGNED_RATING_CODES.CORPORATE
  BY DEF ASSIGNED_RATING_CODES
<1> QED BY <1>1, AcbsPartyAssumption DEF IsRatingOf, AssignedRatingCode, GetPartyCustomerType

LEMMA FindCustomerTypeStep ==
  ASSUME ControlOK, StoreOK, NEW r \in Requests, InCourse(r), UNCHANGED workload,
         FindCustomerType(r)
  PROVE  Step(r)
<1> DEFINE types == workload.mdm[PartyToCreate(r).alternateIdentifier]
           loc == [partyIdentifier |-> local[r].partyIdentifier, status |-> local[r].status,
                   assignedRatingCode |-> AssignedRatingCode(GetPartyCustomerType(types))]
<1>1. pc[r] = "findCustomers" /\ Op(r) = "POST/parties" /\ Calls(r)
  BY PartyCourses DEF FindCustomerType, Calls
<1>2. UNCHANGED acbs
  BY DEF FindCustomerType
<1>3. Throw(r, "MdmException") \/ Goto(r, "createRating", loc)
  BY DEF FindCustomerType, FindCustomersByPartyUrn
<1>4. CASE Throw(r, "MdmException")
  BY <1>1, <1>2, <1>4, ThrowsStep DEF HttpStatus, Calls
<1>5. CASE Goto(r, "createRating", loc)
  <2>1. KnowsParty(r) /\ (workload.serial => RatingsOf(local[r].partyIdentifier) = {})
    BY <1>1, CourseKnows DEF Knows, KnowsParty
  <2>2. pc'[r] = "createRating" /\ local'[r] = loc
    BY <1>1, <1>5, GotoMoves DEF Calls
  <2>3. IsRatingOf(types, loc.assignedRatingCode)
    BY RatingOfTypes
  <2>4. loc.partyIdentifier = local[r].partyIdentifier /\ loc.status = local[r].status
    OBVIOUS
  <2> HIDE DEF loc
  <2>5. Knows(r)'
    BY <1>1, <1>2, <2>1, <2>2, <2>3, <2>4, PartyToRate
  <2>6. IsCourse(Op(r), "createRating")
    BY <1>1 DEF IsCourse, PartyCourse
  <2> QED BY <1>1, <1>2, <1>5, <2>5, <2>6, MovesStep DEF Calls
<1> QED BY <1>3, <1>4, <1>5

\* A rating may be added to a party that has none, if it is that of its type.
LEMMA AddsRating ==
  ASSUME NEW r, NEW party, NEW rating, IsParty(party),
         IsRatingOf(workload.mdm[acbs[party].data.PartyAlternateIdentifier],
                    rating.AssignedRatingCode),
         workload.serial => RatingsOf(party) = {},
         acbs' = Added(r, "PartyExternalRating", party, rating)
  PROVE  Wrote(r)
<1> DEFINE entity == [kind |-> "PartyExternalRating", owner |-> party, data |-> rating, by |-> r]
<1>1. entity.by = r /\ IsEntity(entity) /\ entity.kind \notin {"BundleInformation", "FixedFee"}
  BY DEF IsEntity, FieldsOf
<1>2. IsPossible(acbs, workload.mdm, entity)
  BY DEF IsPossible, IsParty
<1>3. \A i \in DOMAIN acbs : AreDistinct(workload.serial, acbs[i], entity)
  BY DEF AreDistinct, RatingsOf, EntitiesOf
<1>4. acbs' = Append(acbs, entity)
  BY DEF Added
<1> HIDE DEF entity
<1> QED BY <1>1, <1>2, <1>3, <1>4 DEF Wrote, IsAsAsked

LEMMA CreateRatingStep ==
  ASSUME ControlOK, StoreOK, NEW r \in Requests, InCourse(r), UNCHANGED workload,
         CreateRating(r)
  PROVE  Step(r)
<1> DEFINE party == local[r].partyIdentifier
           rating == BuildAcbsCreateExternalRating(party, local[r].assignedRatingCode,
                                                   PartyToCreate(r).officerRiskDate)
           known == {"PartyIdentifierIsNotValid"}
           data == Added(r, "PartyExternalRating", party, rating)
           result == Ok(data)
           body == [partyIdentifier |-> party]
<1>1. pc[r] = "createRating" /\ Op(r) = "POST/parties" /\ Calls(r)
  BY PartyCourses DEF CreateRating, Calls
<1>2. KnowsParty(r)
  BY <1>1, CourseKnows DEF Knows
<1>3. /\ IsParty(party) /\ local[r].status \in {200, 201}
      /\ IsRatingOf(workload.mdm[acbs[party].data.PartyAlternateIdentifier],
                    local[r].assignedRatingCode)
      /\ workload.serial => RatingsOf(party) = {}
  BY <1>1, <1>2 DEF KnowsParty
<1>4. rating.PartyIdentifier = party /\ rating.AssignedRatingCode = local[r].assignedRatingCode
  BY DEF BuildAcbsCreateExternalRating
<1>5. PICK outcome \in WriteOutcomes(result) :
        /\ acbs' = outcome[2]
        /\ IF outcome[1].status = 200 THEN Reply(r, local[r].status, body)
           ELSE Throw(r, WrapAcbsHttpPostOrPutError(known, outcome[1]))
  <2> HIDE DEF rating
  <2> QED BY <1>3, <1>4
          DEF CreateRating, AcbsCreateExternalRatingForParty, Write, WriteOr, AnswerParty, rating
<1> HIDE DEF rating
<1>6. acbs' = data => Wrote(r)
  BY <1>3, <1>4, AddsRating
<1>7. known \subseteq DOMAIN KnownErrors
  BY KnownTexts
<1>8. ASSUME acbs' = data
      PROVE  Len(acbs) + 1 \in DOMAIN acbs' /\ acbs'[Len(acbs) + 1].kind = "PartyExternalRating"
             /\ acbs'[Len(acbs) + 1].owner = party
  <2> DEFINE entity ==
               [kind |-> "PartyExternalRating", owner |-> party, data |-> rating, by |-> r]
  <2>1. Len(acbs) \in Nat /\ acbs \in Seq(Range(acbs))
    BY IsASequence DEF StoreOK, IsStore
  <2>2. entity.kind = "PartyExternalRating" /\ entity.owner = party
    OBVIOUS
  <2>3. acbs' = Append(acbs, entity)
    BY <1>8 DEF Added
  <2> HIDE DEF entity
  <2>4. Len(acbs) + 1 \in DOMAIN acbs' /\ acbs'[Len(acbs) + 1] = entity
    BY <2>1, <2>3
  <2> QED BY <2>2, <2>4
<1>9. body.partyIdentifier = party
  OBVIOUS
<1> HIDE DEF data, known, body
<1>10. /\ IsResult(result) /\ result # Null
       /\ \A other : result = Ok(other) => other = data
       /\ ~IsMissing(known, result)
  BY OkOrNull
<1> HIDE DEF result
<1>11. CASE outcome[1].status # 200
  BY <1>1, <1>5, <1>6, <1>7, <1>10, <1>11, WriteFails
<1>12. CASE outcome[1].status = 200
  <2>1. acbs' = data
    BY <1>5, <1>7, <1>10, <1>12, WriteEnds
  <2>2. pc'[r] = "done" /\ answer'[r].body = body
    BY <1>1, <1>5, <1>12, ReplyEnds DEF Calls
  <2>3. Fulfilled(r)'
    BY <1>1, <1>8, <1>9, <2>1, <2>2 DEF Fulfilled, RatingsOf, EntitiesOf, Op
  <2> QED BY <1>1, <1>3, <1>5, <1>6, <1>12, <2>1, <2>3, WriteAnswers
<1> QED BY <1>11, <1>12

LEMMA PartyStep ==
  ASSUME ControlOK, StoreOK, NEW r \in Requests, InCourse(r), UNCHANGED workload,
         PartyHandler(r), pc[r] # "done"
  PROVE  Step(r)
<1>1. CASE pc[r] = "received"
  BY <1>1, PartyBegins
<1>2. CASE Calls(r)
  <2>1. ~ReceiveParty(r)
    BY <1>2 DEF ReceiveParty, Receives, Calls
  <2> QED BY <1>2, <2>1, GetPartiesStep, GetPartyStep, GetExternalRatingsStep,
             SearchForPartyStep, CreatePartyStep, GetRatingsStep, FindCustomerTypeStep,
             CreateRatingStep DEF PartyHandler, PostParties
<1> QED BY <1>1, <1>2 DEF Calls

-----------------------------------------------------------------------------
(* ACBS posts a bundle.                                                    *)

\* What becomes of an entity: the same thing, which stays possible.
BecomesOf(old, new) ==
    /\ IsEntity(new) /\ new.by = old.by
    /\ IsPossible(acbs, workload.mdm, new)
    /\ IsSame(old, new)

LEMMA FacilityAmended ==
  ASSUME NEW e, IsEntity(e), e.kind = "Facility", NEW amount, NEW status,
         status \in {e.data.FacilityStatusCode, FACILITY_STATUSES.ACTIVE}
  PROVE  BecomesOf(e, [e EXCEPT !.data = [[e.data EXCEPT !.LimitAmount = amount]
                                             EXCEPT !.FacilityStatusCode = status]])
<1> DEFINE limited == [e.data EXCEPT !.LimitAmount = amount]
           data == [limited EXCEPT !.FacilityStatusCode = status]
           new == [kind |-> e.kind, owner |-> e.owner, data |-> data, by |-> e.by]
<1>1. [e EXCEPT !.data = data] = new
  BY EntityExcept
<1>2. {"FacilityIdentifier", "FacilityStatusCode"} \subseteq DOMAIN e.data
  BY DEF IsEntity, FieldsOf
<1>3. /\ DOMAIN limited = DOMAIN e.data
      /\ limited.FacilityIdentifier = e.data.FacilityIdentifier
      /\ limited.FacilityStatusCode = e.data.FacilityStatusCode
  BY <1>2
<1> HIDE DEF limited
<1>4. /\ DOMAIN data = DOMAIN e.data
      /\ data.FacilityIdentifier = e.data.FacilityIdentifier
      /\ data.FacilityStatusCode = status
  BY <1>2, <1>3
<1> HIDE DEF data
<1>5. IsEntity(new)
  BY <1>2, <1>4 DEF IsEntity, FieldsOf
<1>6. IsPossible(acbs, workload.mdm, new)
  BY DEF IsPossible
<1>7. IsSame(e, new)
  BY <1>4 DEF IsSame
<1> QED BY <1>1, <1>5, <1>6, <1>7 DEF BecomesOf, data, limited

LEMMA FeeAmended ==
  ASSUME NEW e, IsEntity(e), e.kind = "FixedFee", IsPossible(acbs, workload.mdm, e), NEW amount
  PROVE  BecomesOf(e, [e EXCEPT !.data = [e.data EXCEPT !.FixedFeeAmount = amount]])
<1> DEFINE data == [e.data EXCEPT !.FixedFeeAmount = amount]
           new == [kind |-> e.kind, owner |-> e.owner, data |-> data, by |-> e.by]
<1>1. [e EXCEPT !.data = data] = new
  BY EntityExcept
<1>2. DOMAIN data = DOMAIN e.data
  OBVIOUS
<1> HIDE DEF data
<1>3. IsEntity(new)
  BY <1>2 DEF IsEntity
<1>4. IsPossible(acbs, workload.mdm, new)
  BY DEF IsPossible
<1>5. IsSame(e, new)
  BY DEF IsSame
<1> QED BY <1>1, <1>3, <1>4, <1>5 DEF BecomesOf, data

LEMMA LoanAmended ==
  ASSUME NEW e, IsEntity(e), e.kind = "Loan", IsPossible(acbs, workload.mdm, e), NEW balance
  PROVE  BecomesOf(e, [e EXCEPT !.data = [e.data EXCEPT !.PrincipalBalance = balance]])
<1> DEFINE data == [e.data EXCEPT !.PrincipalBalance = balance]
           new == [kind |-> e.kind, owner |-> e.owner, data |-> data, by |-> e.by]
<1>1. [e EXCEPT !.data = data] = new
  BY EntityExcept
<1>2. {"CurrencyCode", "MaturityDate", "RateMaturityDate", "FinancialNextValuationDate",
       "CustomerUsageNextValuationDate"} \subseteq DOMAIN e.data
  BY DEF IsEntity, FieldsOf
<1>3. /\ DOMAIN data = DOMAIN e.data
      /\ data.CurrencyCode = e.data.CurrencyCode
      /\ data.MaturityDate = e.data.MaturityDate
      /\ data.RateMaturityDate = e.data.RateMaturityDate
      /\ data.FinancialNextValuationDate = e.data.FinancialNextValuationDate
      /\ data.CustomerUsageNextValuationDate = e.data.CustomerUsageNextValuationDate
  BY <1>2
<1> HIDE DEF data
<1>4. MaturesOnADate(e.data)
  BY DEF IsPossible
<1>5. MaturesOnADate(data)
  BY <1>3, <1>4 DEF MaturesOnADate, DatesAgree
<1>6. IsEntity(new)
  BY <1>3 DEF IsEntity
<1>7. IsPossible(acbs, workload.mdm, new)
  BY <1>5 DEF IsPossible
<1>8. IsSame(e, new)
  BY DEF IsSame
<1> QED BY <1>1, <1>6, <1>7, <1>8 DEF BecomesOf, data

\* A bundle that is marked holds the same messages.
LEMMA BundleMarked ==
  ASSUME NEW e, IsEntity(e), e.kind = "BundleInformation", IsPossible(acbs, workload.mdm, e),
         NEW code
  PROVE  BecomesOf(e, [e EXCEPT !.data.BundleStatusCode = code])
<1> DEFINE data == [e.data EXCEPT !.BundleStatusCode = code]
           new == [kind |-> e.kind, owner |-> e.owner, data |-> data, by |-> e.by]
<1>1. [e EXCEPT !.data.BundleStatusCode = code] = [e EXCEPT !.data = data]
  OBVIOUS
<1>2. [e EXCEPT !.data = data] = new
  BY EntityExcept
<1>3. {"BundleStatusCode", "BundleMessageList"} \subseteq DOMAIN e.data
  BY DEF IsEntity, FieldsOf
<1>4. DOMAIN data = DOMAIN e.data /\ data.BundleMessageList = e.data.BundleMessageList
  BY <1>3
<1> HIDE DEF data
<1>5. IsEntity(new)
  BY <1>4 DEF IsEntity
<1>6. IsPossible(acbs, workload.mdm, new)
  BY <1>4 DEF IsPossible
<1>7. IsSame(e, new)
  BY DEF IsSame
<1>8. new.by = e.by
  OBVIOUS
<1> HIDE DEF new
<1> QED BY <1>1, <1>2, <1>5, <1>6, <1>7, <1>8 DEF BecomesOf, data

\* Any entity when ACBS posts messages that are possible.
LEMMA AmendedStays ==
  ASSUME StoreOK, NEW bundle \in DOMAIN acbs, acbs[bundle].kind = "BundleInformation",
         NEW j \in DOMAIN acbs
  PROVE  BecomesOf(acbs[j], Amended(acbs[bundle].data.BundleMessageList, j))
<1> DEFINE e == acbs[j]
           messages == acbs[bundle].data.BundleMessageList
           ChangeOf(k) == Change(messages[k], j)
           change == MapThenSumSet(ChangeOf, DOMAIN messages)
           activations == Activations(messages, j)
           new == Amended(messages, j)
<1>1. IsEntity(e) /\ IsPossible(acbs, workload.mdm, e)
  BY DEF StoreOK, IsStore
<1>2. CASE e.kind = "Facility"
  <2> DEFINE status == IF activations = {} THEN e.data.FacilityStatusCode
                       ELSE messages[CHOOSE k \in activations : TRUE]
                                .FacilityTransactionCodeValueCode
             amount == e.data.LimitAmount + change
             limited == [e.data EXCEPT !.LimitAmount = amount]
             data == [limited EXCEPT !.FacilityStatusCode = status]
  <2>1. status \in {e.data.FacilityStatusCode, FACILITY_STATUSES.ACTIVE}
    <3>1. IsPossible(acbs, workload.mdm, acbs[bundle])
      BY DEF StoreOK, IsStore
    <3>2. \A k \in activations : k \in DOMAIN messages
            /\ messages[k].FacilityTransactionCodeValueCode = FACILITY_STATUSES.ACTIVE
      BY <3>1 DEF IsPossible, Activations, IsFacilityCodeValueTransaction
    <3> HIDE DEF activations
    <3> QED BY <3>2
  <2>2. new = [e EXCEPT !.data = data]
    <3>1. limited.FacilityStatusCode = e.data.FacilityStatusCode
      BY <1>1, <1>2 DEF IsEntity, FieldsOf
    <3>2. new = [e EXCEPT !.data.LimitAmount = @ + change,
                          !.data.FacilityStatusCode =
                              IF activations = {} THEN @
                              ELSE messages[CHOOSE k \in activations : TRUE]
                                       .FacilityTransactionCodeValueCode]
      BY <1>2 DEF Amended
    <3> QED BY <1>1, <3>1, <3>2
  <2> HIDE DEF status, amount
  <2>3. BecomesOf(e, [e EXCEPT !.data = data])
    BY <1>1, <1>2, <2>1, FacilityAmended
  <2> QED BY <2>2, <2>3
<1>3. CASE e.kind = "FixedFee"
  <2> DEFINE amount == e.data.FixedFeeAmount + change
  <2>1. new = [e EXCEPT !.data.FixedFeeAmount = amount]
    BY <1>3 DEF Amended
  <2> HIDE DEF amount
  <2>2. new = [e EXCEPT !.data = [e.data EXCEPT !.FixedFeeAmount = amount]]
    BY <2>1
  <2> QED BY <1>1, <1>3, <2>2, FeeAmended
<1>4. CASE e.kind = "Loan"
  <2> DEFINE balance == e.data.PrincipalBalance + change
  <2>1. new = [e EXCEPT !.data.PrincipalBalance = balance]
    BY <1>4 DEF Amended
  <2> HIDE DEF balance
  <2>2. new = [e EXCEPT !.data = [e.data EXCEPT !.PrincipalBalance = balance]]
    BY <2>1
  <2> QED BY <1>1, <1>4, <2>2, LoanAmended
<1>5. CASE e.kind \notin {"Facility", "FixedFee", "Loan"}
  <2>1. new = e
    BY <1>5 DEF Amended
  <2> QED BY <1>1, <2>1 DEF BecomesOf, IsSame
<1> QED BY <1>2, <1>3, <1>4, <1>5

\* What a posted bundle adds: a loan, which is as it was asked for.
LEMMA NewLoansAre ==
  ASSUME StoreOK, NEW i \in DOMAIN acbs, acbs[i].kind = "BundleInformation"
  PROVE  \/ NewLoans(acbs[i]) = <<>>
         \/ \E loan : /\ NewLoans(acbs[i]) = <<loan>>
                      /\ loan.kind = "Loan" /\ loan.by = acbs[i].by
                      /\ IsEntity(loan) /\ IsPossible(acbs, workload.mdm, loan)
<1> DEFINE message == acbs[i].data.BundleMessageList[1]
           balance == [PrincipalBalance |-> message.LoanAmount]
           data == balance ++ message
           loan == [kind |-> "Loan", owner |-> message.FacilityIdentifier, data |-> data,
                    by |-> acbs[i].by]
<1>1. IsPossible(acbs, workload.mdm, acbs[i])
  BY DEF StoreOK, IsStore
<1>2. CASE IsNewLoanRequest(message)
  <2>1. FieldsOf("Loan") \subseteq DOMAIN message /\ MaturesOnADate(message)
    BY <1>1, <1>2 DEF IsPossible
  <2>2. {"CurrencyCode", "MaturityDate", "RateMaturityDate", "FinancialNextValuationDate",
         "CustomerUsageNextValuationDate"} \subseteq DOMAIN message
    BY <2>1 DEF FieldsOf
  <2>3. DOMAIN balance = {"PrincipalBalance"}
    OBVIOUS
  <2>4. NewLoans(acbs[i]) = <<loan>>
    BY <1>2 DEF NewLoans
  <2> HIDE DEF balance, message
  <2>5. /\ DOMAIN data = DOMAIN balance \cup DOMAIN message
        /\ \A x \in DOMAIN message \ DOMAIN balance : data[x] = message[x]
    BY Merged
  <2> HIDE DEF data
  <2>6. FieldsOf("Loan") \subseteq DOMAIN data
    BY <2>1, <2>5
  <2>7. /\ data.CurrencyCode = message.CurrencyCode
        /\ data.MaturityDate = message.MaturityDate
        /\ data.RateMaturityDate = message.RateMaturityDate
        /\ data.FinancialNextValuationDate = message.FinancialNextValuationDate
        /\ data.CustomerUsageNextValuationDate = message.CustomerUsageNextValuationDate
    BY <2>2, <2>3, <2>5
  <2>8. MaturesOnADate(data)
    BY <2>1, <2>7 DEF MaturesOnADate, DatesAgree
  <2>9. loan.kind = "Loan" /\ loan.by = acbs[i].by /\ IsEntity(loan)
    BY <2>6 DEF IsEntity
  <2>10. IsPossible(acbs, workload.mdm, loan)
    BY <2>8 DEF IsPossible
  <2> HIDE DEF loan
  <2> QED BY <2>4, <2>9, <2>10
<1>3. CASE ~IsNewLoanRequest(message)
  BY <1>3 DEF NewLoans
<1> QED BY <1>2, <1>3

LEMMA PostKeeps ==
  ASSUME StoreOK, UNCHANGED workload, NEW i \in DOMAIN acbs, PostBundle(i)
  PROVE  /\ StoreOK'
         /\ Keeps(acbs, acbs')
         /\ \A j \in DOMAIN acbs' : \E k \in DOMAIN acbs : acbs'[j].by = acbs[k].by
         /\ \A j \in DOMAIN acbs' \ DOMAIN acbs : acbs'[j].kind = "Loan"
<1> DEFINE Marked(code) == [acbs[i] EXCEPT !.data.BundleStatusCode = code]
           messages == acbs[i].data.BundleMessageList
           marked == Marked(BundleStatusCodes.POSTED)
           amended == [j \in DOMAIN acbs |-> IF j = i THEN marked ELSE Amended(messages, j)]
           failed == Marked(BundleStatusCodes.POSTING_ERROR)
           loans == NewLoans(acbs[i])
<1>1. acbs[i].kind = "BundleInformation"
  BY DEF PostBundle
<1>2. acbs' = amended \o loans \/ acbs' = [acbs EXCEPT ![i] = failed]
  BY DEF PostBundle
<1>3. acbs \in Seq(Range(acbs)) /\ Len(acbs) \in Nat /\ DOMAIN acbs = 1..Len(acbs)
  BY IsASequence DEF StoreOK, IsStore
<1>4. BecomesOf(acbs[i], marked) /\ BecomesOf(acbs[i], failed)
  BY <1>1, BundleMarked DEF StoreOK, IsStore
<1> HIDE DEF Marked, marked, failed
<1>5. ASSUME acbs' = [acbs EXCEPT ![i] = failed]
      PROVE  /\ StoreOK'
             /\ Keeps(acbs, acbs')
             /\ \A j \in DOMAIN acbs' : \E k \in DOMAIN acbs : acbs'[j].by = acbs[k].by
             /\ \A j \in DOMAIN acbs' \ DOMAIN acbs : acbs'[j].kind = "Loan"
  <2>1. IsStore(acbs', workload.mdm, workload.serial) /\ Keeps(acbs, acbs')
    BY <1>4, <1>5, ReplacedInStore DEF StoreOK, BecomesOf
  <2>2. \A j \in DOMAIN acbs' : j \in DOMAIN acbs /\ acbs'[j].by = acbs[j].by
    BY <1>4, <1>5 DEF BecomesOf
  <2> QED BY <2>1, <2>2 DEF StoreOK
<1>6. ASSUME acbs' = amended \o loans
      PROVE  /\ StoreOK'
             /\ Keeps(acbs, acbs')
             /\ \A j \in DOMAIN acbs' : \E k \in DOMAIN acbs : acbs'[j].by = acbs[k].by
             /\ \A j \in DOMAIN acbs' \ DOMAIN acbs : acbs'[j].kind = "Loan"
  <2>1. \A j \in DOMAIN acbs : BecomesOf(acbs[j], amended[j])
    BY <1>1, <1>4, AmendedStays
  <2>2. DOMAIN amended = 1..Len(acbs) /\ amended = [j \in 1..Len(acbs) |-> amended[j]]
    BY <1>3
  <2> HIDE DEF amended
  <2>3. amended \in Seq(Range(amended)) /\ Len(amended) = Len(acbs)
    BY <1>3, <2>2, AFunctionIsASequence
  <2>4. CASE loans = <<>>
    <3>1. acbs' = amended
      BY <1>6, <2>3, <2>4, ConcatEmptySeq
    <3>2. Keeps(acbs, acbs') /\ DOMAIN acbs' = DOMAIN acbs
      BY <1>3, <2>1, <2>2, <3>1 DEF Keeps, BecomesOf
    <3>3. IsStore(acbs', workload.mdm, workload.serial)
      BY <2>1, <2>3, <3>1, <3>2, StoreStays DEF StoreOK, BecomesOf
    <3> QED BY <2>1, <3>1, <3>2, <3>3 DEF StoreOK, BecomesOf
  <2>5. ASSUME NEW loan, loans = <<loan>>, loan.kind = "Loan", loan.by = acbs[i].by,
               IsEntity(loan), IsPossible(acbs, workload.mdm, loan)
        PROVE  /\ StoreOK'
               /\ Keeps(acbs, acbs')
               /\ \A j \in DOMAIN acbs' : \E k \in DOMAIN acbs : acbs'[j].by = acbs[k].by
               /\ \A j \in DOMAIN acbs' \ DOMAIN acbs : acbs'[j].kind = "Loan"
    <3> DEFINE S == Range(amended) \cup {loan}
               n == Len(acbs) + 1
    <3>1. amended \in Seq(S) /\ <<loan>> \in Seq(S)
      BY <2>3, SeqMonotonic
    <3>2. /\ acbs' \in Seq(S)
          /\ Len(acbs') = n
          /\ \A j \in 1..n : acbs'[j] =
                IF j <= Len(acbs) THEN amended[j] ELSE <<loan>>[j - Len(acbs)]
      <4>1. acbs' = amended \o <<loan>>
        BY <1>6, <2>5
      <4>2. Len(<<loan>>) = 1
        OBVIOUS
      <4>3. /\ amended \o <<loan>> \in Seq(S)
            /\ Len(amended \o <<loan>>) = Len(amended) + Len(<<loan>>)
            /\ \A j \in 1..Len(amended) + Len(<<loan>>) : (amended \o <<loan>>)[j] =
                  IF j <= Len(amended) THEN amended[j] ELSE <<loan>>[j - Len(amended)]
        <5> HIDE DEF S
        <5> QED BY <3>1, ConcatProperties
      <4> QED BY <2>3, <4>1, <4>2, <4>3
    <3>3. acbs' \in Seq(Range(acbs')) /\ DOMAIN acbs' = 1..n
      BY <3>2, SeqOfRange
    <3>4. acbs'[n] = loan /\ \A j \in DOMAIN acbs : acbs'[j] = amended[j]
      BY <1>3, <3>2
    <3>5. DOMAIN acbs' = DOMAIN acbs \cup {n}
      BY <1>3, <3>3
    <3>6. Keeps(acbs, acbs')
      BY <2>1, <3>4, <3>5 DEF Keeps, BecomesOf
    <3>7. \A j \in DOMAIN acbs' : IsEntity(acbs'[j]) /\ IsPossible(acbs, workload.mdm, acbs'[j])
      BY <2>1, <2>5, <3>4, <3>5 DEF BecomesOf
    <3>8. \A j \in DOMAIN acbs' \ DOMAIN acbs : \A k \in DOMAIN acbs' \ {j} :
              AreDistinct(workload.serial, acbs'[k], acbs'[j])
      BY <2>5, <3>4, <3>5 DEF AreDistinct
    <3>9. IsStore(acbs', workload.mdm, workload.serial)
      BY <3>3, <3>6, <3>7, <3>8, StoreStays DEF StoreOK
    <3> QED BY <2>1, <2>5, <3>4, <3>5, <3>6, <3>9 DEF StoreOK, BecomesOf
  <2> QED BY <1>1, <2>4, <2>5, NewLoansAre
<1> QED BY <1>2, <1>5, <1>6

-----------------------------------------------------------------------------
(* A step of one request, or of ACBS, and what another request knows.      *)

PartyStaysKnown(q) ==
    workload.serial /\ pc[q] \in {"createParty", "findCustomers", "createRating"} =>
        \A j \in DOMAIN acbs' \ DOMAIN acbs : acbs'[j].kind = "Loan"

LEMMA KnowsPartyStays ==
  ASSUME NEW q, UNCHANGED workload, Keeps(acbs, acbs'), pc'[q] = pc[q], local'[q] = local[q],
         KnowsParty(q), PartyStaysKnown(q)
  PROVE  KnowsParty(q)'
<1>1. ASSUME pc[q] = "createParty", workload.serial,
             NEW i \in DOMAIN acbs', acbs'[i].kind = "Party",
             acbs'[i].data.PartyAlternateIdentifier = PartyToCreate(q).alternateIdentifier
      PROVE  FALSE
  <2>1. i \in DOMAIN acbs /\ IsSame(acbs[i], acbs'[i])
    BY <1>1 DEF PartyStaysKnown, Keeps
  <2>2. i \in PartiesOf(PartyToCreate(q).alternateIdentifier)
    BY <1>1, <2>1 DEF PartiesOf, IsParty, IsSame
  <2> QED BY <1>1, <2>2 DEF KnowsParty
<1>2. ASSUME pc[q] \in {"getRatings", "findCustomers", "createRating"}
      PROVE  /\ local[q].partyIdentifier \in DOMAIN acbs'
             /\ acbs'[local[q].partyIdentifier].kind = "Party"
             /\ acbs'[local[q].partyIdentifier].data.PartyAlternateIdentifier =
                  PartyToCreate(q).alternateIdentifier
             /\ local[q].status \in {200, 201}
  BY <1>2 DEF KnowsParty, IsParty, Keeps, IsSame
<1>3. ASSUME pc[q] \in {"findCustomers", "createRating"}, workload.serial,
             NEW i \in DOMAIN acbs', acbs'[i].kind = "PartyExternalRating",
             acbs'[i].owner = local[q].partyIdentifier
      PROVE  FALSE
  <2>1. i \in DOMAIN acbs /\ IsSame(acbs[i], acbs'[i])
    BY <1>3 DEF PartyStaysKnown, Keeps
  <2>2. i \in RatingsOf(local[q].partyIdentifier)
    BY <1>3, <2>1 DEF RatingsOf, EntitiesOf, IsSame
  <2> QED BY <1>3, <2>2 DEF KnowsParty
<1> QED BY <1>1, <1>2, <1>3
        DEF KnowsParty, PartiesOf, IsParty, RatingsOf, EntitiesOf, PartyToCreate, Body

LEMMA KnowsFacilityStays ==
  ASSUME NEW q, UNCHANGED workload, Keeps(acbs, acbs'), StoreOK', pc'[q] = pc[q],
         local'[q] = local[q], KnowsFacility(q)
  PROVE  KnowsFacility(q)'
<1> DEFINE f == FacilityIdentifier(q)
<1>1. ASSUME pc[q] = "createFee"
      PROVE  /\ FacilityIndexes(acbs', f) # {}
             /\ \A i \in FacilityIndexes(acbs', f) : IsActive(acbs', i)
  <2>1. PICK k \in FacilityIndexes(acbs, f) : IsActive(acbs, k)
    BY <1>1 DEF KnowsFacility, FacilityExists
  <2>2. k \in FacilityIndexes(acbs', f) /\ IsActive(acbs', k)
    BY <2>1 DEF Keeps, IsSame, FacilityIndexes, IsActive
  <2>3. ASSUME NEW i \in FacilityIndexes(acbs', f), i # k  PROVE FALSE
    <3>1. AreDistinct(workload.serial, acbs'[i], acbs'[k])
      BY <2>2, <2>3 DEF StoreOK, IsStore, FacilityIndexes
    <3> QED BY <2>2, <2>3, <3>1 DEF AreDistinct, FacilityIndexes
  <2> QED BY <2>2, <2>3
<1>2. f' = f
  BY DEF FacilityIdentifier, Params
<1> QED BY <1>1, <1>2 DEF KnowsFacility, FacilityExists, FacilityIdentifier, Params

LEMMA KnowsPartsStays ==
  ASSUME NEW q, UNCHANGED workload, Keeps(acbs, acbs'), pc'[q] = pc[q],
         local'[q] = local[q], KnowsParts(q)
  PROVE  KnowsParts(q)'
<1> DEFINE f == FacilityIdentifier(q)
<1>1. ASSUME pc[q] = "putCovenant", NEW k \in DOMAIN local[q]
      PROVE  \E i \in DOMAIN acbs' :
                /\ acbs'[i].kind = "FacilityCovenant" /\ acbs'[i].owner = f
                /\ acbs'[i].data.CovenantIdentifier = local[q][k].CovenantIdentifier
  <2>1. PICK i : i \in CovenantsLike(f, local[q][k])
    BY <1>1 DEF KnowsParts
  <2> QED BY <2>1, LikeStays
<1>2. ASSUME pc[q] = "putGuarantee", NEW k \in DOMAIN local[q]
      PROVE  \E i \in DOMAIN acbs' :
                /\ acbs'[i].kind = "FacilityGuarantee" /\ acbs'[i].owner = f
                /\ acbs'[i].data.GuaranteeTypeCode = local[q][k].GuaranteeTypeCode
                /\ acbs'[i].data.GuarantorPartyIdentifier = local[q][k].GuarantorPartyIdentifier
  <2>1. PICK i : i \in GuaranteesLike(f, local[q][k])
    BY <1>2 DEF KnowsParts
  <2> QED BY <2>1, LikeStays
<1> QED BY <1>1, <1>2
        DEF KnowsParts, CovenantsLike, GuaranteesLike, Indexes, FacilityIdentifier, Params

LEMMA KnowsStays ==
  ASSUME NEW q, UNCHANGED workload, Keeps(acbs, acbs'), StoreOK', pc'[q] = pc[q],
         local'[q] = local[q], Knows(q), PartyStaysKnown(q)
  PROVE  Knows(q)'
<1>1. KnowsLoan(q)'
  BY DEF Knows, KnowsLoan, Body
<1> QED BY <1>1, KnowsPartyStays, KnowsFacilityStays, KnowsPartsStays DEF Knows

LEMMA FulfilledStays ==
  ASSUME NEW q, UNCHANGED workload, Keeps(acbs, acbs'), pc'[q] = pc[q],
         answer'[q] = answer[q], Fulfilled(q)
  PROVE  Fulfilled(q)'
<1>1. ASSUME NEW kind \in {"BorrowingRestriction", "PartyExternalRating"}, NEW owner, NEW i \in Indexes(kind, owner)
      PROVE  /\ i \in DOMAIN acbs'
             /\ acbs'[i].kind = kind /\ acbs'[i].owner = owner
  BY <1>1 DEF Keeps, IsSame, Indexes
<1>2. ASSUME Created(q), Op(q) = "POST/deals"
      PROVE  \E i \in DOMAIN acbs' : /\ acbs'[i].kind = "BorrowingRestriction"
                                     /\ acbs'[i].owner = Body(q)[1].dealIdentifier
  <2>1. PICK i : i \in Indexes("BorrowingRestriction", Body(q)[1].dealIdentifier)
    BY <1>2 DEF Fulfilled
  <2> QED BY <1>1, <2>1
<1>3. ASSUME Created(q), Op(q) = "POST/parties"
      PROVE  \E i \in DOMAIN acbs' : /\ acbs'[i].kind = "PartyExternalRating"
                                     /\ acbs'[i].owner = answer[q].body.partyIdentifier
  <2>1. PICK i : i \in RatingsOf(answer[q].body.partyIdentifier)
    BY <1>3 DEF Fulfilled
  <2>2. i \in Indexes("PartyExternalRating", answer[q].body.partyIdentifier)
    BY <2>1 DEF RatingsOf, EntitiesOf, Indexes
  <2> QED BY <1>1, <2>2
<1>4. Created(q)' <=> Created(q)
  BY DEF Created, Answered
<1> QED BY <1>2, <1>3, <1>4 DEF Fulfilled, Indexes, RatingsOf, EntitiesOf, Op, Body

\* What a step of r, or of ACBS, leaves of another request.
LEMMA OtherStays ==
  ASSUME NEW q, UNCHANGED workload, Keeps(acbs, acbs'), StoreOK', pc'[q] = pc[q],
         local'[q] = local[q], answer'[q] = answer[q], InCourse(q), PartyStaysKnown(q)
  PROVE  /\ InCourse(q)'
         /\ WroteNothing(q)' => WroteNothing(q)
<1>1. InCourse(q)'
  BY KnowsStays, FulfilledStays DEF InCourse, Op
<1> QED BY <1>1 DEF WroteNothing, Op

-----------------------------------------------------------------------------
(* A step of a request keeps IInv.                                         *)

LEMMA HandlesNotDone ==
  ASSUME NEW r, Handle(r)
  PROVE  pc[r] # "done"
<1>1. PartyHandler(r) => pc[r] # "done"
  BY DEF PartyHandler, GetPartiesBySearchText, GetPartyByIdentifier, GetExternalRatingsForParty,
         PostParties, ReceiveParty, SearchForParty, CreateParty, GetRatingsOfParty,
         FindCustomerType, CreateRating, Receives
<1>2. DealHandler(r) => pc[r] # "done"
  BY DEF DealHandler, GetDeal, ReceiveDeal, CreateDeal, UpdateBorrowingRestrictionForNewDeal,
         CreateGuaranteeForDeal, GetGuaranteesForDeal, CreateInvestorForDeal,
         GetDealInvestors, Receives
<1>3. FacilityHandler(r) => pc[r] # "done"
  BY DEF FacilityHandler, GetFacility, CreateFacility, ReceiveFacilityUpdate,
         GetFacilityToUpdate, UpdateFacility, AmendFacilityAmount, Receives
<1>4. FacilityPartHandler(r) => pc[r] # "done"
  BY DEF FacilityPartHandler, CreateCovenantForFacility, GetCovenantsForFacility,
         UpdateCovenantsForFacility, CreateGuaranteeForFacility, GetGuaranteesForFacility,
         UpdateGuaranteesForFacility, CreateInvestorForFacility, GetInvestorsForFacility,
         ReceivesFor, ReceivesArrayFor, ReceivesItemFor, Receives
<1>5. LoanHandler(r) => pc[r] # "done"
  BY DEF LoanHandler, CreateActivationTransactionForFacility,
         GetActivationTransactionByBundleIdentifier, CreateFixedFeeForFacility,
         GetFixedFeesForFacility, CreateAmountAmendmentForFixedFees, GetLoansForFacility,
         CreateLoanForFacility, GetLoanTransactionByBundleIdentifier,
         CreateAmountAmendmentForLoan, UpdateLoanExpiryDate,
         ReceivesFor, ReceivesArrayFor, ReceivesItemFor, Receives
<1> QED BY <1>1, <1>2, <1>3, <1>4, <1>5 DEF Handle

\* Whatever it does, a handler takes a step that its request's course allows.
LEMMA HandleStep ==
  ASSUME IInv, NEW r \in Requests, UNCHANGED workload, Handle(r)
  PROVE  Step(r)
<1>1. ControlOK /\ StoreOK /\ InCourse(r) /\ pc[r] # "done"
  BY HandlesNotDone DEF IInv
<1> QED BY <1>1, PartyStep, DealStep, FacilityStep, FacilityPartStep, LoanStep DEF Handle

LEMMA RequestsAre ==
  ASSUME ControlOK  PROVE Requests \subseteq Nat \ {0} /\ workload.serial \in BOOLEAN
BY WorkloadAssumption DEF ControlOK, Requests

\* In a serial workload nobody is in the middle of a course when another
\* request takes a step.
LEMMA AloneInItsCourse ==
  ASSUME ControlOK, Serial, workload.serial, NEW r \in Requests, Frame(r),
         NEW q \in Requests \ {r}
  PROVE  pc[q] \in {"received", "done"}
<1>1. q \in Nat /\ r \in Nat /\ q # r
  BY RequestsAre
<1>2. CASE q < r
  BY <1>2 DEF Frame, MayBegin, Serial
<1>3. CASE r < q
  BY <1>3 DEF Frame, Serial
<1> QED BY <1>1, <1>2, <1>3

LEMMA SerialStays ==
  ASSUME ControlOK, Serial, UNCHANGED workload, NEW r \in Requests, Frame(r)
  PROVE  Serial'
<1> SUFFICES ASSUME workload.serial, NEW p \in Requests, NEW q \in Requests, p < q,
                    pc'[q] # "received"
             PROVE  pc'[p] = "done"
  BY DEF Serial, Requests
<1>1. p \in Nat /\ q \in Nat /\ r \in Nat
  BY RequestsAre
<1>2. CASE q = r
  <2>1. p # r /\ pc[p] = "done"
    BY <1>1, <1>2 DEF Frame, MayBegin, Serial
  <2> QED BY <2>1 DEF Frame
<1>3. CASE q # r
  <2>1. pc[p] = "done"
    BY <1>3 DEF Frame, Serial
  <2> QED BY <2>1 DEF Frame
<1> QED BY <1>2, <1>3

LEMMA StepKeeps ==
  ASSUME IInv, UNCHANGED workload, NEW r \in Requests, Step(r)
  PROVE  IInv'
<1>1. ControlOK /\ StoreOK /\ Serial /\ Frame(r) /\ Lands(r)
  BY DEF IInv, Step
<1>2. ControlOK'
  BY <1>1 DEF ControlOK, Frame, Requests
<1>3. /\ StoreOK' /\ Keeps(acbs, acbs')
      /\ \A i \in DOMAIN acbs' : acbs'[i].by = r \/ (i \in DOMAIN acbs /\ acbs'[i] = acbs[i])
  BY <1>1, WroteKeeps DEF Step
<1>4. Serial'
  BY <1>1, SerialStays
<1>5. /\ InCourse(r)'
      /\ WroteNothing(r)' => \A i \in DOMAIN acbs' : acbs'[i].by # r
  <2>1. InCourse(r)'
    BY <1>1 DEF Lands, InCourse, Op
  <2> QED BY <2>1 DEF IInv, Step
<1>6. ASSUME NEW q \in Requests \ {r}
      PROVE  /\ InCourse(q)'
             /\ WroteNothing(q)' => \A i \in DOMAIN acbs' : acbs'[i].by # q
  <2>1. /\ pc'[q] = pc[q] /\ local'[q] = local[q] /\ answer'[q] = answer[q]
        /\ InCourse(q)
        /\ WroteNothing(q) => \A i \in DOMAIN acbs : acbs[i].by # q
    BY <1>1 DEF Frame, IInv
  <2>2. PartyStaysKnown(q)
    BY <1>1, AloneInItsCourse DEF PartyStaysKnown
  <2>3. InCourse(q)' /\ (WroteNothing(q)' => WroteNothing(q))
    BY <1>3, <2>1, <2>2, OtherStays
  <2> QED BY <1>3, <2>1, <2>3
<1>7. Requests' = Requests
  BY DEF Requests
<1> HIDE DEF IInv
<1>8. \A q \in Requests : /\ InCourse(q)'
                          /\ WroteNothing(q)' => \A i \in DOMAIN acbs' : acbs'[i].by # q
  BY <1>5, <1>6
<1> QED BY <1>2, <1>3, <1>4, <1>7, <1>8 DEF IInv

-----------------------------------------------------------------------------
(* A step of ACBS keeps IInv, and so does every step.                      *)

LEMMA PostKeepsIInv ==
  ASSUME IInv, UNCHANGED workload, NEW i \in DOMAIN acbs, PostBundle(i)
  PROVE  IInv'
<1>1. UNCHANGED <<pc, local, answer>>
  BY DEF PostBundle
<1>2. /\ StoreOK' /\ Keeps(acbs, acbs')
      /\ \A j \in DOMAIN acbs' : \E k \in DOMAIN acbs : acbs'[j].by = acbs[k].by
      /\ \A j \in DOMAIN acbs' \ DOMAIN acbs : acbs'[j].kind = "Loan"
  BY PostKeeps DEF IInv
<1>3. ControlOK' /\ Serial'
  BY <1>1 DEF IInv, ControlOK, Serial, Requests
<1>4. ASSUME NEW q \in Requests
      PROVE  /\ InCourse(q)'
             /\ WroteNothing(q)' => \A j \in DOMAIN acbs' : acbs'[j].by # q
  <2>1. InCourse(q) /\ PartyStaysKnown(q)
    BY <1>2 DEF IInv, PartyStaysKnown
  <2>2. InCourse(q)' /\ (WroteNothing(q)' => WroteNothing(q))
    BY <1>1, <1>2, <2>1, OtherStays
  <2> QED BY <1>2, <2>2 DEF IInv
<1>5. Requests' = Requests
  BY DEF Requests
<1> QED BY <1>2, <1>3, <1>4, <1>5 DEF IInv

LEMMA StutterKeeps ==
  ASSUME IInv, UNCHANGED <<workload, pc, local, answer, acbs>>  PROVE IInv'
<1>1. ControlOK' /\ Serial' /\ StoreOK' /\ Requests' = Requests
  BY DEF IInv, ControlOK, Serial, StoreOK, Requests
<1>2. ASSUME NEW q \in Requests
      PROVE  /\ InCourse(q)'
             /\ WroteNothing(q)' => \A j \in DOMAIN acbs' : acbs'[j].by # q
  <2>1. InCourse(q) /\ PartyStaysKnown(q) /\ Keeps(acbs, acbs')
    BY KeepsItself DEF IInv, PartyStaysKnown
  <2>2. InCourse(q)' /\ (WroteNothing(q)' => WroteNothing(q))
    BY <1>1, <2>1, OtherStays
  <2> QED BY <2>2 DEF IInv
<1> QED BY <1>1, <1>2 DEF IInv

LEMMA InitIInv == Init => IInv
<1> SUFFICES ASSUME Init  PROVE IInv
  OBVIOUS
<1>1. workload \in Workloads /\ acbs = workload.acbs
  BY DEF Init
<1>2. /\ Requests \subseteq Nat \ {0}
      /\ IsStore(workload.acbs, workload.mdm, workload.serial)
      /\ \A i \in DOMAIN workload.acbs : workload.acbs[i].by = 0
  BY <1>1, WorkloadAssumption DEF Requests
<1>3. ControlOK /\ Serial
  BY DEF Init, ControlOK, Serial
<1>4. \A r \in Requests : pc[r] = "received"
  BY DEF Init
<1> QED BY <1>1, <1>2, <1>3, <1>4 DEF IInv, StoreOK, InCourse

LEMMA NextKeeps == IInv /\ [Next]_vars => IInv'
<1> SUFFICES ASSUME IInv, [Next]_vars  PROVE IInv'
  OBVIOUS
<1>1. CASE UNCHANGED vars
  BY <1>1, StutterKeeps DEF vars
<1>2. ASSUME UNCHANGED workload, NEW r \in Requests, Handle(r)  PROVE IInv'
  BY <1>2, HandleStep, StepKeeps
<1>3. ASSUME UNCHANGED workload, NEW i \in DOMAIN acbs, PostBundle(i)  PROVE IInv'
  BY <1>3, PostKeepsIInv
<1>4. ASSUME UNCHANGED workload, Finished  PROVE IInv'
  BY <1>4, StutterKeeps DEF Finished
<1> QED BY <1>1, <1>2, <1>3, <1>4 DEF Next

\* IInv holds throughout: every request is on the course of its operation
\* and knows what it has made sure of, and the store of ACBS is consistent.
THEOREM Invariance == Spec => []IInv
<1>1. Init => IInv
  BY InitIInv
<1>2. IInv /\ [Next]_vars => IInv'
  BY NextKeeps
<1> QED BY <1>1, <1>2, PTL DEF Spec

-----------------------------------------------------------------------------
(* The properties.                                                         *)

\* A request that is done says nothing of the store that is not so.
LEMMA AnswerOfCourse ==
  ASSUME IInv, NEW r \in Requests, pc[r] = "done"
  PROVE  Fulfilled(r)
BY CourseGoesOn DEF IInv, InCourse

\* An answer that blames the client means that nothing was written, but for
\* the handlers that write several things: that of POST /deals too, because
\* a restriction that fails is answered with 500.
THEOREM RefusalsChangeNothing == Spec => []RefusalChangesNothing
<1>1. IInv => RefusalChangesNothing
  BY DEF IInv, RefusalChangesNothing, Answered, WroteNothing
<1> QED BY <1>1, Invariance, PTL

\* The deal that POST /deals answers 201 for has its borrowing restriction.
THEOREM CreatedDealsAreRestricted == Spec => []CreatedDealIsRestricted
<1>1. IInv => CreatedDealIsRestricted
  <2> SUFFICES ASSUME IInv, NEW r \in Requests, Op(r) = "POST/deals", Created(r)
               PROVE  Indexes("BorrowingRestriction", Body(r)[1].dealIdentifier) # {}
    BY DEF CreatedDealIsRestricted
  <2>1. Fulfilled(r)
    BY AnswerOfCourse DEF Created, Answered
  <2> QED BY <2>1 DEF Fulfilled
<1> QED BY <1>1, Invariance, PTL

\* When the clients wait, POST /parties makes one party of an identifier,
\* however many of its calls fail and it is repeated.
THEOREM PartiesAreUnique == Spec => []OnePartyPerIdentifier
<1>1. IInv => OnePartyPerIdentifier
  <2> SUFFICES ASSUME IInv, workload.serial,
                      NEW i \in EntitiesOf("Party"), NEW j \in EntitiesOf("Party"), i # j,
                      acbs[i].data.PartyAlternateIdentifier =
                        acbs[j].data.PartyAlternateIdentifier
               PROVE  FALSE
    BY DEF OnePartyPerIdentifier
  <2>1. AreDistinct(workload.serial, acbs[i], acbs[j])
    BY DEF IInv, StoreOK, IsStore, EntitiesOf
  <2> QED BY <2>1 DEF AreDistinct, EntitiesOf
<1> QED BY <1>1, Invariance, PTL

\* A party that POST /parties answers with is rated, and once only when the
\* clients wait, whichever request created it and which of them failed.
THEOREM AnsweredPartiesAreRated == Spec => []AnsweredPartyIsRated
<1>1. IInv => AnsweredPartyIsRated
  <2> SUFFICES ASSUME IInv, NEW r \in Requests, Op(r) = "POST/parties", Created(r)
               PROVE  LET ratings == RatingsOf(answer[r].body.partyIdentifier)
                      IN  ratings # {} /\ (workload.serial => Cardinality(ratings) = 1)
    BY DEF AnsweredPartyIsRated
  <2> DEFINE ratings == RatingsOf(answer[r].body.partyIdentifier)
  <2>1. ratings # {}
    <3>1. Fulfilled(r)
      BY AnswerOfCourse DEF Created, Answered
    <3> QED BY <3>1 DEF Fulfilled
  <2>2. ASSUME workload.serial  PROVE Cardinality(ratings) = 1
    <3>1. PICK i : i \in ratings
      BY <2>1
    <3>2. ASSUME NEW j \in ratings, j # i  PROVE FALSE
      <4>1. AreDistinct(workload.serial, acbs[i], acbs[j])
        BY <3>1, <3>2 DEF IInv, StoreOK, IsStore, RatingsOf, EntitiesOf
      <4> QED BY <2>2, <3>1, <3>2, <4>1 DEF AreDistinct, RatingsOf, EntitiesOf
    <3>3. ratings = {i}
      BY <3>1, <3>2
    <3> QED BY <3>3, FS_Singleton
  <2> QED BY <2>1, <2>2
<1> QED BY <1>1, Invariance, PTL

\* A rating is sovereign exactly when MDM's first customer of its party is,
\* in whatever order parties are searched for, created and rated.
THEOREM RatingsFollowCustomerTypes == Spec => []RatingFollowsCustomerType
<1>1. IInv => RatingFollowsCustomerType
  BY DEF IInv, StoreOK, IsStore, IsPossible, RatingFollowsCustomerType, EntitiesOf
<1> QED BY <1>1, Invariance, PTL

\* No facility with a fixed fee is inactive, however updates, activations and
\* fees of it overlap.
THEOREM FeesAreCharged == Spec => []FeesAreOnActiveFacilities
<1>1. IInv => FeesAreOnActiveFacilities
  BY DEF IInv, StoreOK, IsStore, IsPossible, IsActive, FeesAreOnActiveFacilities, EntitiesOf
<1> QED BY <1>1, Invariance, PTL

\* The dates of a loan agree, from its request through the bundle that makes
\* it to every expiry date it is given.
THEOREM LoanDatesDoAgree == Spec => []LoanDatesAgree
<1>1. IInv => LoanDatesAgree
  BY DEF IInv, StoreOK, IsStore, IsPossible, MaturesOnADate, LoanDatesAgree, EntitiesOf
<1> QED BY <1>1, Invariance, PTL

\* 404 is answered only for what ACBS does not have at that moment, whatever
\* else may fail in the call.
THEOREM NotFoundMeansAbsent == Spec => NotFoundIsAbsent
<1> DEFINE Finds == \A r \in Requests : pc[r] # "done" /\ Answered(r, {404})' => Absent(r)
<1>1. IInv /\ [Next]_vars => [Finds]_vars
  <2> SUFFICES ASSUME IInv, Next, NEW r \in Requests, pc[r] # "done", pc'[r] = "done",
                      answer'[r].status = 404
               PROVE  Absent(r)
    BY DEF Answered
  <2>1. CASE UNCHANGED workload /\ Handle(r)
    <3>1. Lands(r)
      BY <2>1, HandleStep DEF Step
    <3> QED BY <3>1, CourseGoesOn DEF Lands
  <2>2. ASSUME UNCHANGED workload, NEW q \in Requests \ {r}, Handle(q)  PROVE FALSE
    <3>1. pc'[r] = pc[r]
      BY <2>2, HandleStep DEF Step, Frame
    <3> QED BY <3>1
  <2>3. ASSUME NEW i \in DOMAIN acbs, PostBundle(i)  PROVE FALSE
    BY <2>3 DEF PostBundle
  <2>4. ~Finished
    BY DEF Finished
  <2> QED BY <2>1, <2>2, <2>3, <2>4 DEF Next
<1> QED BY <1>1, Invariance, PTL DEF Spec, NotFoundIsAbsent

-----------------------------------------------------------------------------
(* What a PATCH of covenants or guarantees changes.                        *)

PartsLike(kind, facilityIdentifier, part) ==
    IF kind = "FacilityCovenant" THEN CovenantsLike(facilityIdentifier, part)
    ELSE GuaranteesLike(facilityIdentifier, part)

ReadLabel(kind) ==
    IF kind = "FacilityCovenant" THEN "getCovenantsToUpdate" ELSE "getGuaranteesToUpdate"

PutLabel(kind) == IF kind = "FacilityCovenant" THEN "putCovenant" ELSE "putGuarantee"

PatchDto(kind) ==
    IF kind = "FacilityCovenant" THEN UpdateFacilityCovenantsRequestDto
    ELSE UpdateFacilityGuaranteesRequestDto

FieldsToUpdate(kind, r, part) ==
    IF kind = "FacilityCovenant" THEN CovenantFieldsToUpdate(Body(r), part)
    ELSE GuaranteeFieldsToUpdate(Body(r), part)

Thrown(r) == \E exception : Throw(r, exception)

LEMMA PatchGuards ==
  ASSUME NEW r, InCourse(r), NEW kind \in Patches, Op(r) = PatchOp(kind), Handle(r)
  PROVE  /\ kind = "FacilityCovenant" => UpdateCovenantsForFacility(r)
         /\ kind = "FacilityGuarantee" => UpdateGuaranteesForFacility(r)
<1>1. pc[r] \in {"received", "done", ReadLabel(kind), PutLabel(kind)}
  <2>1. ASSUME IsCourse(Op(r), pc[r])  PROVE FacilityPartCourse(Op(r), pc[r])
    BY <2>1 DEF IsCourse, PartyCourse, DealCourse, FacilityCourse, LoanCourse, PatchOp, Patches
  <2>2. CASE FacilityPartCourse(Op(r), pc[r])
    BY <2>2 DEF FacilityPartCourse, PatchOp, Patches, ReadLabel, PutLabel
  <2> QED BY <2>1, <2>2 DEF InCourse
<1>2. \/ Op(r) = "PATCH/facilities/<facilityIdentifier>/covenants"
         /\ kind = "FacilityCovenant"
         /\ pc[r] \in {"received", "done", "getCovenantsToUpdate", "putCovenant"}
      \/ Op(r) = "PATCH/facilities/<facilityIdentifier>/guarantees"
         /\ kind = "FacilityGuarantee"
         /\ pc[r] \in {"received", "done", "getGuaranteesToUpdate", "putGuarantee"}
  BY <1>1 DEF Patches, PatchOp, ReadLabel, PutLabel
<1>3. ~PartyHandler(r)
  BY <1>2 DEF PartyHandler, GetPartiesBySearchText, GetPartyByIdentifier,
         GetExternalRatingsForParty, PostParties, ReceiveParty, SearchForParty, CreateParty,
         GetRatingsOfParty, FindCustomerType, CreateRating, Receives
<1>4. ~DealHandler(r)
  BY <1>2 DEF DealHandler, GetDeal, ReceiveDeal, CreateDeal, UpdateBorrowingRestrictionForNewDeal,
         CreateGuaranteeForDeal, GetGuaranteesForDeal, CreateInvestorForDeal,
         GetDealInvestors, Receives
<1>5. ~FacilityHandler(r)
  BY <1>2 DEF FacilityHandler, GetFacility, CreateFacility, ReceiveFacilityUpdate,
         GetFacilityToUpdate, UpdateFacility, AmendFacilityAmount, Receives
<1>6. ~LoanHandler(r)
  BY <1>2 DEF LoanHandler, CreateActivationTransactionForFacility,
         GetActivationTransactionByBundleIdentifier, CreateFixedFeeForFacility,
         GetFixedFeesForFacility, CreateAmountAmendmentForFixedFees, GetLoansForFacility,
         CreateLoanForFacility, GetLoanTransactionByBundleIdentifier,
         CreateAmountAmendmentForLoan, UpdateLoanExpiryDate,
         ReceivesFor, ReceivesArrayFor, ReceivesItemFor, Receives
<1>7. /\ ~CreateCovenantForFacility(r) /\ ~GetCovenantsForFacility(r)
      /\ ~CreateGuaranteeForFacility(r) /\ ~GetGuaranteesForFacility(r)
      /\ ~CreateInvestorForFacility(r) /\ ~GetInvestorsForFacility(r)
      /\ kind = "FacilityCovenant" => ~UpdateGuaranteesForFacility(r)
      /\ kind = "FacilityGuarantee" => ~UpdateCovenantsForFacility(r)
  BY <1>2 DEF CreateCovenantForFacility, GetCovenantsForFacility,
         UpdateCovenantsForFacility, CreateGuaranteeForFacility, GetGuaranteesForFacility,
         UpdateGuaranteesForFacility, CreateInvestorForFacility, GetInvestorsForFacility,
         ReceivesFor, ReceivesArrayFor, ReceivesItemFor, Receives
<1> QED BY <1>3, <1>4, <1>5, <1>6, <1>7 DEF Handle, FacilityPartHandler, Patches

\* A PATCH reads what there is, and puts back one part after the other.
PatchReceives(r, kind) ==
    /\ pc[r] = "received" /\ acbs' = acbs
    /\ \/ Body(r) \in PatchDto(kind) /\ Goto(r, ReadLabel(kind), None)
       \/ Thrown(r)

PatchReads(r, kind) ==
    /\ pc[r] = ReadLabel(kind) /\ acbs' = acbs
    /\ PutNext(r, PutLabel(kind), DataOf(kind, FacilityIdentifier(r))) \/ Thrown(r)

PatchPuts(r, kind) ==
    /\ pc[r] = PutLabel(kind)
    /\ \/ acbs' = acbs /\ Thrown(r)
       \/ \E i \in PartsLike(kind, FacilityIdentifier(r), Head(local[r])) :
             /\ acbs' = Replaced(r, i, FieldsToUpdate(kind, r, Head(local[r])))
             /\ PutNext(r, PutLabel(kind), Tail(local[r])) \/ Thrown(r)

\* How a PUT that finds something ends.
LEMMA WriteReplaces ==
  ASSUME NEW found, found # {}, NEW r, NEW data,
         NEW outcome \in WriteOutcomes(IF found = {} THEN Refusal("FacilityNotFound")
                                       ELSE Ok(Replaced(r, CHOOSE i \in found : TRUE, data))),
         acbs' = outcome[2]
  PROVE  \E i \in found :
            \/ acbs' = Replaced(r, i, data)
            \/ acbs' = acbs /\ outcome[1].status # 200
<1> DEFINE i == CHOOSE j \in found : TRUE
           written == Replaced(r, i, data)
           result == Ok(written)
<1>1. i \in found
  OBVIOUS
<1>2. /\ IsResult(result) /\ result # Null
      /\ \A other : result = Ok(other) => other = written
  BY OkOrNull
<1>3. outcome \in WriteOutcomes(result)
  OBVIOUS
<1> HIDE DEF i, written, result
<1>4. LET status == HttpStatus(WrapAcbsHttpPostOrPutError({}, outcome[1]))
      IN  /\ outcome[2] = acbs \/ result = Ok(outcome[2])
          /\ IF outcome[1].status = 200 THEN result = Ok(outcome[2])
             ELSE /\ status \in {400, 404} => outcome[2] = acbs
                  /\ status = 404 => IsMissing({}, result)
  BY <1>2, <1>3, WriteEnds
<1>5. /\ outcome[2] = acbs \/ result = Ok(outcome[2])
      /\ outcome[1].status = 200 => result = Ok(outcome[2])
  BY <1>4
<1>6. acbs' = written \/ (acbs' = acbs /\ outcome[1].status # 200)
  BY <1>2, <1>5
<1> QED BY <1>1, <1>6 DEF written

LEMMA CovenantsPatched ==
  ASSUME IInv, NEW r \in Requests, UNCHANGED workload, UpdateCovenantsForFacility(r),
         Op(r) = PatchOp("FacilityCovenant")
  PROVE  LET kind == "FacilityCovenant"
         IN  PatchReceives(r, kind) \/ PatchReads(r, kind) \/ PatchPuts(r, kind)
<1> DEFINE facilityIdentifier == FacilityIdentifier(r)
<1>1. CASE pc[r] = "received"
  BY <1>1 DEF UpdateCovenantsForFacility, ReceivesFor, Validated, WithoutAcbs, Thrown,
              PatchReceives, ReadLabel, PatchDto
<1>2. CASE pc[r] = "getCovenantsToUpdate"
  <2> DEFINE call == AcbsGetCovenantsForFacility(facilityIdentifier)
             parts == DataOf("FacilityCovenant", facilityIdentifier)
  <2>1. PICK outcome \in GetOutcomes(call) :
          /\ UNCHANGED acbs
          /\ IF IsGiven(outcome[1]) THEN PutNext(r, "putCovenant", outcome[1].data)
             ELSE Throw(r, GetException(call, outcome[1]))
    BY <1>2 DEF UpdateCovenantsForFacility, ReceivesFor, Receives, Get, IsGiven
  <2>2. /\ IsCall(call) /\ \A data : call.result = Ok(data) => data = parts
    BY GetsCovenants
  <2> HIDE DEF call, parts
  <2>3. IsGiven(outcome[1]) => outcome[1].data = parts
    BY <2>2, GetEnds
  <2>4. PutNext(r, "putCovenant", parts) \/ Thrown(r)
    BY <2>1, <2>3 DEF Thrown
  <2> QED BY <1>2, <2>1, <2>4 DEF PatchReads, ReadLabel, PutLabel, parts
<1>3. CASE pc[r] = "putCovenant"
  <2> DEFINE head == Head(local[r])
             covenant == CovenantFieldsToUpdate(Body(r), head)
             found == {i \in Indexes("FacilityCovenant", facilityIdentifier) :
                          acbs[i].data.CovenantIdentifier = covenant.CovenantIdentifier}
  <2>1. /\ local[r] \in Seq(Range(local[r])) /\ local[r] # <<>>
        /\ \A k \in DOMAIN local[r] :
             /\ FieldsOf("FacilityCovenant") \subseteq DOMAIN local[r][k]
             /\ \E i : i \in CovenantsLike(facilityIdentifier, local[r][k])
    <3>1. InCourse(r)
      BY DEF IInv
    <3> QED BY <1>3, <3>1, CourseKnows DEF Knows, KnowsParts, Calls
  <2>2. \E n \in DOMAIN local[r] : head = local[r][n]
    BY <2>1, TailOfParts
  <2>3. /\ FieldsOf("FacilityCovenant") \subseteq DOMAIN head
        /\ \E i : i \in CovenantsLike(facilityIdentifier, head)
    BY <2>1, <2>2
  <2>4. PICK outcome \in WriteOutcomes(IF found = {} THEN Refusal("FacilityNotFound")
                             ELSE Ok(Replaced(r, CHOOSE i \in found : TRUE, covenant))) :
          /\ acbs' = outcome[2]
          /\ IF outcome[1].status = 200 THEN PutNext(r, "putCovenant", Tail(local[r]))
             ELSE Throw(r, WrapAcbsHttpPostOrPutError({"FacilityNotFound"}, outcome[1]))
    BY <1>3 DEF UpdateCovenantsForFacility, ReceivesFor, Receives,
                AcbsReplaceCovenantForFacility, AcbsReplace, Write, WriteOr
  <2> HIDE DEF head
  <2>5. covenant.CovenantIdentifier = head.CovenantIdentifier
    BY <2>3 DEF CovenantFieldsToUpdate, FieldsOf
  <2> HIDE DEF covenant
  <2>6. found = CovenantsLike(facilityIdentifier, head)
    BY <2>5 DEF CovenantsLike
  <2> HIDE DEF found
  <2>7. \E i \in found : acbs' = Replaced(r, i, covenant)
                         \/ (acbs' = acbs /\ outcome[1].status # 200)
    BY <2>3, <2>4, <2>6, WriteReplaces
  <2>8. PutNext(r, "putCovenant", Tail(local[r])) \/ Thrown(r)
    BY <2>4 DEF Thrown
  <2>9. outcome[1].status # 200 => Thrown(r)
    BY <2>4 DEF Thrown
  <2> QED BY <1>3, <2>6, <2>7, <2>8, <2>9
          DEF PatchPuts, PutLabel, PartsLike, FieldsToUpdate, covenant, head
<1> QED BY <1>1, <1>2, <1>3 DEF UpdateCovenantsForFacility, ReceivesFor, Receives

LEMMA GuaranteesPatched ==
  ASSUME IInv, NEW r \in Requests, UNCHANGED workload, UpdateGuaranteesForFacility(r),
         Op(r) = PatchOp("FacilityGuarantee")
  PROVE  LET kind == "FacilityGuarantee"
         IN  PatchReceives(r, kind) \/ PatchReads(r, kind) \/ PatchPuts(r, kind)
<1> DEFINE facilityIdentifier == FacilityIdentifier(r)
<1>0. Op(r) = "PATCH/facilities/<facilityIdentifier>/guarantees"
  BY DEF PatchOp
<1>1. CASE pc[r] = "received"
  BY <1>1 DEF UpdateGuaranteesForFacility, ReceivesFor, Validated, WithoutAcbs, Thrown,
              PatchReceives, ReadLabel, PatchDto
<1>2. CASE pc[r] = "getGuaranteesToUpdate"
  <2> DEFINE call == AcbsGetGuaranteesForFacility(facilityIdentifier)
             parts == DataOf("FacilityGuarantee", facilityIdentifier)
  <2>1. PICK outcome \in GetOutcomes(call) :
          /\ UNCHANGED acbs
          /\ IF IsGiven(outcome[1]) THEN PutNext(r, "putGuarantee", outcome[1].data)
             ELSE Throw(r, GetException(call, outcome[1]))
    BY <1>2 DEF UpdateGuaranteesForFacility, ReceivesFor, Receives, Get, IsGiven
  <2>2. /\ IsCall(call) /\ \A data : call.result = Ok(data) => data = parts
    BY <1>0, GetsGuarantees DEF IInv
  <2> HIDE DEF call, parts
  <2>3. IsGiven(outcome[1]) => outcome[1].data = parts
    BY <2>2, GetEnds
  <2>4. PutNext(r, "putGuarantee", parts) \/ Thrown(r)
    BY <2>1, <2>3 DEF Thrown
  <2> QED BY <1>2, <2>1, <2>4 DEF PatchReads, ReadLabel, PutLabel, parts
<1>3. CASE pc[r] = "putGuarantee"
  <2> DEFINE head == Head(local[r])
             guarantee == GuaranteeFieldsToUpdate(Body(r), head)
             found == {i \in Indexes("FacilityGuarantee", facilityIdentifier) :
                         /\ acbs[i].data.GuaranteeTypeCode = guarantee.GuaranteeTypeCode
                         /\ acbs[i].data.GuarantorPartyIdentifier =
                              guarantee.GuarantorPartyIdentifier}
  <2>1. /\ local[r] \in Seq(Range(local[r])) /\ local[r] # <<>>
        /\ \A k \in DOMAIN local[r] :
             /\ FieldsOf("FacilityGuarantee") \subseteq DOMAIN local[r][k]
             /\ \E i : i \in GuaranteesLike(facilityIdentifier, local[r][k])
    <3>1. InCourse(r)
      BY DEF IInv
    <3> QED BY <1>3, <3>1, CourseKnows DEF Knows, KnowsParts, Calls
  <2>2. \E n \in DOMAIN local[r] : head = local[r][n]
    BY <2>1, TailOfParts
  <2>3. /\ FieldsOf("FacilityGuarantee") \subseteq DOMAIN head
        /\ \E i : i \in GuaranteesLike(facilityIdentifier, head)
    BY <2>1, <2>2
  <2>4. PICK outcome \in WriteOutcomes(IF found = {} THEN Refusal("FacilityNotFound")
                             ELSE Ok(Replaced(r, CHOOSE i \in found : TRUE, guarantee))) :
          /\ acbs' = outcome[2]
          /\ IF outcome[1].status = 200 THEN PutNext(r, "putGuarantee", Tail(local[r]))
             ELSE Throw(r, WrapAcbsHttpPostOrPutError({"FacilityNotFound"}, outcome[1]))
    BY <1>3 DEF UpdateGuaranteesForFacility, ReceivesFor, Receives,
                AcbsReplaceGuaranteeForFacility, AcbsReplace, Write, WriteOr
  <2> HIDE DEF head
  <2>5. guarantee.GuaranteeTypeCode = head.GuaranteeTypeCode
        /\ guarantee.GuarantorPartyIdentifier = head.GuarantorPartyIdentifier
    BY <2>3 DEF GuaranteeFieldsToUpdate, FieldsOf
  <2> HIDE DEF guarantee
  <2>6. found = GuaranteesLike(facilityIdentifier, head)
    BY <2>5 DEF GuaranteesLike
  <2> HIDE DEF found
  <2>7. \E i \in found : acbs' = Replaced(r, i, guarantee)
                         \/ (acbs' = acbs /\ outcome[1].status # 200)
    BY <2>3, <2>4, <2>6, WriteReplaces
  <2>8. PutNext(r, "putGuarantee", Tail(local[r])) \/ Thrown(r)
    BY <2>4 DEF Thrown
  <2>9. outcome[1].status # 200 => Thrown(r)
    BY <2>4 DEF Thrown
  <2> QED BY <1>3, <2>6, <2>7, <2>8, <2>9
          DEF PatchPuts, PutLabel, PartsLike, FieldsToUpdate, guarantee, head
<1> QED BY <1>1, <1>2, <1>3 DEF UpdateGuaranteesForFacility, ReceivesFor, Receives

LEMMA PatchSteps ==
  ASSUME IInv, NEW r \in Requests, UNCHANGED workload, Handle(r),
         NEW kind \in Patches, Op(r) = PatchOp(kind)
  PROVE  PatchReceives(r, kind) \/ PatchReads(r, kind) \/ PatchPuts(r, kind)
<1>1. InCourse(r)
  BY DEF IInv
<1>2. CASE kind = "FacilityCovenant"
  <2>1. UpdateCovenantsForFacility(r)
    BY <1>1, <1>2, PatchGuards
  <2> QED BY <1>2, <2>1, CovenantsPatched
<1>3. CASE kind = "FacilityGuarantee"
  <2>1. UpdateGuaranteesForFacility(r)
    BY <1>1, <1>3, PatchGuards
  <2> QED BY <1>3, <2>1, GuaranteesPatched
<1> QED BY <1>2, <1>3 DEF Patches

\* A part that has what the request gives.
HasPatch(r, data) ==
    \A name \in DOMAIN Body(r) :
        Body(r)[name] # None =>
            data[Patched[name]] = IF name = "expirationDate" THEN AddTime(Body(r)[name])
                                  ELSE Body(r)[name]

Changes(r) == {Patched[name] : name \in {n \in DOMAIN Body(r) : Body(r)[n] # None}}

LEMMA UpdatedCovenant ==
  ASSUME NEW request \in UpdateFacilityCovenantsRequestDto, NEW part,
         FieldsOf("FacilityCovenant") \subseteq DOMAIN part
  PROVE  LET new == CovenantFieldsToUpdate(request, part)
         IN  /\ DOMAIN new = DOMAIN part
             /\ new.CovenantIdentifier = part.CovenantIdentifier
             /\ request.targetAmount # None => new.TargetAmount = request.targetAmount
             /\ request.expirationDate # None =>
                  new.ExpirationDate = AddTime(request.expirationDate)
             /\ \A field \in DOMAIN part : new[field] # part[field] =>
                  \/ field = "TargetAmount" /\ request.targetAmount # None
                  \/ field = "ExpirationDate" /\ request.expirationDate # None
<1> DEFINE date == Given(AddTimeIfExists(request.expirationDate), part.ExpirationDate)
           amount == Given(request.targetAmount, part.TargetAmount)
           dated == [part EXCEPT !.ExpirationDate = date]
           new == [dated EXCEPT !.TargetAmount = amount]
<1>1. {"CovenantIdentifier", "TargetAmount", "ExpirationDate"} \subseteq DOMAIN part
  BY DEF FieldsOf
<1>2. /\ IF request.expirationDate = None THEN date = part.ExpirationDate
         ELSE date = AddTime(request.expirationDate)
      /\ IF request.targetAmount = None THEN amount = part.TargetAmount
         ELSE amount = request.targetAmount
  <2>1. request.expirationDate \in Dates \cup {None}
    BY DEF UpdateFacilityCovenantsRequestDto, Maybe
  <2> QED BY <2>1, AcbsHttpAssumption DEF Given, OrDefault, AddTimeIfExists, AddTime
<1> HIDE DEF date, amount
<1>3. /\ DOMAIN new = DOMAIN part /\ new.TargetAmount = amount /\ new.ExpirationDate = date
      /\ \A field \in DOMAIN part \ {"TargetAmount", "ExpirationDate"} :
            new[field] = part[field]
  BY <1>1
<1>4. CovenantFieldsToUpdate(request, part) = new
  <2>1. dated.TargetAmount = part.TargetAmount
    BY <1>1
  <2> QED BY <2>1 DEF CovenantFieldsToUpdate, date, amount
<1> HIDE DEF new
<1>5. new.CovenantIdentifier = part.CovenantIdentifier
  BY <1>1, <1>3
<1>6. \A field \in DOMAIN part : new[field] # part[field] =>
          \/ field = "TargetAmount" /\ request.targetAmount # None
          \/ field = "ExpirationDate" /\ request.expirationDate # None
  BY <1>2, <1>3
<1> QED BY <1>2, <1>3, <1>4, <1>5, <1>6

LEMMA UpdatedGuarantee ==
  ASSUME NEW request \in UpdateFacilityGuaranteesRequestDto, NEW part,
         FieldsOf("FacilityGuarantee") \subseteq DOMAIN part
  PROVE  LET new == GuaranteeFieldsToUpdate(request, part)
         IN  /\ DOMAIN new = DOMAIN part
             /\ new.GuaranteeTypeCode = part.GuaranteeTypeCode
             /\ new.GuarantorPartyIdentifier = part.GuarantorPartyIdentifier
             /\ request.guaranteedLimit # None => new.GuaranteedLimit = request.guaranteedLimit
             /\ request.expirationDate # None =>
                  new.ExpirationDate = AddTime(request.expirationDate)
             /\ \A field \in DOMAIN part : new[field] # part[field] =>
                  \/ field = "GuaranteedLimit" /\ request.guaranteedLimit # None
                  \/ field = "ExpirationDate" /\ request.expirationDate # None
<1> DEFINE date == Given(AddTimeIfExists(request.expirationDate), part.ExpirationDate)
           amount == Given(request.guaranteedLimit, part.GuaranteedLimit)
           dated == [part EXCEPT !.ExpirationDate = date]
           new == [dated EXCEPT !.GuaranteedLimit = amount]
<1>1. {"GuaranteeTypeCode", "GuarantorPartyIdentifier", "GuaranteedLimit", "ExpirationDate"}
        \subseteq DOMAIN part
  BY DEF FieldsOf
<1>2. /\ IF request.expirationDate = None THEN date = part.ExpirationDate
         ELSE date = AddTime(request.expirationDate)
      /\ IF request.guaranteedLimit = None THEN amount = part.GuaranteedLimit
         ELSE amount = request.guaranteedLimit
  <2>1. request.expirationDate \in Dates \cup {None}
    BY DEF UpdateFacilityGuaranteesRequestDto, Maybe
  <2> QED BY <2>1, AcbsHttpAssumption DEF Given, OrDefault, AddTimeIfExists, AddTime
<1> HIDE DEF date, amount
<1>3. /\ DOMAIN new = DOMAIN part /\ new.GuaranteedLimit = amount /\ new.ExpirationDate = date
      /\ \A field \in DOMAIN part \ {"GuaranteedLimit", "ExpirationDate"} :
            new[field] = part[field]
  BY <1>1
<1>4. GuaranteeFieldsToUpdate(request, part) = new
  <2>1. dated.GuaranteedLimit = part.GuaranteedLimit
    BY <1>1
  <2> QED BY <2>1 DEF GuaranteeFieldsToUpdate, date, amount
<1> HIDE DEF new
<1>5. /\ new.GuaranteeTypeCode = part.GuaranteeTypeCode
      /\ new.GuarantorPartyIdentifier = part.GuarantorPartyIdentifier
  BY <1>1, <1>3
<1>6. \A field \in DOMAIN part : new[field] # part[field] =>
          \/ field = "GuaranteedLimit" /\ request.guaranteedLimit # None
          \/ field = "ExpirationDate" /\ request.expirationDate # None
  BY <1>2, <1>3
<1> QED BY <1>2, <1>3, <1>4, <1>5, <1>6

\* What is put back is the same part, has what the request gives, and differs
\* in nothing else.
LEMMA UpdatedPart ==
  ASSUME NEW r, NEW kind \in Patches, Body(r) \in PatchDto(kind),
         NEW part, FieldsOf(kind) \subseteq DOMAIN part
  PROVE  LET new == FieldsToUpdate(kind, r, part)
         IN  /\ DOMAIN new = DOMAIN part
             /\ HasPatch(r, new)
             /\ \A f : PartsLike(kind, f, new) = PartsLike(kind, f, part)
             /\ \A field \in DOMAIN part : new[field] # part[field] => field \in Changes(r)
<1>1. CASE kind = "FacilityCovenant"
  <2> DEFINE request == Body(r)
             new == CovenantFieldsToUpdate(request, part)
  <2>1. request \in UpdateFacilityCovenantsRequestDto
    BY <1>1 DEF PatchDto
  <2>2. DOMAIN request = {"targetAmount", "expirationDate"}
    BY <2>1 DEF UpdateFacilityCovenantsRequestDto
  <2> HIDE DEF request
  <2>3. /\ DOMAIN new = DOMAIN part
        /\ new.CovenantIdentifier = part.CovenantIdentifier
        /\ request.targetAmount # None => new.TargetAmount = request.targetAmount
        /\ request.expirationDate # None =>
             new.ExpirationDate = AddTime(request.expirationDate)
        /\ \A field \in DOMAIN part : new[field] # part[field] =>
             \/ field = "TargetAmount" /\ request.targetAmount # None
             \/ field = "ExpirationDate" /\ request.expirationDate # None
    BY <1>1, <2>1, UpdatedCovenant
  <2> HIDE DEF new
  <2>4. Patched["targetAmount"] = "TargetAmount" /\ Patched["expirationDate"] = "ExpirationDate"
    BY DEF Patched
  <2>5. HasPatch(r, new)
    BY <2>2, <2>3, <2>4 DEF HasPatch, request
  <2>6. \A field \in DOMAIN part : new[field] # part[field] => field \in Changes(r)
    BY <2>2, <2>3, <2>4 DEF Changes, request
  <2>7. \A f : PartsLike(kind, f, new) = PartsLike(kind, f, part)
    BY <1>1, <2>3 DEF PartsLike, CovenantsLike
  <2>8. FieldsToUpdate(kind, r, part) = new
    BY <1>1 DEF FieldsToUpdate, new, request
  <2> QED BY <2>3, <2>5, <2>6, <2>7, <2>8
<1>2. CASE kind = "FacilityGuarantee"
  <2> DEFINE request == Body(r)
             new == GuaranteeFieldsToUpdate(request, part)
  <2>1. request \in UpdateFacilityGuaranteesRequestDto
    BY <1>2 DEF PatchDto
  <2>2. DOMAIN request = {"guaranteedLimit", "expirationDate"}
    BY <2>1 DEF UpdateFacilityGuaranteesRequestDto
  <2> HIDE DEF request
  <2>3. /\ DOMAIN new = DOMAIN part
        /\ new.GuaranteeTypeCode = part.GuaranteeTypeCode
        /\ new.GuarantorPartyIdentifier = part.GuarantorPartyIdentifier
        /\ request.guaranteedLimit # None => new.GuaranteedLimit = request.guaranteedLimit
        /\ request.expirationDate # None =>
             new.ExpirationDate = AddTime(request.expirationDate)
        /\ \A field \in DOMAIN part : new[field] # part[field] =>
             \/ field = "GuaranteedLimit" /\ request.guaranteedLimit # None
             \/ field = "ExpirationDate" /\ request.expirationDate # None
    BY <1>2, <2>1, UpdatedGuarantee
  <2> HIDE DEF new
  <2>4. /\ Patched["guaranteedLimit"] = "GuaranteedLimit"
        /\ Patched["expirationDate"] = "ExpirationDate"
    BY DEF Patched
  <2>5. HasPatch(r, new)
    BY <2>2, <2>3, <2>4 DEF HasPatch, request
  <2>6. \A field \in DOMAIN part : new[field] # part[field] => field \in Changes(r)
    BY <2>2, <2>3, <2>4 DEF Changes, request
  <2>7. \A f : PartsLike(kind, f, new) = PartsLike(kind, f, part)
    BY <1>2, <2>3 DEF PartsLike, GuaranteesLike
  <2>8. FieldsToUpdate(kind, r, part) = new
    BY <1>2 DEF FieldsToUpdate, new, request
  <2> QED BY <2>3, <2>5, <2>6, <2>7, <2>8
<1> QED BY <1>1, <1>2 DEF Patches

-----------------------------------------------------------------------------
(* What a PATCH has yet to do.                                             *)

\* What ACBS answers with is each thing that it has of the kind, once.
LEMMA EachFound ==
  ASSUME StoreOK, NEW kind, NEW owner
  PROVE  LET parts == DataOf(kind, owner)
             found == SetToSeq(Indexes(kind, owner))
         IN  /\ DOMAIN found = DOMAIN parts
             /\ \A k \in DOMAIN parts : /\ found[k] \in Indexes(kind, owner)
                                        /\ parts[k] = acbs[found[k]].data
             /\ \A k, m \in DOMAIN parts : found[k] = found[m] => k = m
             /\ \A i \in Indexes(kind, owner) : \E k \in DOMAIN parts : found[k] = i
<1> DEFINE S == Indexes(kind, owner)
           n == Cardinality(S)
           found == SetToSeq(S)
<1>1. DOMAIN acbs = 1..Len(acbs) /\ Len(acbs) \in Nat
  BY IsASequence DEF StoreOK, IsStore
<1>2. IsFiniteSet(DOMAIN acbs) /\ S \in SUBSET DOMAIN acbs
  BY <1>1, FS_Interval DEF Indexes
<1>3. IsFiniteSet(S)
  BY <1>2, FS_Subset
<1>4. DataOf(kind, owner) = [i \in DOMAIN found |-> acbs[found[i]].data]
  BY DEF DataOf
<1> HIDE DEF S
<1>5. n \in Nat /\ ExistsBijection(1..n, S)
  BY <1>3, FS_CardinalityType
<1>6. found \in [1..n -> S] /\ IsInjective(found)
  <2>1. \E g \in [1..n -> S] : IsInjective(g)
    BY <1>5 DEF ExistsBijection, Bijection, Injection
  <2> HIDE DEF n
  <2> QED BY <2>1 DEF SetToSeq, n
<1>7. found \in Injection(1..n, S)
  BY <1>6 DEF Injection
<1>8. Cardinality(1..n) = Cardinality(S)
  <2>1. Cardinality(1..n) = IF 1 > n THEN 0 ELSE n - 1 + 1
    BY <1>5, FS_Interval
  <2> QED BY <1>5, <2>1
<1>9. found \in Surjection(1..n, S)
  BY <1>3, <1>7, <1>8, FS_Injection
<1>10. \A i \in S : \E k \in 1..n : found[k] = i
  BY <1>9 DEF Surjection
<1> HIDE DEF n, found
<1> QED BY <1>4, <1>6, <1>10 DEF IsInjective, S, found

\* ACBS has no two covenants of a facility with one identifier, and no two
\* guarantees of one type by one guarantor.  The API does not see to it: the
\* identifiers come from elsewhere, and clients name the guarantors.
PartsAreDistinct ==
    \A kind \in Patches : \A i, j \in DOMAIN acbs :
        acbs[j].kind = kind /\ i \in PartsLike(kind, acbs[j].owner, acbs[j].data) => i = j

\* Request r has put back all of its facility but parts, which are as they are
\* in ACBS.
IsLeft(r, kind, parts) ==
    LET Like(k) == PartsLike(kind, FacilityIdentifier(r), parts[k])
    IN  /\ \A k \in DOMAIN parts : \A i \in Like(k) : acbs[i].data = parts[k]
        /\ \A k, m \in DOMAIN parts : \A i \in Like(k) : i \in Like(m) => k = m
        /\ \A i \in Indexes(kind, FacilityIdentifier(r)) :
             HasPatch(r, acbs[i].data) \/ \E k \in DOMAIN parts : i \in Like(k)

PatchKnows(r, kind) ==
    /\ Op(r) = PatchOp(kind) /\ pc[r] \in {ReadLabel(kind), PutLabel(kind)} =>
         Body(r) \in PatchDto(kind)
    /\ workload.serial /\ pc[r] = PutLabel(kind) => IsLeft(r, kind, local[r])

PatchInv == \A r \in Requests, kind \in Patches : PatchKnows(r, kind)

LEMMA LikeItself ==
  ASSUME NEW kind \in Patches, NEW f, NEW part
  PROVE  /\ PartsLike(kind, f, part) \subseteq Indexes(kind, f)
         /\ \A i \in Indexes(kind, f) : i \in PartsLike(kind, f, acbs[i].data)
BY DEF Patches, PartsLike, CovenantsLike, GuaranteesLike, Indexes

\* When nothing is written but what is the same thing, what is like what stays.
LEMMA LikeIsSame ==
  ASSUME Keeps(acbs, acbs'), NEW kind \in Patches,
         \A j \in DOMAIN acbs' \ DOMAIN acbs : acbs'[j].kind # kind
  PROVE  /\ \A f, part, i : i \in PartsLike(kind, f, part)' <=> i \in PartsLike(kind, f, part)
         /\ \A f, i : i \in Indexes(kind, f)' <=> i \in Indexes(kind, f)
<1>1. \A f, i : i \in Indexes(kind, f)' <=> i \in Indexes(kind, f)
  BY DEF Indexes, Keeps, IsSame
<1>2. ASSUME NEW f, NEW part, NEW i
      PROVE  i \in PartsLike(kind, f, part)' <=> i \in PartsLike(kind, f, part)
  <2>1. CASE kind = "FacilityCovenant"
    <3>1. \A j \in Indexes(kind, f) :
              acbs'[j].data.CovenantIdentifier = acbs[j].data.CovenantIdentifier
      BY <2>1 DEF Indexes, Keeps, IsSame
    <3> QED BY <1>1, <2>1, <3>1 DEF PartsLike, CovenantsLike
  <2>2. CASE kind = "FacilityGuarantee"
    <3>1. \A j \in Indexes(kind, f) :
              /\ acbs'[j].data.GuaranteeTypeCode = acbs[j].data.GuaranteeTypeCode
              /\ acbs'[j].data.GuarantorPartyIdentifier = acbs[j].data.GuarantorPartyIdentifier
      BY <2>2 DEF Indexes, Keeps, IsSame
    <3> QED BY <1>1, <2>2, <3>1 DEF PartsLike, GuaranteesLike
  <2> QED BY <2>1, <2>2 DEF Patches
<1> QED BY <1>1, <1>2

\* What is read is what is left.
LEMMA ReadIsLeft ==
  ASSUME StoreOK, PartsAreDistinct, NEW r, NEW kind \in Patches
  PROVE  IsLeft(r, kind, DataOf(kind, FacilityIdentifier(r)))
<1> DEFINE f == FacilityIdentifier(r)
           parts == DataOf(kind, f)
           found == SetToSeq(Indexes(kind, f))
<1>1. /\ DOMAIN found = DOMAIN parts
      /\ \A k \in DOMAIN parts : found[k] \in Indexes(kind, f) /\ parts[k] = acbs[found[k]].data
      /\ \A k, m \in DOMAIN parts : found[k] = found[m] => k = m
      /\ \A i \in Indexes(kind, f) : \E k \in DOMAIN parts : found[k] = i
  BY EachFound
<1> HIDE DEF parts, found
<1>2. ASSUME NEW k \in DOMAIN parts, NEW i \in PartsLike(kind, f, parts[k])
      PROVE  i = found[k]
  <2>1. /\ found[k] \in DOMAIN acbs /\ acbs[found[k]].kind = kind
        /\ acbs[found[k]].owner = f /\ parts[k] = acbs[found[k]].data
    BY <1>1 DEF Indexes
  <2>2. i \in DOMAIN acbs
    BY LikeItself DEF Indexes
  <2> QED BY <2>1, <2>2 DEF PartsAreDistinct
<1>3. \A i \in Indexes(kind, f) : \E k \in DOMAIN parts : i \in PartsLike(kind, f, parts[k])
  BY <1>1, LikeItself
<1> QED BY <1>1, <1>2, <1>3 DEF IsLeft, parts

\* What is left stays so when nothing is written to things of the kind.
LEMMA LeftStays ==
  ASSUME NEW r, NEW kind \in Patches, UNCHANGED workload, Keeps(acbs, acbs'),
         \A j \in DOMAIN acbs' \ DOMAIN acbs : acbs'[j].kind # kind,
         \A j \in DOMAIN acbs : acbs[j].kind = kind => acbs'[j] = acbs[j],
         NEW parts, IsLeft(r, kind, parts), local'[r] = parts
  PROVE  IsLeft(r, kind, local[r])'
<1> DEFINE f == FacilityIdentifier(r)
<1>1. f' = f /\ \A data : HasPatch(r, data)' <=> HasPatch(r, data)
  BY DEF FacilityIdentifier, Params, HasPatch, Body
<1>2. /\ \A part, i : i \in PartsLike(kind, f, part)' <=> i \in PartsLike(kind, f, part)
      /\ \A i : i \in Indexes(kind, f)' <=> i \in Indexes(kind, f)
  BY <1>1, LikeIsSame
<1>3. \A i \in Indexes(kind, f) : acbs'[i] = acbs[i]
  BY DEF Indexes
<1>4. \A part : PartsLike(kind, f, part) \subseteq Indexes(kind, f)
  BY LikeItself
<1> QED BY <1>1, <1>2, <1>3, <1>4 DEF IsLeft

\* Entity j, the first of parts in ACBS, has what the request gives, and what
\* has not is like one of the others.
PutsBack(r, kind, parts, j) ==
    /\ j \in DOMAIN acbs
    /\ acbs[j].kind = kind /\ acbs[j].owner = FacilityIdentifier(r)
    /\ acbs[j].data = Head(parts)
    /\ acbs'[j].data = FieldsToUpdate(kind, r, Head(parts)) /\ acbs'[j].by = r
    /\ DOMAIN acbs' = DOMAIN acbs /\ \A i \in DOMAIN acbs \ {j} : acbs'[i] = acbs[i]
    /\ Keeps(acbs, acbs')
    /\ \A i \in Indexes(kind, FacilityIdentifier(r)) :
         \/ HasPatch(r, acbs'[i].data)
         \/ /\ i # j
            /\ \E k \in DOMAIN Tail(parts) :
                  i \in PartsLike(kind, FacilityIdentifier(r), Tail(parts)[k])

\* A PUT of the first of what is left leaves the rest.
LEMMA PutIsLeft ==
  ASSUME NEW r, NEW kind \in Patches, StoreOK, PartsAreDistinct,
         Body(r) \in PatchDto(kind),
         NEW parts, parts \in Seq(Range(parts)), parts # <<>>, IsLeft(r, kind, parts),
         NEW j \in PartsLike(kind, FacilityIdentifier(r), Head(parts)),
         FieldsOf(kind) \subseteq DOMAIN Head(parts),
         acbs' = Replaced(r, j, FieldsToUpdate(kind, r, Head(parts)))
  PROVE  PutsBack(r, kind, parts, j)
<1> DEFINE f == FacilityIdentifier(r)
           head == Head(parts)
           new == FieldsToUpdate(kind, r, head)
           entity == [kind |-> kind, owner |-> f, data |-> new, by |-> r]
<1>1. /\ head = parts[1] /\ 1 \in DOMAIN parts
      /\ \A k \in DOMAIN parts \ {1} : k - 1 \in DOMAIN Tail(parts) /\ Tail(parts)[k - 1] = parts[k]
  <2>1. /\ Head(parts) = parts[1] /\ Len(parts) \in Nat \ {0} /\ DOMAIN parts = 1..Len(parts)
        /\ DOMAIN Tail(parts) = 1..(Len(parts) - 1)
        /\ \A k \in 1..(Len(parts) - 1) : Tail(parts)[k] = parts[k + 1]
    BY EmptySeq
  <2>2. ASSUME NEW k \in DOMAIN parts \ {1}
        PROVE  k - 1 \in DOMAIN Tail(parts) /\ Tail(parts)[k - 1] = parts[k]
    <3>1. k - 1 \in 1..(Len(parts) - 1) /\ (k - 1) + 1 = k
      BY <2>1
    <3> QED BY <2>1, <3>1
  <2> QED BY <2>1, <2>2
<1>2. acbs[j].data = head
  BY <1>1 DEF IsLeft
<1>3. j \in DOMAIN acbs /\ acbs[j].kind = kind /\ acbs[j].owner = f
  BY LikeItself DEF Indexes
<1> HIDE DEF head
<1>4. /\ HasPatch(r, new)
      /\ \A g : PartsLike(kind, g, new) = PartsLike(kind, g, head)
  BY UpdatedPart DEF head
<1> HIDE DEF new
<1>5. /\ acbs'[j] = entity /\ DOMAIN acbs' = DOMAIN acbs
      /\ \A i \in DOMAIN acbs \ {j} : acbs'[i] = acbs[i]
  <2>1. [acbs[j] EXCEPT !.data = new, !.by = r] = entity
    <3>1. IsEntity(acbs[j])
      BY <1>3 DEF StoreOK, IsStore
    <3>2. [acbs[j] EXCEPT !.data = new, !.by = r] =
            [kind |-> acbs[j].kind, owner |-> acbs[j].owner, data |-> new, by |-> r]
      BY <3>1, EntityExcept
    <3> QED BY <1>3, <3>2
  <2>2. acbs' = [acbs EXCEPT ![j] = [acbs[j] EXCEPT !.data = new, !.by = r]]
    BY DEF Replaced, new, head
  <2> HIDE DEF entity
  <2> QED BY <1>3, <2>1, <2>2
<1>6. Keeps(acbs, acbs')
  <2>1. j \in PartsLike(kind, f, new)
    BY <1>4 DEF head
  <2>2. IsSame(acbs[j], acbs'[j])
    <3>1. CASE kind = "FacilityCovenant"
      BY <1>3, <1>5, <2>1, <3>1 DEF IsSame, PartsLike, CovenantsLike
    <3>2. CASE kind = "FacilityGuarantee"
      BY <1>3, <1>5, <2>1, <3>2 DEF IsSame, PartsLike, GuaranteesLike
    <3> QED BY <3>1, <3>2 DEF Patches
  <2> QED BY <1>5, <2>2 DEF Keeps, IsSame
<1>7. ASSUME NEW i \in Indexes(kind, f), i # j, ~HasPatch(r, acbs[i].data)
      PROVE  \E k \in DOMAIN Tail(parts) : i \in PartsLike(kind, f, Tail(parts)[k])
  <2>1. PICK k \in DOMAIN parts : i \in PartsLike(kind, f, parts[k])
    BY <1>7 DEF IsLeft
  <2>2. k # 1
    <3>1. ASSUME k = 1  PROVE FALSE
      <4>1. i \in PartsLike(kind, acbs[j].owner, acbs[j].data)
        BY <1>1, <1>2, <1>3, <2>1, <3>1
      <4>2. i \in DOMAIN acbs
        BY DEF Indexes
      <4> QED BY <1>3, <1>7, <4>1, <4>2 DEF PartsAreDistinct
    <3> QED BY <3>1
  <2> QED BY <1>1, <2>1, <2>2
<1>8. ASSUME NEW i \in Indexes(kind, f)
      PROVE  \/ HasPatch(r, acbs'[i].data)
             \/ /\ i # j
                /\ \E k \in DOMAIN Tail(parts) : i \in PartsLike(kind, f, Tail(parts)[k])
  <2>1. i \in DOMAIN acbs
    BY DEF Indexes
  <2> QED BY <1>4, <1>5, <1>7, <2>1
<1> QED BY <1>2, <1>3, <1>5, <1>6, <1>8 DEF PutsBack, head, new

\* So what is left after a PUT is the rest.
LEMMA RestIsLeft ==
  ASSUME NEW r, NEW kind \in Patches, UNCHANGED workload,
         NEW parts, parts \in Seq(Range(parts)), parts # <<>>, IsLeft(r, kind, parts),
         NEW j \in PartsLike(kind, FacilityIdentifier(r), Head(parts)),
         PutsBack(r, kind, parts, j), local'[r] = Tail(parts)
  PROVE  IsLeft(r, kind, local[r])'
<1> DEFINE f == FacilityIdentifier(r)
           rest == Tail(parts)
<1>0. /\ DOMAIN acbs' = DOMAIN acbs /\ \A i \in DOMAIN acbs \ {j} : acbs'[i] = acbs[i]
      /\ Keeps(acbs, acbs')
      /\ \A i \in Indexes(kind, f) :
           HasPatch(r, acbs'[i].data) \/ \E k \in DOMAIN rest : i \in PartsLike(kind, f, rest[k])
  BY DEF PutsBack
<1>1. f' = f /\ \A data : HasPatch(r, data)' <=> HasPatch(r, data)
  BY DEF FacilityIdentifier, Params, HasPatch, Body
<1>2. /\ \A part, i : i \in PartsLike(kind, f, part)' <=> i \in PartsLike(kind, f, part)
      /\ \A i : i \in Indexes(kind, f)' <=> i \in Indexes(kind, f)
  BY <1>0, <1>1, LikeIsSame
<1>3. /\ Head(parts) = parts[1] /\ 1 \in DOMAIN parts
      /\ \A k \in DOMAIN rest :
           k \in Nat /\ k + 1 \in DOMAIN parts \ {1} /\ rest[k] = parts[k + 1]
  <2>1. /\ Head(parts) = parts[1] /\ Len(parts) \in Nat \ {0} /\ DOMAIN parts = 1..Len(parts)
        /\ DOMAIN rest = 1..(Len(parts) - 1)
        /\ \A k \in 1..(Len(parts) - 1) : rest[k] = parts[k + 1]
    BY EmptySeq
  <2> QED BY <2>1
<1> HIDE DEF rest
<1>4. ASSUME NEW k \in DOMAIN rest, NEW i \in PartsLike(kind, f, rest[k])
      PROVE  acbs'[i].data = rest[k]
  <2>1. k + 1 \in DOMAIN parts /\ k + 1 # 1 /\ i \in PartsLike(kind, f, parts[k + 1])
    BY <1>3
  <2>2. acbs[i].data = rest[k]
    BY <1>3, <2>1 DEF IsLeft
  <2>3. i # j
    BY <1>3, <2>1 DEF IsLeft
  <2>4. i \in DOMAIN acbs
    BY LikeItself DEF Indexes
  <2> QED BY <1>0, <2>2, <2>3, <2>4
<1>5. ASSUME NEW k \in DOMAIN rest, NEW m \in DOMAIN rest, NEW i,
             i \in PartsLike(kind, f, rest[k]), i \in PartsLike(kind, f, rest[m])
      PROVE  k = m
  <2>1. k + 1 = m + 1
    BY <1>3, <1>5 DEF IsLeft
  <2> QED BY <1>3, <2>1
<1> QED BY <1>1, <1>2, <1>4, <1>5, <1>0 DEF IsLeft, rest

\* What a PATCH has yet to put back, as IInv has it.
LEMMA PartsToPut ==
  ASSUME IInv, NEW r \in Requests, NEW kind \in Patches, pc[r] = PutLabel(kind)
  PROVE  /\ local[r] \in Seq(Range(local[r])) /\ local[r] # <<>>
         /\ FieldsOf(kind) \subseteq DOMAIN Head(local[r])
<1>1. InCourse(r)
  BY DEF IInv
<1>2. pc[r] \in {"putCovenant", "putGuarantee"}
  BY DEF PutLabel
<1>3. KnowsParts(r)
  BY <1>1, <1>2, CourseKnows DEF Knows, Calls
<1>4. local[r] \in Seq(Range(local[r])) /\ local[r] # <<>>
  BY <1>2, <1>3 DEF KnowsParts
<1>5. PICK n \in DOMAIN local[r] : Head(local[r]) = local[r][n]
  BY <1>4, TailOfParts
<1>6. FieldsOf(kind) \subseteq DOMAIN local[r][n]
  BY <1>3, <1>5 DEF KnowsParts, PutLabel, Patches
<1> QED BY <1>4, <1>5, <1>6

LEMMA ThrownEnds ==
  ASSUME ControlOK, NEW r \in Requests, Thrown(r)
  PROVE  pc'[r] = "done" /\ answer'[r].status \in {400, 404, 500}
BY Statuses DEF ControlOK, Thrown, Throw, Reply

LEMMA PutNextGoes ==
  ASSUME ControlOK, NEW r \in Requests, NEW label, NEW parts, PutNext(r, label, parts)
  PROVE  IF parts = <<>> THEN pc'[r] = "done" ELSE pc'[r] = label /\ local'[r] = parts
BY DEF ControlOK, PutNext, AnswerFacility, Reply, Goto

\* The labels of a PATCH are of its operation only.
LEMMA PatchLabels ==
  ASSUME NEW r, NEW kind \in Patches, NEW label, IsCourse(Op(r), label),
         label \in {ReadLabel(kind), PutLabel(kind)}
  PROVE  Op(r) = PatchOp(kind)
<1>1. label \in {"getCovenantsToUpdate", "putCovenant", "getGuaranteesToUpdate", "putGuarantee"}
  BY DEF ReadLabel, PutLabel
<1>2. FacilityPartCourse(Op(r), label)
  BY <1>1 DEF IsCourse, PartyCourse, DealCourse, FacilityCourse, LoanCourse
<1> QED BY <1>1, <1>2 DEF FacilityPartCourse, ReadLabel, PutLabel, PatchOp, Patches

LEMMA PatchStepKnows ==
  ASSUME IInv, PartsAreDistinct, PatchInv, NEW r \in Requests, UNCHANGED workload,
         Handle(r), NEW kind \in Patches
  PROVE  PatchKnows(r, kind)'
<1>1. /\ ReadLabel(kind) # PutLabel(kind) /\ PutLabel(kind) # "done"
      /\ ReadLabel(kind) # "done"
  BY DEF ReadLabel, PutLabel
<1>2. /\ Op(r)' = Op(r) /\ Body(r)' = Body(r) /\ PatchDto(kind)' = PatchDto(kind)
      /\ PatchOp(kind)' = PatchOp(kind)
  BY DEF Op, Body, PatchDto
<1>3. CASE Op(r) # PatchOp(kind)
  <2>1. pc'[r] # PutLabel(kind)
    <3>1. Lands(r)
      BY HandleStep DEF Step
    <3> QED BY <1>1, <1>3, <3>1, PatchLabels DEF Lands
  <2> QED BY <1>2, <1>3, <2>1 DEF PatchKnows
<1>4. CASE Op(r) = PatchOp(kind)
  <2>1. ControlOK /\ StoreOK /\ PatchKnows(r, kind)
    BY DEF IInv, PatchInv
  <2>2. CASE Thrown(r)
    <3>1. pc'[r] = "done"
      BY <2>1, <2>2, ThrownEnds
    <3> QED BY <1>1, <3>1 DEF PatchKnows
  <2>3. CASE PatchReceives(r, kind) /\ ~Thrown(r)
    <3>1. Body(r) \in PatchDto(kind) /\ pc'[r] = ReadLabel(kind)
      BY <2>1, <2>3 DEF PatchReceives, ControlOK, Goto
    <3> QED BY <1>1, <1>2, <3>1 DEF PatchKnows
  <2>4. CASE PatchReads(r, kind) /\ ~Thrown(r)
    <3> DEFINE parts == DataOf(kind, FacilityIdentifier(r))
    <3>1. IsLeft(r, kind, parts)
      BY <2>1, ReadIsLeft
    <3> HIDE DEF parts
    <3>2. PutNext(r, PutLabel(kind), parts) /\ acbs' = acbs /\ Body(r) \in PatchDto(kind)
      BY <1>4, <2>1, <2>4 DEF PatchReads, PatchKnows, parts
    <3>3. pc'[r] = "done" \/ (pc'[r] = PutLabel(kind) /\ local'[r] = parts)
      BY <2>1, <3>2, PutNextGoes
    <3>4. local'[r] = parts => IsLeft(r, kind, local[r])'
      <4>1. Keeps(acbs, acbs')
        BY <3>2, KeepsItself
      <4> QED BY <3>1, <3>2, <4>1, LeftStays
    <3> QED BY <1>1, <1>2, <3>2, <3>3, <3>4 DEF PatchKnows
  <2>5. CASE PatchPuts(r, kind) /\ ~Thrown(r)
    <3> DEFINE parts == local[r]
    <3>1. /\ parts \in Seq(Range(parts)) /\ parts # <<>>
          /\ FieldsOf(kind) \subseteq DOMAIN Head(parts)
      BY <2>5, PartsToPut DEF PatchPuts
    <3>2. Body(r) \in PatchDto(kind)
      BY <1>4, <2>1, <2>5 DEF PatchPuts, PatchKnows
    <3>3. PICK j \in PartsLike(kind, FacilityIdentifier(r), Head(parts)) :
             /\ acbs' = Replaced(r, j, FieldsToUpdate(kind, r, Head(parts)))
             /\ PutNext(r, PutLabel(kind), Tail(parts))
      BY <2>5 DEF PatchPuts
    <3>4. pc'[r] = "done" \/ (pc'[r] = PutLabel(kind) /\ local'[r] = Tail(parts))
      BY <2>1, <3>3, PutNextGoes
    <3>5. workload.serial => IsLeft(r, kind, parts)
      BY <2>1, <2>5 DEF PatchKnows, PatchPuts
    <3> HIDE DEF parts
    <3>6. ASSUME IsLeft(r, kind, parts), local'[r] = Tail(parts)
          PROVE  IsLeft(r, kind, local[r])'
      <4>1. PutsBack(r, kind, parts, j)
        BY <2>1, <3>1, <3>2, <3>3, <3>6, PutIsLeft
      <4> QED BY <3>1, <3>3, <3>6, <4>1, RestIsLeft
    <3> QED BY <1>1, <1>2, <3>2, <3>4, <3>5, <3>6 DEF PatchKnows
  <2> QED BY <1>4, <2>2, <2>3, <2>4, <2>5, PatchSteps
<1> QED BY <1>3, <1>4

\* How a bundle ends: ACBS posts it, or marks it as failed.
LEMMA PostOutcome ==
  ASSUME StoreOK, NEW i \in DOMAIN acbs, PostBundle(i)
  PROVE  LET Marked(code) == [acbs[i] EXCEPT !.data.BundleStatusCode = code]
             messages == acbs[i].data.BundleMessageList
         IN  \/ \A j \in DOMAIN acbs :
                   acbs'[j] = IF j = i THEN Marked(BundleStatusCodes.POSTED)
                              ELSE Amended(messages, j)
             \/ acbs' = [acbs EXCEPT ![i] = Marked(BundleStatusCodes.POSTING_ERROR)]
<1> DEFINE messages == acbs[i].data.BundleMessageList
           Marked(code) == [acbs[i] EXCEPT !.data.BundleStatusCode = code]
           marked == Marked(BundleStatusCodes.POSTED)
           amended == [j \in DOMAIN acbs |-> IF j = i THEN marked ELSE Amended(messages, j)]
           loans == NewLoans(acbs[i])
           failed == Marked(BundleStatusCodes.POSTING_ERROR)
<1>1. acbs[i].kind = "BundleInformation"
  BY DEF PostBundle
<1>2. acbs' = amended \o loans \/ acbs' = [acbs EXCEPT ![i] = failed]
  BY DEF PostBundle
<1>3. acbs \in Seq(Range(acbs)) /\ Len(acbs) \in Nat /\ DOMAIN acbs = 1..Len(acbs)
  BY IsASequence DEF StoreOK, IsStore
<1> HIDE DEF Marked, marked, failed, messages
<1>4. CASE acbs' = amended \o loans
  <2>1. \A j \in DOMAIN acbs : amended[j] = IF j = i THEN marked ELSE Amended(messages, j)
    OBVIOUS
  <2>2. DOMAIN amended = 1..Len(acbs) /\ amended = [k \in 1..Len(acbs) |-> amended[k]]
    BY <1>3
  <2> HIDE DEF amended
  <2>3. amended \in Seq(Range(amended)) /\ Len(amended) = Len(acbs)
    BY <1>3, <2>2, AFunctionIsASequence
  <2>4. loans \in Seq(Range(loans))
    <3>1. loans = <<>> \/ \E loan : loans = <<loan>>
      BY <1>1, NewLoansAre
    <3> HIDE DEF loans
    <3>2. CASE loans = <<>>
      BY <3>2
    <3>3. ASSUME NEW loan, loans = <<loan>>  PROVE loans \in Seq(Range(loans))
      BY <3>3, SeqOfRange DEF Range
    <3> QED BY <3>1, <3>2, <3>3
  <2> HIDE DEF loans
  <2>5. \A j \in DOMAIN acbs : (amended \o loans)[j] = amended[j]
    BY <1>3, <2>3, <2>4
  <2> QED BY <1>4, <2>1, <2>5 DEF marked, Marked, messages
<1> QED BY <1>2, <1>4 DEF failed, Marked

\* ACBS posts no covenant and no guarantee.
LEMMA PostLeavesParts ==
  ASSUME StoreOK, NEW i \in DOMAIN acbs, PostBundle(i)
  PROVE  \A j \in DOMAIN acbs : acbs[j].kind \in Patches => acbs'[j] = acbs[j]
<1> DEFINE messages == acbs[i].data.BundleMessageList
           Marked(code) == [acbs[i] EXCEPT !.data.BundleStatusCode = code]
<1>1. \/ \A j \in DOMAIN acbs :
            acbs'[j] = IF j = i THEN Marked(BundleStatusCodes.POSTED) ELSE Amended(messages, j)
      \/ acbs' = [acbs EXCEPT ![i] = Marked(BundleStatusCodes.POSTING_ERROR)]
  BY PostOutcome
<1> HIDE DEF Marked
<1>2. ASSUME NEW j \in DOMAIN acbs, acbs[j].kind \in Patches
      PROVE  j # i /\ Amended(messages, j) = acbs[j]
  BY <1>2 DEF PostBundle, Patches, Amended
<1> QED BY <1>1, <1>2

\* A step of another request, or of ACBS, leaves what a PATCH knows.
LEMMA OtherPatchStays ==
  ASSUME IInv, PatchInv, UNCHANGED workload, NEW q \in Requests, Handle(q),
         NEW r \in Requests \ {q}, NEW kind \in Patches
  PROVE  PatchKnows(r, kind)'
<1>1. Frame(q) /\ ControlOK /\ Serial /\ PatchKnows(r, kind)
  BY HandleStep DEF Step, IInv, PatchInv
<1>2. pc'[r] = pc[r]
  BY <1>1 DEF Frame
<1>3. workload.serial => pc[r] # PutLabel(kind)
  BY <1>1, AloneInItsCourse DEF PutLabel
<1> QED BY <1>1, <1>2, <1>3 DEF PatchKnows, Op, Body, PatchDto

LEMMA PostPatchStays ==
  ASSUME IInv, PatchInv, UNCHANGED workload, NEW i \in DOMAIN acbs, PostBundle(i),
         NEW r \in Requests, NEW kind \in Patches
  PROVE  PatchKnows(r, kind)'
<1>1. UNCHANGED <<pc, local>> /\ StoreOK /\ PatchKnows(r, kind)
  BY DEF PostBundle, IInv, PatchInv
<1>2. /\ Keeps(acbs, acbs')
      /\ \A j \in DOMAIN acbs' \ DOMAIN acbs : acbs'[j].kind # kind
  BY <1>1, PostKeeps DEF Patches
<1>3. \A j \in DOMAIN acbs : acbs[j].kind = kind => acbs'[j] = acbs[j]
  BY <1>1, PostLeavesParts
<1>4. IsLeft(r, kind, local[r]) => IsLeft(r, kind, local[r])'
  <2> DEFINE parts == local[r]
  <2>1. local'[r] = parts
    BY <1>1
  <2>2. IsLeft(r, kind, parts) = IsLeft(r, kind, local[r])
    OBVIOUS
  <2> HIDE DEF parts
  <2> QED BY <1>2, <1>3, <2>1, <2>2, LeftStays
<1> QED BY <1>1, <1>4 DEF PatchKnows, Op, Body, PatchDto

LEMMA StutterPatchStays ==
  ASSUME PatchInv, UNCHANGED <<workload, pc, local, acbs>>
  PROVE  PatchInv'
BY DEF PatchInv, Requests, PatchKnows, IsLeft, PartsLike, CovenantsLike, GuaranteesLike,
       Indexes, HasPatch, Op, Body, PatchDto, FacilityIdentifier, Params

LEMMA PatchInvStays ==
  ASSUME IInv, PartsAreDistinct, PatchInv, [Next]_vars  PROVE PatchInv'
<1>1. Requests' = Requests
  BY DEF Next, vars, Requests
<1>2. ASSUME UNCHANGED workload, NEW q \in Requests, Handle(q)  PROVE PatchInv'
  <2>1. ASSUME NEW r \in Requests, NEW kind \in Patches  PROVE PatchKnows(r, kind)'
    <3>1. CASE r = q
      BY <1>2, <3>1, PatchStepKnows
    <3>2. CASE r # q
      BY <1>2, <3>2, OtherPatchStays
    <3> QED BY <3>1, <3>2
  <2> QED BY <1>1, <2>1 DEF PatchInv
<1>3. ASSUME UNCHANGED workload, NEW i \in DOMAIN acbs, PostBundle(i)  PROVE PatchInv'
  <2>1. \A r \in Requests, kind \in Patches : PatchKnows(r, kind)'
    BY <1>3, PostPatchStays
  <2> QED BY <1>1, <2>1 DEF PatchInv
<1>4. CASE UNCHANGED vars
  BY <1>4, StutterPatchStays DEF vars
<1>5. CASE UNCHANGED workload /\ Finished
  BY <1>5, StutterPatchStays DEF Finished
<1> QED BY <1>2, <1>3, <1>4, <1>5 DEF Next

LEMMA PatchInvariance == Spec /\ []PartsAreDistinct => []PatchInv
<1>1. Init => PatchInv
  BY DEF Init, PatchInv, PatchKnows, ReadLabel, PutLabel
<1>2. IInv /\ PartsAreDistinct /\ PatchInv /\ [Next]_vars => PatchInv'
  BY PatchInvStays
<1> QED BY <1>1, <1>2, Invariance, PTL DEF Spec

\* In a serial workload a PATCH changes only the fields it gives, of what
\* belongs to its facility, unless ACBS has two of what identifies one.
THEOREM PatchesKeepTheRest == Spec /\ []PartsAreDistinct => PatchKeepsTheRest
<1> DEFINE Kept ==
        workload.serial =>
          \A i \in DOMAIN acbs :
              acbs[i].kind \in Patches /\ acbs'[i].data # acbs[i].data =>
                  LET r == acbs'[i].by
                      given == {name \in DOMAIN Body(r) : Body(r)[name] # None}
                  IN  /\ acbs[i].owner = FacilityIdentifier(r)
                      /\ \A field \in DOMAIN acbs[i].data :
                           acbs'[i].data[field] # acbs[i].data[field] =>
                               field \in {Patched[name] : name \in given}
<1>1. IInv /\ PartsAreDistinct /\ PatchInv /\ [Next]_vars => [Kept]_vars
  <2> SUFFICES ASSUME IInv, PartsAreDistinct, PatchInv, Next, workload.serial,
                      NEW i \in DOMAIN acbs, acbs[i].kind \in Patches,
                      acbs'[i].data # acbs[i].data
               PROVE  /\ acbs[i].owner = FacilityIdentifier(acbs'[i].by)
                      /\ \A field \in DOMAIN acbs[i].data :
                           acbs'[i].data[field] # acbs[i].data[field] =>
                               field \in Changes(acbs'[i].by)
    BY DEF Changes
  <2>1. ASSUME UNCHANGED workload, NEW r \in Requests, Handle(r)
        PROVE  /\ acbs[i].owner = FacilityIdentifier(acbs'[i].by)
               /\ \A field \in DOMAIN acbs[i].data :
                    acbs'[i].data[field] # acbs[i].data[field] => field \in Changes(acbs'[i].by)
    <3> DEFINE kind == acbs[i].kind
               parts == local[r]
    <3>1. kind \in Patches /\ StoreOK /\ PatchKnows(r, kind)
      BY DEF IInv, PatchInv
    <3>2. Op(r) = PatchOp(kind)
      <4>1. Wrote(r)
        BY <2>1, HandleStep DEF Step
      <4>2. PICK entity : \/ acbs' = Append(acbs, entity)
                          \/ \E j \in DOMAIN acbs :
                               /\ acbs' = [acbs EXCEPT ![j] = entity]
                               /\ acbs[j].kind \in Patches => Op(r) = PatchOp(acbs[j].kind)
        BY <4>1 DEF Wrote
      <4>3. acbs \in Seq(Range(acbs)) /\ Len(acbs) \in Nat /\ DOMAIN acbs = 1..Len(acbs)
        BY <3>1, IsASequence DEF StoreOK, IsStore
      <4>4. acbs' # Append(acbs, entity)
        BY <4>3
      <4> QED BY <4>2, <4>4
    <3> HIDE DEF kind
    <3>3. PatchPuts(r, kind)
      <4>1. PatchReceives(r, kind) \/ PatchReads(r, kind) \/ PatchPuts(r, kind)
        BY <2>1, <3>1, <3>2, PatchSteps
      <4> QED BY <4>1 DEF PatchReceives, PatchReads
    <3>4. PICK j \in PartsLike(kind, FacilityIdentifier(r), Head(parts)) :
             acbs' = Replaced(r, j, FieldsToUpdate(kind, r, Head(parts)))
      BY <3>3 DEF PatchPuts
    <3>5. /\ Body(r) \in PatchDto(kind) /\ IsLeft(r, kind, parts)
          /\ parts \in Seq(Range(parts)) /\ parts # <<>>
          /\ FieldsOf(kind) \subseteq DOMAIN Head(parts)
      BY <3>1, <3>2, <3>3, PartsToPut DEF PatchPuts, PatchKnows
    <3> HIDE DEF parts
    <3>6. PutsBack(r, kind, parts, j)
      BY <3>1, <3>4, <3>5, PutIsLeft
    <3>7. i = j
      BY <3>6 DEF PutsBack
    <3>8. LET new == FieldsToUpdate(kind, r, Head(parts))
          IN  \A field \in DOMAIN Head(parts) :
                 new[field] # Head(parts)[field] => field \in Changes(r)
      BY <3>1, <3>5, UpdatedPart
    <3> QED BY <3>6, <3>7, <3>8 DEF PutsBack
  <2>2. ASSUME NEW k \in DOMAIN acbs, PostBundle(k)  PROVE FALSE
    BY <2>2, PostLeavesParts DEF IInv
  <2>3. ~Finished
    BY DEF Finished
  <2> QED BY <2>1, <2>2, <2>3 DEF Next
<1> QED BY <1>1, Invariance, PatchInvariance, PTL DEF Spec, PatchKeepsTheRest

\* In a serial workload a PATCH that succeeds has updated all that its
\* facility has, each in the fields of the request.
THEOREM WholeSetsAreUpdated == Spec /\ []PartsAreDistinct => WholeSetIsUpdated
<1> DEFINE Updated ==
        workload.serial =>
          \A r \in Requests, kind \in Patches :
              Op(r) = PatchOp(kind) /\ pc[r] # "done" /\ Answered(r, {200})' =>
                  \A i \in Indexes(kind, FacilityIdentifier(r)) :
                      \A name \in DOMAIN Body(r) :
                          Body(r)[name] # None =>
                              acbs'[i].data[Patched[name]] =
                                  IF name = "expirationDate" THEN AddTime(Body(r)[name])
                                  ELSE Body(r)[name]
<1>1. IInv /\ PartsAreDistinct /\ PatchInv /\ [Next]_vars => [Updated]_vars
  <2> SUFFICES ASSUME IInv, PartsAreDistinct, PatchInv, Next, workload.serial,
                      NEW r \in Requests, NEW kind \in Patches, Op(r) = PatchOp(kind),
                      pc[r] # "done", pc'[r] = "done", answer'[r].status = 200,
                      NEW i \in Indexes(kind, FacilityIdentifier(r))
               PROVE  HasPatch(r, acbs'[i].data)
    BY DEF HasPatch, Answered
  <2>1. CASE UNCHANGED workload /\ Handle(r)
    <3> DEFINE parts == local[r]
    <3>1. ControlOK /\ StoreOK /\ PatchKnows(r, kind)
      BY DEF IInv, PatchInv
    <3>2. ~Thrown(r)
      BY <3>1, ThrownEnds
    <3>3. PatchReceives(r, kind) \/ PatchReads(r, kind) \/ PatchPuts(r, kind)
      BY <2>1, PatchSteps
    <3>4. ~PatchReceives(r, kind)
      BY <3>1, <3>2 DEF PatchReceives, ReadLabel, Goto, ControlOK
    <3>5. ~PatchReads(r, kind)
      <4>1. ASSUME PatchReads(r, kind)  PROVE FALSE
        <5>1. PutNext(r, PutLabel(kind), DataOf(kind, FacilityIdentifier(r)))
          BY <3>2, <4>1 DEF PatchReads
        <5>2. DataOf(kind, FacilityIdentifier(r)) = <<>>
          BY <3>1, <5>1, PutNextGoes DEF PutLabel
        <5> QED BY <3>1, <5>2, DataFound
      <4> QED BY <4>1
    <3>6. PatchPuts(r, kind)
      BY <3>3, <3>4, <3>5
    <3>7. PICK j \in PartsLike(kind, FacilityIdentifier(r), Head(parts)) :
             /\ acbs' = Replaced(r, j, FieldsToUpdate(kind, r, Head(parts)))
             /\ PutNext(r, PutLabel(kind), Tail(parts))
      BY <3>2, <3>6 DEF PatchPuts
    <3>8. /\ Body(r) \in PatchDto(kind) /\ IsLeft(r, kind, parts)
          /\ parts \in Seq(Range(parts)) /\ parts # <<>>
          /\ FieldsOf(kind) \subseteq DOMAIN Head(parts)
      BY <3>1, <3>6, PartsToPut DEF PatchPuts, PatchKnows
    <3> HIDE DEF parts
    <3>9. Tail(parts) = <<>>
      <4>1. PutLabel(kind) # "done" /\ PutNext(r, PutLabel(kind), Tail(parts))
        BY <3>7 DEF PutLabel
      <4>2. DOMAIN pc = Requests
        BY <3>1 DEF ControlOK
      <4>3. Tail(parts) # <<>> => pc' = [pc EXCEPT ![r] = PutLabel(kind)]
        BY <4>1 DEF PutNext, Goto
      <4> QED BY <4>1, <4>2, <4>3
    <3>10. PutsBack(r, kind, parts, j)
      BY <3>1, <3>7, <3>8, PutIsLeft
    <3>11. DOMAIN Tail(parts) = {}
      BY <3>9
    <3> QED BY <3>10, <3>11 DEF PutsBack
  <2>2. ASSUME UNCHANGED workload, NEW q \in Requests \ {r}, Handle(q)  PROVE FALSE
    <3>1. pc'[r] = pc[r]
      BY <2>2, HandleStep DEF Step, Frame
    <3> QED BY <3>1
  <2>3. ASSUME NEW k \in DOMAIN acbs, PostBundle(k)  PROVE FALSE
    BY <2>3 DEF PostBundle
  <2>4. ~Finished
    BY DEF Finished
  <2> QED BY <2>1, <2>2, <2>3, <2>4 DEF Next
<1> QED BY <1>1, Invariance, PatchInvariance, PTL DEF Spec, WholeSetIsUpdated
=============================================================================
