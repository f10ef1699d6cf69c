--------------------- MODULE GiftAsyncValidation_proofs ---------------------
(***************************************************************************)
(* Creation with async validation call by call implements creation with    *)
(* async validation as one step, so what is proved of the latter holds of  *)
(* the former; and what passes async validation has no fault, for any      *)
(* reference data, payloads, attempts and work packages.                   *)
(***************************************************************************)
EXTENDS GiftAsyncValidation, GiftFacilityCreation_proofs, FiniteSetTheorems

\* A step of the validated handler is a step of create(), or one that create()
\* does not see: the calls before the last one.
LEMMA ValidatedStep == [ValidatedNext]_validatedVars => [Next]_vars
<1>1. ASSUME NEW a \in Attempts, ValidatedHandle(a)  PROVE [Next]_vars
  <2>1. CASE Creation(a)
    <3>1. PICK service \in {"counterpartyRoles", "productType", "currencies", "feeTypes",
                            "obligationSubtypes"} :
                 Fails(a, service) \/ GoesOn(a, service) \/ Concludes(a, service)
      BY <2>1 DEF Creation
    <3>2. CASE Fails(a, service) \/ Concludes(a, service)
      BY <3>2 DEF Fails, Concludes, Next, Handle
    <3>3. CASE GoesOn(a, service)
      BY <3>3 DEF GoesOn
    <3> QED BY <3>1, <3>2, <3>3
  <2>2. CASE AroundValidation(a)
    BY <2>2 DEF AroundValidation, Next, Handle
  <2> QED BY <1>1, <2>1, <2>2 DEF ValidatedHandle
<1>2. ASSUME NEW a \in Attempts, Crash(a)  PROVE [Next]_vars
  BY <1>2 DEF Next
<1>3. UNCHANGED validatedVars => UNCHANGED vars
  BY DEF validatedVars, vars
<1> QED BY <1>1, <1>2, <1>3 DEF ValidatedNext

\* Creation with its validation implements creation: async validation is the
\* three outcomes AsyncValidation gives it, whatever it asks and hears.
THEOREM ValidationRefinesCreation == ValidatedSpec => Spec
<1>1. ValidatedInit => Init
  BY DEF ValidatedInit
<1> QED BY <1>1, ValidatedStep, PTL DEF ValidatedSpec, Spec

\* So a facility of a validated payload is published as a whole or not at all.
THEOREM ValidatedAllOrNothing == ValidatedSpec => []ApprovedIsComplete
BY ValidationRefinesCreation, AllOrNothing, PTL

-----------------------------------------------------------------------------
(* What passes has no fault.                                               *)

\* An entity whose field is not supported is found.
LEMMA NoErrorAllSupported ==
  ASSUME NEW entities, NEW fieldName, NEW supported, NEW parent,
         GenerateArrayOfErrors(MapEntitiesByField(entities, fieldName), supported,
                               parent, fieldName) = {}
  PROVE  \A i \in DOMAIN entities : entities[i][fieldName] \in supported
BY DEF GenerateArrayOfErrors, MapEntitiesByField

LEMMA ElementOfSequence ==
  ASSUME NEW S, NEW s \in Seq(S), NEW i \in 1..Len(s)
  PROVE  i \in DOMAIN s /\ s[i] \in S
OBVIOUS

LEMMA WithinShares == \A n \in Int : ~(n < MIN \/ n > MAX) => n \in MIN..MAX
BY DEF MIN, MAX

\* The pieces that AsyncValidationErrors puts together are all empty.
LEMMA NoErrorsNoFaults ==
  ASSUME NEW a \in Attempts, IsPayload(PayloadOf(a)), AsyncValidationErrors(a) = {}
  PROVE  Faults(PayloadOf(a)) = {}
<1> DEFINE payload == PayloadOf(a)
           counterparties == payload.counterparties
           obligations == payload.obligations
           fees == IF payload.fixedFees = Null THEN <<>> ELSE payload.fixedFees
<1> USE DEF GetAllRoleCodes, GetSupportedCurrencies, GetAllFeeTypeCodes
<1>0. GenerateOverviewErrors(payload, IsSupported(a), Reference.currencies) = {}
  BY DEF AsyncValidationErrors
<1>1. payload.currency \in Reference.currencies
  BY <1>0 DEF GenerateOverviewErrors
<1>2. payload.productTypeCode \in Reference.productTypes
  <2>1. IsSupported(a)
    BY <1>0 DEF GenerateOverviewErrors
  <2> QED BY <2>1 DEF IsSupported
<1>3. \A i \in 1..Len(counterparties) :
         counterparties[i].roleCode \in DOMAIN Reference.counterpartyRoles
  <2>1. GenerateArrayOfErrors(MapEntitiesByField(payload.counterparties, "roleCode"),
            DOMAIN Reference.counterpartyRoles, "counterparties", "roleCode") = {}
    BY DEF AsyncValidationErrors
  <2>2. \A i \in DOMAIN counterparties :
           counterparties[i]["roleCode"] \in DOMAIN Reference.counterpartyRoles
    BY <2>1, NoErrorAllSupported
  <2> QED BY <2>2 DEF IsPayload
<1>4. \A i \in 1..Len(counterparties) :
         Reference.counterpartyRoles[counterparties[i].roleCode] =>
             counterparties[i].sharePercentage \in MIN..MAX
  <2> SUFFICES ASSUME NEW i \in 1..Len(counterparties),
                      Reference.counterpartyRoles[counterparties[i].roleCode]
               PROVE  counterparties[i].sharePercentage \in MIN..MAX
    OBVIOUS
  <2> DEFINE share == counterparties[i].sharePercentage
  <2>1. GenerateCounterpartySharePercentageErrors(Reference.counterpartyRoles,
                                                  counterparties) = {}
    BY DEF AsyncValidationErrors
  <2>2. i \in DOMAIN counterparties /\ share \in Int \cup {Null}
    <3>1. counterparties \in Seq([roleCode : STRING, sharePercentage : Int \cup {Null}])
      BY DEF IsPayload
    <3>2. counterparties[i] \in [roleCode : STRING, sharePercentage : Int \cup {Null}]
      BY <3>1, ElementOfSequence
    <3>3. i \in DOMAIN counterparties
      BY <3>1, ElementOfSequence
    <3> QED BY <3>2, <3>3
  <2>3. ~(share \in {Null, 0} \/ share < MIN \/ share > MAX)
    BY <1>3, <2>1, <2>2 DEF GenerateCounterpartySharePercentageErrors
  <2>4. share \in Int
    BY <2>2, <2>3
  <2> QED BY <2>3, <2>4, WithinShares
<1>5. \A i \in 1..Len(fees) : /\ fees[i].currency \in Reference.currencies
                              /\ fees[i].feeTypeCode \in Reference.feeTypes
  <2>1. CASE payload.fixedFees = Null
    BY <2>1
  <2>2. CASE payload.fixedFees # Null
    <3>1. GenerateArrayOfErrors(MapEntitiesByField(payload.fixedFees, "feeTypeCode"),
              Reference.feeTypes, "fixedFees", "feeTypeCode") = {}
      BY DEF AsyncValidationErrors
    <3>2. GenerateArrayOfErrors(MapEntitiesByField(payload["fixedFees"], "currency"),
              Reference.currencies, "fixedFees", "currency") = {}
      BY DEF AsyncValidationErrors, GenerateHighLevelErrors
    <3>3. \A i \in DOMAIN payload.fixedFees :
              payload.fixedFees[i]["feeTypeCode"] \in Reference.feeTypes
      BY <3>1, NoErrorAllSupported
    <3>4. \A i \in DOMAIN payload.fixedFees :
              payload.fixedFees[i]["currency"] \in Reference.currencies
      BY <3>2, NoErrorAllSupported
    <3> QED BY <2>2, <3>3, <3>4 DEF IsPayload
  <2> QED BY <2>1, <2>2
<1>6. \A i \in 1..Len(obligations) : obligations[i].currency \in Reference.currencies
  <2>1. GenerateArrayOfErrors(MapEntitiesByField(payload["obligations"], "currency"),
            Reference.currencies, "obligations", "currency") = {}
    BY DEF AsyncValidationErrors, GenerateHighLevelErrors
  <2>2. \A i \in DOMAIN payload.obligations :
            payload.obligations[i]["currency"] \in Reference.currencies
    BY <2>1, NoErrorAllSupported
  <2> QED BY <2>2 DEF IsPayload
<1>7. \A i \in 1..Len(obligations) : obligations[i].subtypeCode # Null =>
         obligations[i].subtypeCode \in ObligationSubtypesOf(payload.productTypeCode)
  <2>1. \A p \in GetObligationSubtypeCodes(obligations) :
            p[2] \in ObligationSubtypesOf(payload.productTypeCode)
    BY DEF AsyncValidationErrors, GenerateObligationSubtypeCodeErrors
  <2>2. \A i \in DOMAIN obligations : obligations[i].subtypeCode # Null =>
            \E n : <<n, obligations[i].subtypeCode>> \in GetObligationSubtypeCodes(obligations)
    BY DEF GetObligationSubtypeCodes
  <2>3. DOMAIN obligations = 1..Len(obligations)
    <3>1. obligations \in Seq([currency : STRING, subtypeCode : STRING \cup {Null}])
      BY DEF IsPayload
    <3> QED BY <3>1
  <2>4. TAKE i \in 1..Len(obligations)
  <2>5. HAVE obligations[i].subtypeCode # Null
  <2>6. PICK n : <<n, obligations[i].subtypeCode>> \in GetObligationSubtypeCodes(obligations)
    BY <2>2, <2>3, <2>5
  <2> QED BY <2>1, <2>6
<1> QED
  BY <1>1, <1>2, <1>3, <1>4, <1>5, <1>6, <1>7 DEF Faults, ObligationSubtypesOf

\* The strengthening: what is about to be created has no fault either.
ValidatedInv ==
    /\ request \in Requests
    /\ \A a \in Attempts : pc[a] = "creating" => Faults(PayloadOf(a)) = {}
    /\ NothingUnsupportedIsCreated

LEMMA CreationFindsNoFault ==
  ASSUME ValidatedInv, TypeOK, NEW a \in Attempts, Creation(a)
  PROVE  ValidatedInv'
<1> USE DEF TypeOK
<1>0. PICK service : Fails(a, service) \/ GoesOn(a, service) \/ Concludes(a, service)
  BY DEF Creation
<1>1. request' = request /\ wpFacility' = wpFacility
  BY <1>0 DEF Fails, GoesOn, Concludes, Forget, AsyncValidation, gift, vars
<1>2. NothingUnsupportedIsCreated'
  BY <1>1 DEF ValidatedInv, NothingUnsupportedIsCreated
<1>3. ASSUME NEW b \in Attempts, pc'[b] = "creating"  PROVE Faults(PayloadOf(b)) = {}
  <2>1. CASE pc[b] = "creating"
    BY <2>1 DEF ValidatedInv
  <2>2. CASE pc[b] # "creating"
    <3>1. ~GoesOn(a, service)
      BY <1>3, <2>2 DEF GoesOn, vars
    <3>2. AsyncValidation(a)
      BY <1>0, <3>1 DEF Fails, Concludes
    <3>3. a = b
      BY <1>3, <2>2, <3>2 DEF AsyncValidation, Leave, LosesAnswer, WaitsForEver
    <3>4. Concludes(a, service)
      BY <1>0, <1>3, <3>1, <3>3 DEF Fails
    <3>5. AsyncValidationErrors(a) = {}
      BY <1>3, <3>3, <3>4 DEF Concludes
    <3>6. IsPayload(PayloadOf(b))
      BY CreationAssumption, ValidationAssumption DEF ValidatedInv, PayloadOf
    <3> QED BY <3>3, <3>5, <3>6, NoErrorsNoFaults
  <2> QED BY <2>1, <2>2
<1> QED
  BY <1>1, <1>2, <1>3 DEF ValidatedInv, PayloadOf

\* Only create-facility gives a work package its facility, and only after
\* async validation.
LEMMA RestKeepsValidated ==
  ASSUME ValidatedInv, TypeOK, NEW a \in Attempts, AroundValidation(a) \/ Crash(a),
         request' = request
  PROVE  ValidatedInv'
<1> USE DEF TypeOK
<1>1. \A b \in Attempts : pc'[b] = "creating" => pc[b] = "creating"
  BY DEF AroundValidation, RejectPayload, CreateInitialFacility, CreateOne, CheckResponses,
         Approved, FinallyHandler, Crash, Leave, LosesAnswer, WaitsForEver
<1>2. ASSUME NEW w \in WorkPackages, wpFacility'[w] # None
      PROVE  Faults(request[wpFacility'[w]]) = {}
  <2>1. CASE wpFacility'[w] = wpFacility[w]
    BY <1>2, <2>1 DEF ValidatedInv, NothingUnsupportedIsCreated
  <2>2. CASE wpFacility'[w] # wpFacility[w]
    <3>1. CreateInitialFacility(a)
      BY <2>2 DEF AroundValidation, RejectPayload, CreateOne, CheckResponses, Approved,
                  FinallyHandler, Crash, GiftAddsEvent, GiftApproves, GiftDeletes, gift
    <3>2. pc[a] = "creating" /\ wpFacility'[w] = FacilityOf[a]
      BY <2>2, <3>1 DEF CreateInitialFacility, GiftCreatesFacility, gift
    <3> QED BY <3>2 DEF ValidatedInv, PayloadOf
  <2> QED BY <2>1, <2>2
<1> QED BY <1>1, <1>2 DEF ValidatedInv, NothingUnsupportedIsCreated, PayloadOf

LEMMA ValidatedNextInductive ==
  ValidatedInv /\ TypeOK /\ [ValidatedNext]_validatedVars => ValidatedInv'
<1> SUFFICES ASSUME ValidatedInv, TypeOK, [ValidatedNext]_validatedVars
             PROVE  ValidatedInv'
  OBVIOUS
<1>1. CASE UNCHANGED validatedVars
  BY <1>1 DEF validatedVars, ValidatedInv, NothingUnsupportedIsCreated, PayloadOf
<1>2. ASSUME NEW a \in Attempts, Creation(a)  PROVE ValidatedInv'
  BY <1>2, CreationFindsNoFault
<1>3. ASSUME NEW a \in Attempts, AroundValidation(a)  PROVE ValidatedInv'
  BY <1>3, RestKeepsValidated DEF AroundValidation, Forget, validation
<1>4. ASSUME NEW a \in Attempts, Crash(a) /\ Forget(a)  PROVE ValidatedInv'
  BY <1>4, RestKeepsValidated DEF Forget
<1> QED BY <1>1, <1>2, <1>3, <1>4 DEF ValidatedNext, ValidatedHandle

\* No facility is ever created in GIFT from a payload with a code that GIFT or
\* MDM does not support, a share percentage out of range, or any other fault.
THEOREM UnsupportedNeverCreated == ValidatedSpec => []NothingUnsupportedIsCreated
<1>1. ValidatedInit => ValidatedInv
  BY DEF ValidatedInit, Init, ValidatedInv, NothingUnsupportedIsCreated
<1>2. ValidatedInv => NothingUnsupportedIsCreated
  BY DEF ValidatedInv
<1>3. ValidatedSpec => []TypeOK
  BY ValidationRefinesCreation, TypeCorrect, PTL
<1> QED BY <1>1, <1>2, <1>3, ValidatedNextInductive, PTL DEF ValidatedSpec

-----------------------------------------------------------------------------
(* The errors of a 400 are the faults of the payload.                      *)

\* What ErrorsNameTheFaults says of the errors of one attempt.
FaultsAreNamed(payload, answers, found) ==
    LET faults == Faults(payload)
        misread == IF \E i \in DOMAIN answers : answers[i] = "refused"
                   THEN {<<"overview", 0, "productTypeCode">>} ELSE {}
    IN  /\ found \ SubtypeFaults(found) = misread \cup (faults \ SubtypeFaults(faults))
        /\ Cardinality(SubtypeFaults(found)) = Cardinality(SubtypeFaults(faults))
        /\ (\A i \in 1..Len(payload.obligations) :
                payload.obligations[i].subtypeCode # Null)
             => SubtypeFaults(found) = SubtypeFaults(faults)

LEMMA SplitFaults ==
  ASSUME NEW rest, NEW subtype,
         \A fault \in rest : fault[3] # "subtypeCode",
         \A fault \in subtype : fault[3] = "subtypeCode"
  PROVE  /\ SubtypeFaults(rest \cup subtype) = subtype
         /\ (rest \cup subtype) \ SubtypeFaults(rest \cup subtype) = rest
BY DEF SubtypeFaults

\* Among the positions of a list, how many there are up to one tells it from
\* the others; of all of them it is the position itself.
LEMMA RanksDiffer ==
  ASSUME NEW n \in Nat, NEW given \in SUBSET (1..n), NEW i \in given, NEW k \in given, i < k
  PROVE  Cardinality({j \in given : j <= i}) # Cardinality({j \in given : j <= k})
<1> DEFINE S == {j \in given : j <= i}
           T == {j \in given : j <= k}
<1>0. \A j \in given : j \in 1..n /\ j \in Int
  OBVIOUS
<1>1. IsFiniteSet(T)
  <2>1. IsFiniteSet(1..n)
    BY FS_Interval
  <2>2. T \in SUBSET (1..n)
    BY <1>0
  <2> QED BY <2>1, <2>2, FS_Subset
<1>2. S \in SUBSET T /\ k \in T /\ k \notin S
  <2>1. \A j \in given : j <= i => j <= k
    BY <1>0
  <2>2. k <= k /\ ~(k <= i)
    BY <1>0
  <2> QED BY <2>1, <2>2
<1> HIDE DEF S, T
<1>3. Cardinality(T) = Cardinality(S) => T = S
  BY <1>1, <1>2, FS_Subset
<1>4. Cardinality(S) # Cardinality(T)
  BY <1>2, <1>3
<1> QED BY <1>4 DEF S, T

LEMMA RankOfAll ==
  ASSUME NEW n \in Nat, NEW i \in 1..n
  PROVE  Cardinality({j \in 1..n : j <= i}) = i
<1>1. {j \in 1..n : j <= i} = 1..i
  OBVIOUS
<1>2. Cardinality(1..i) = i
  BY FS_Interval
<1> QED BY <1>1, <1>2

\* As many errors as faults of the subtypes, whatever positions they name.
LEMMA SubtypesCounted ==
  ASSUME NEW unsupported \in SUBSET Nat, IsFiniteSet(unsupported),
         NEW rank, \A i, k \in unsupported : i < k => rank[i] # rank[k]
  PROVE  Cardinality({<<"obligations", rank[i], "subtypeCode">> : i \in unsupported}) =
         Cardinality({<<"obligations", i, "subtypeCode">> : i \in unsupported})
<1> DEFINE S == {<<"obligations", rank[i], "subtypeCode">> : i \in unsupported}
           T == {<<"obligations", i, "subtypeCode">> : i \in unsupported}
           s == [i \in unsupported |-> <<"obligations", rank[i], "subtypeCode">>]
           t == [i \in unsupported |-> <<"obligations", i, "subtypeCode">>]
<1>2. s \in Bijection(unsupported, S)
  <2>1. s \in [unsupported -> S]
    OBVIOUS
  <2>2. ASSUME NEW i \in unsupported, NEW k \in unsupported, s[i] = s[k]  PROVE i = k
    <3>1. rank[i] = rank[k] /\ i \in Nat /\ k \in Nat
      BY <2>2
    <3> QED BY <3>1
  <2>3. \A e \in S : \E i \in unsupported : s[i] = e
    OBVIOUS
  <2> HIDE DEF s, S
  <2> QED BY <2>1, <2>2, <2>3 DEF Bijection, Injection, Surjection, IsInjective
<1>3. t \in Bijection(unsupported, T)
  <2>1. t \in [unsupported -> T]
    OBVIOUS
  <2>2. ASSUME NEW i \in unsupported, NEW k \in unsupported, t[i] = t[k]  PROVE i = k
    BY <2>2
  <2>3. \A e \in T : \E i \in unsupported : t[i] = e
    OBVIOUS
  <2> HIDE DEF t, T
  <2> QED BY <2>1, <2>2, <2>3 DEF Bijection, Injection, Surjection, IsInjective
<1> HIDE DEF S, T, s, t
<1>4. Cardinality(S) = Cardinality(unsupported) /\ Cardinality(T) = Cardinality(unsupported)
  BY <1>2, <1>3, FS_Bijection DEF ExistsBijection
<1> QED BY <1>4 DEF S, T

Unsupported(entity, entities, field, supported) ==
    {<<entity, i, field>> : i \in {j \in 1..Len(entities) : entities[j][field] \notin supported}}

TypeFaults(payload) ==
    {<<"overview", 0, "productTypeCode">> :
        x \in {payload.productTypeCode} \ Reference.productTypes}

ShareFaults(counterparties) ==
    {<<"counterparties", i, "sharePercentage">> :
        i \in {j \in 1..Len(counterparties) :
                 /\ counterparties[j].roleCode \in
                      {r \in DOMAIN Reference.counterpartyRoles : Reference.counterpartyRoles[r]}
                 /\ counterparties[j].sharePercentage \notin MIN..MAX}}

\* The faults that are neither of the product type nor of a subtype.
OtherFaults(payload) ==
    {<<"overview", 0, "currency">> : x \in {payload.currency} \ Reference.currencies}
    \cup ShareFaults(payload.counterparties)
    \cup Unsupported("counterparties", payload.counterparties, "roleCode",
                     DOMAIN Reference.counterpartyRoles)
    \cup Unsupported("fixedFees", payload.fixedFees, "currency", Reference.currencies)
    \cup Unsupported("fixedFees", payload.fixedFees, "feeTypeCode", Reference.feeTypes)
    \cup Unsupported("obligations", payload.obligations, "currency", Reference.currencies)

UnsupportedSubtypes(payload) ==
    Unsupported("obligations", payload.obligations, "subtypeCode",
                ObligationSubtypesOf(payload.productTypeCode) \cup {Null})

LEMMA FaultsAre ==
  ASSUME NEW payload, payload.fixedFees # Null
  PROVE  Faults(payload) =
           (OtherFaults(payload) \cup TypeFaults(payload)) \cup UnsupportedSubtypes(payload)
BY DEF Faults, OtherFaults, TypeFaults, ShareFaults, Unsupported, UnsupportedSubtypes,
       ObligationSubtypesOf

LEMMA ArrayErrors ==
  ASSUME NEW entities, DOMAIN entities = 1..Len(entities), NEW entity, NEW field, NEW supported
  PROVE  GenerateArrayOfErrors(MapEntitiesByField(entities, field), supported, entity, field) =
           Unsupported(entity, entities, field, supported)
<1>1. \A j \in DOMAIN entities : MapEntitiesByField(entities, field)[j] = entities[j][field]
  BY DEF MapEntitiesByField
<1>2. DOMAIN MapEntitiesByField(entities, field) = DOMAIN entities
  BY DEF MapEntitiesByField
<1> QED BY <1>1, <1>2 DEF GenerateArrayOfErrors, Unsupported

LEMMA OutsideShares ==
  \A share \in Int \cup {Null} :
     (share \in {Null, 0} \/ share < MIN \/ share > MAX) <=> share \notin MIN..MAX
<1>1. Null \notin Int
  BY ValidationAssumption
<1>2. ASSUME NEW share \in Int
      PROVE  (share \in {Null, 0} \/ share < MIN \/ share > MAX) <=> share \notin MIN..MAX
  BY <1>1 DEF MIN, MAX
<1>3. Null \notin MIN..MAX
  BY <1>1 DEF MIN, MAX
<1> QED BY <1>2, <1>3

LEMMA ShareErrors ==
  ASSUME NEW payload, IsPayload(payload)
  PROVE  GenerateCounterpartySharePercentageErrors(Reference.counterpartyRoles,
                                                   payload.counterparties) =
           ShareFaults(payload.counterparties)
<1> DEFINE counterparties == payload.counterparties
           Charged(j) == /\ counterparties[j].roleCode \in DOMAIN Reference.counterpartyRoles
                         /\ Reference.counterpartyRoles[counterparties[j].roleCode]
           share(j) == counterparties[j].sharePercentage
<1>1. counterparties \in Seq([roleCode : STRING, sharePercentage : Int \cup {Null}])
  BY DEF IsPayload
<1>2. DOMAIN counterparties = 1..Len(counterparties)
  BY <1>1
<1>3. ASSUME NEW j \in 1..Len(counterparties)
      PROVE  (share(j) \in {Null, 0} \/ share(j) < MIN \/ share(j) > MAX)
                <=> share(j) \notin MIN..MAX
  <2>1. counterparties[j] \in [roleCode : STRING, sharePercentage : Int \cup {Null}]
    BY <1>1, ElementOfSequence
  <2>2. share(j) \in Int \cup {Null}
    BY <2>1
  <2> QED BY <2>2, OutsideShares
<1>4. {j \in DOMAIN counterparties :
         Charged(j) /\ (share(j) \in {Null, 0} \/ share(j) < MIN \/ share(j) > MAX)} =
      {j \in 1..Len(counterparties) : Charged(j) /\ share(j) \notin MIN..MAX}
  BY <1>2, <1>3
<1>5. GenerateCounterpartySharePercentageErrors(Reference.counterpartyRoles, counterparties) =
        {<<"counterparties", i, "sharePercentage">> : i \in
           {j \in DOMAIN counterparties :
              Charged(j) /\ (share(j) \in {Null, 0} \/ share(j) < MIN \/ share(j) > MAX)}}
  BY DEF GenerateCounterpartySharePercentageErrors
<1>6. ShareFaults(counterparties) =
        {<<"counterparties", i, "sharePercentage">> : i \in
           {j \in 1..Len(counterparties) : Charged(j) /\ share(j) \notin MIN..MAX}}
  BY DEF ShareFaults
<1> QED BY <1>4, <1>5, <1>6

\* What is reported besides subtypes, and the product type that was refused.
LEMMA ErrorsAre ==
  ASSUME NEW a \in Attempts, IsPayload(PayloadOf(a)), PayloadOf(a).fixedFees # Null
  PROVE  LET payload == PayloadOf(a)
             misread == IF \E i \in DOMAIN heard[a] : heard[a][i] = "refused"
                        THEN {<<"overview", 0, "productTypeCode">>} ELSE {}
         IN  AsyncValidationErrors(a) =
               (OtherFaults(payload) \cup TypeFaults(payload) \cup misread)
               \cup GenerateObligationSubtypeCodeErrors(
                      ObligationSubtypesOf(payload.productTypeCode),
                      GetObligationSubtypeCodes(payload.obligations))
<1> DEFINE payload == PayloadOf(a)
           misread == IF \E i \in DOMAIN heard[a] : heard[a][i] = "refused"
                      THEN {<<"overview", 0, "productTypeCode">>} ELSE {}
<1>1. /\ DOMAIN payload.counterparties = 1..Len(payload.counterparties)
      /\ DOMAIN payload.fixedFees = 1..Len(payload.fixedFees)
      /\ DOMAIN payload.obligations = 1..Len(payload.obligations)
  BY DEF IsPayload
<1>2. GenerateOverviewErrors(payload, IsSupported(a), GetSupportedCurrencies) =
        {<<"overview", 0, "currency">> : x \in {payload.currency} \ Reference.currencies}
        \cup TypeFaults(payload) \cup misread
  BY DEF GenerateOverviewErrors, IsSupported, GetSupportedCurrencies, TypeFaults
<1>3. GenerateHighLevelErrors(payload, "currency", GetSupportedCurrencies) =
        Unsupported("fixedFees", payload.fixedFees, "currency", Reference.currencies)
        \cup Unsupported("obligations", payload.obligations, "currency", Reference.currencies)
  <2>1. GenerateHighLevelErrors(payload, "currency", GetSupportedCurrencies) =
          GenerateArrayOfErrors(MapEntitiesByField(payload.fixedFees, "currency"),
                                Reference.currencies, "fixedFees", "currency")
          \cup GenerateArrayOfErrors(MapEntitiesByField(payload.obligations, "currency"),
                                     Reference.currencies, "obligations", "currency")
    BY DEF GenerateHighLevelErrors, GetSupportedCurrencies
  <2> QED BY <1>1, <2>1, ArrayErrors
<1>4. GenerateArrayOfErrors(MapEntitiesByField(payload.counterparties, "roleCode"),
                            GetAllRoleCodes, "counterparties", "roleCode") =
        Unsupported("counterparties", payload.counterparties, "roleCode",
                    DOMAIN Reference.counterpartyRoles)
  BY <1>1, ArrayErrors DEF GetAllRoleCodes
<1>5. GenerateArrayOfErrors(MapEntitiesByField(payload.fixedFees, "feeTypeCode"),
                            GetAllFeeTypeCodes, "fixedFees", "feeTypeCode") =
        Unsupported("fixedFees", payload.fixedFees, "feeTypeCode", Reference.feeTypes)
  BY <1>1, ArrayErrors DEF GetAllFeeTypeCodes
<1>6. GenerateCounterpartySharePercentageErrors(Reference.counterpartyRoles,
                                                payload.counterparties) =
        ShareFaults(payload.counterparties)
  BY ShareErrors
<1> QED BY <1>2, <1>3, <1>4, <1>5, <1>6 DEF AsyncValidationErrors, OtherFaults

\* The errors of the subtypes, by the rank of an obligation among those that
\* have one.
LEMMA SubtypeErrors ==
  ASSUME NEW payload, IsPayload(payload),
         payload.obligations \in Seq([currency : STRING, subtypeCode : STRING \cup {Null}])
  PROVE  LET errs == GenerateObligationSubtypeCodeErrors(
                         ObligationSubtypesOf(payload.productTypeCode),
                         GetObligationSubtypeCodes(payload.obligations))
         IN  /\ Cardinality(errs) = Cardinality(UnsupportedSubtypes(payload))
             /\ (\A i \in 1..Len(payload.obligations) :
                     payload.obligations[i].subtypeCode # Null)
                  => errs = UnsupportedSubtypes(payload)
             /\ \A fault \in errs : fault[3] = "subtypeCode"
<1> DEFINE obligations == payload.obligations
           n == Len(obligations)
           subtypes == ObligationSubtypesOf(payload.productTypeCode)
           code == [i \in 1..n |-> obligations[i].subtypeCode]
           given == {i \in 1..n : code[i] # Null}
           unsupported == {i \in given : code[i] \notin subtypes}
           rank == [i \in given |-> Cardinality({j \in given : j <= i})]
           errs == GenerateObligationSubtypeCodeErrors(
                       subtypes, GetObligationSubtypeCodes(obligations))
<1>1. DOMAIN obligations = 1..n /\ n \in Nat
  OBVIOUS
<1>2. errs = {<<"obligations", rank[i], "subtypeCode">> : i \in unsupported}
  <2>1. GetObligationSubtypeCodes(obligations) = {<<rank[i], code[i]>> : i \in given}
    BY <1>1 DEF GetObligationSubtypeCodes
  <2> HIDE DEF rank, given, code, subtypes
  <2>2. errs = {<<"obligations", p[1], "subtypeCode">> :
                  p \in {q \in {<<rank[i], code[i]>> : i \in given} : q[2] \notin subtypes}}
    BY <2>1 DEF GenerateObligationSubtypeCodeErrors
  <2>3. {q \in {<<rank[i], code[i]>> : i \in given} : q[2] \notin subtypes} =
        {<<rank[i], code[i]>> : i \in unsupported}
    OBVIOUS
  <2> HIDE DEF unsupported, errs
  <2>4. {<<"obligations", p[1], "subtypeCode">> : p \in {<<rank[i], code[i]>> : i \in unsupported}}
          = {<<"obligations", rank[i], "subtypeCode">> : i \in unsupported}
    <3> DEFINE pair(i) == <<rank[i], code[i]>>
               named(p) == <<"obligations", p[1], "subtypeCode">>
    <3>1. \A i : named(pair(i)) = <<"obligations", rank[i], "subtypeCode">>
      OBVIOUS
    <3> HIDE DEF pair, named
    <3>2. {named(p) : p \in {pair(i) : i \in unsupported}} = {named(pair(i)) : i \in unsupported}
      OBVIOUS
    <3>3. {named(pair(i)) : i \in unsupported} =
          {<<"obligations", rank[i], "subtypeCode">> : i \in unsupported}
      BY <3>1
    <3> QED BY <3>2, <3>3 DEF pair, named
  <2> QED BY <2>2, <2>3, <2>4
<1>3. UnsupportedSubtypes(payload) = {<<"obligations", i, "subtypeCode">> : i \in unsupported}
  <2>1. {j \in 1..n : obligations[j]["subtypeCode"] \notin subtypes \cup {Null}} = unsupported
    OBVIOUS
  <2> QED BY <2>1 DEF UnsupportedSubtypes, Unsupported
<1>4. \A i, k \in given : i < k => rank[i] # rank[k]
  <2> SUFFICES ASSUME NEW i \in given, NEW k \in given, i < k  PROVE rank[i] # rank[k]
    OBVIOUS
  <2>1. given \in SUBSET (1..n)
    OBVIOUS
  <2>2. rank[i] = Cardinality({j \in given : j <= i}) /\ rank[k] = Cardinality({j \in given : j <= k})
    OBVIOUS
  <2> HIDE DEF given, rank
  <2>3. Cardinality({j \in given : j <= i}) # Cardinality({j \in given : j <= k})
    BY <1>1, <2>1, RanksDiffer
  <2> QED BY <2>2, <2>3
<1>5. Cardinality(errs) = Cardinality(UnsupportedSubtypes(payload))
  <2>1. given \in SUBSET (1..n) /\ unsupported \in SUBSET given
    OBVIOUS
  <2> HIDE DEF given, unsupported, rank, errs, n
  <2>3. unsupported \in SUBSET Nat /\ IsFiniteSet(unsupported)
    <3>1. unsupported \in SUBSET (1..n) /\ 1..n \in SUBSET Nat
      BY <1>1, <2>1
    <3>2. IsFiniteSet(1..n)
      BY <1>1, FS_Interval
    <3> QED BY <3>1, <3>2, FS_Subset
  <2>2. Cardinality({<<"obligations", rank[i], "subtypeCode">> : i \in unsupported}) =
        Cardinality({<<"obligations", i, "subtypeCode">> : i \in unsupported})
    BY <1>4, <2>1, <2>3, SubtypesCounted
  <2> QED BY <1>2, <1>3, <2>2
<1>6. ASSUME \A i \in 1..n : code[i] # Null  PROVE errs = UnsupportedSubtypes(payload)
  <2>1. given = 1..n
    BY <1>6
  <2>2. \A i \in given : rank[i] = Cardinality({j \in 1..n : j <= i})
    BY <2>1
  <2>3. \A i \in unsupported : i \in given
    OBVIOUS
  <2> HIDE DEF given, unsupported, rank, errs, n
  <2>4. \A i \in unsupported : rank[i] = i
    BY <1>1, <2>1, <2>2, <2>3, RankOfAll
  <2> QED BY <1>2, <1>3, <2>4
<1>7. \A fault \in errs : fault[3] = "subtypeCode"
  <2> HIDE DEF unsupported, rank, errs
  <2> QED BY <1>2
<1> QED BY <1>5, <1>6, <1>7

\* An answer that is none of a product type that was refused changes nothing.
LEMMA ErrorsNamed ==
  ASSUME NEW a \in Attempts, IsPayload(PayloadOf(a)), PayloadOf(a).fixedFees # Null,
         NEW answers, (\E i \in DOMAIN answers : answers[i] = "refused") <=>
                      (\E i \in DOMAIN heard[a] : heard[a][i] = "refused")
  PROVE  FaultsAreNamed(PayloadOf(a), answers, AsyncValidationErrors(a))
<1> DEFINE payload == PayloadOf(a)
           misread == IF \E i \in DOMAIN heard[a] : heard[a][i] = "refused"
                      THEN {<<"overview", 0, "productTypeCode">>} ELSE {}
           errs == GenerateObligationSubtypeCodeErrors(
                       ObligationSubtypesOf(payload.productTypeCode),
                       GetObligationSubtypeCodes(payload.obligations))
           rest == OtherFaults(payload) \cup TypeFaults(payload)
           subtype == UnsupportedSubtypes(payload)
<1>1. AsyncValidationErrors(a) = (rest \cup misread) \cup errs
  BY ErrorsAre
<1>2. Faults(payload) = rest \cup subtype
  BY FaultsAre
<1>3. /\ Cardinality(errs) = Cardinality(subtype)
      /\ (\A i \in 1..Len(payload.obligations) : payload.obligations[i].subtypeCode # Null)
           => errs = subtype
      /\ \A fault \in errs : fault[3] = "subtypeCode"
  BY SubtypeErrors DEF IsPayload
<1>4. \A fault \in subtype : fault[3] = "subtypeCode"
  BY DEF UnsupportedSubtypes, Unsupported
<1>5. \A fault \in rest \cup misread : fault[3] # "subtypeCode"
  BY DEF OtherFaults, TypeFaults, ShareFaults, Unsupported
<1> HIDE DEF rest, subtype, errs, misread
<1>6. /\ SubtypeFaults(AsyncValidationErrors(a)) = errs
      /\ AsyncValidationErrors(a) \ SubtypeFaults(AsyncValidationErrors(a)) = rest \cup misread
  <2> DEFINE R == rest \cup misread
  <2>1. AsyncValidationErrors(a) = R \cup errs /\ \A fault \in R : fault[3] # "subtypeCode"
    BY <1>1, <1>5
  <2> HIDE DEF R
  <2>2. SubtypeFaults(R \cup errs) = errs /\ (R \cup errs) \ SubtypeFaults(R \cup errs) = R
    BY <1>3, <2>1, SplitFaults
  <2> QED BY <2>1, <2>2 DEF R
<1>7. /\ SubtypeFaults(Faults(payload)) = subtype
      /\ Faults(payload) \ SubtypeFaults(Faults(payload)) = rest
  BY <1>2, <1>4, <1>5, SplitFaults
<1> HIDE DEF payload
<1>8. FaultsAreNamed(payload, answers, AsyncValidationErrors(a))
  BY <1>3, <1>6, <1>7 DEF FaultsAreNamed, misread
<1> QED BY <1>8 DEF payload

\* The strengthening: what an attempt has heard is answers, and from the third
\* service on its fees are not null; it has errors only once it is done asking.
ErrorsInv ==
    /\ request \in Requests
    /\ heard \in [Attempts -> Seq({"answered", "refused"})]
    /\ DOMAIN errors = Attempts
    /\ \A a \in Attempts :
         /\ pc[a] = "received" /\ Len(heard[a]) >= 3 => PayloadOf(a).fixedFees # Null
         /\ errors[a] # {} =>
              pc[a] # "received" /\ FaultsAreNamed(PayloadOf(a), heard[a], errors[a])

LEMMA Concatenation ==
  ASSUME NEW S, NEW s \in Seq(S), NEW t \in Seq(S)
  PROVE  /\ s \o t \in Seq(S) /\ Len(s \o t) = Len(s) + Len(t)
         /\ \A i \in 1..Len(s) : (s \o t)[i] = s[i]
OBVIOUS

\* The third service that an attempt asks is that of the currencies.
LEMMA ThirdService ==
  ASSUME NEW a \in Attempts
  PROVE  Len(Services(a)) \in Nat /\ Len(Services(a)) >= 3 /\ Services(a)[3] = "currencies"
<1> DEFINE S == {"counterpartyRoles", "productType", "currencies", "feeTypes",
                 "obligationSubtypes"}
           first == <<"counterpartyRoles", "productType", "currencies">>
           fees == IF HasFees(PayloadOf(a)) THEN <<"feeTypes">> ELSE <<>>
           subtypes == IF GetObligationSubtypeCodes(PayloadOf(a).obligations) # {}
                       THEN <<"obligationSubtypes">> ELSE <<>>
           more == first \o fees
<1>1. first \in Seq(S) /\ Len(first) = 3 /\ first[3] = "currencies"
  OBVIOUS
<1>2. <<"feeTypes">> \in Seq(S) /\ <<"obligationSubtypes">> \in Seq(S) /\ <<>> \in Seq(S)
  OBVIOUS
<1>3. fees \in {<<"feeTypes">>, <<>>} /\ subtypes \in {<<"obligationSubtypes">>, <<>>}
  <2>1. fees \in {<<"feeTypes">>, <<>>}
    <3> HIDE DEF HasFees
    <3>1. CASE HasFees(PayloadOf(a))  BY <3>1, Zenon
    <3>2. CASE ~HasFees(PayloadOf(a))  BY <3>2, Zenon
    <3> QED BY <3>1, <3>2
  <2>2. subtypes \in {<<"obligationSubtypes">>, <<>>}
    <3>1. CASE GetObligationSubtypeCodes(PayloadOf(a).obligations) # {}  BY <3>1, Zenon
    <3>2. CASE GetObligationSubtypeCodes(PayloadOf(a).obligations) = {}  BY <3>2, Zenon
    <3> QED BY <3>1, <3>2
  <2> QED BY <2>1, <2>2
<1>4. Services(a) = more \o subtypes
  BY DEF Services
<1> HIDE DEF S, first, fees, subtypes, more
<1>5. fees \in Seq(S) /\ subtypes \in Seq(S)
  BY <1>2, <1>3, Zenon
<1>6. more \in Seq(S) /\ Len(more) = Len(first) + Len(fees) /\ Len(fees) \in Nat
  <2>1. first \o fees \in Seq(S) /\ Len(first \o fees) = Len(first) + Len(fees)
    BY <1>1, <1>5, Concatenation
  <2>2. Len(fees) \in Nat
    BY <1>5
  <2> QED BY <2>1, <2>2, Zenon DEF more
<1>7. more[3] = "currencies"
  <2>1. 3 \in 1..Len(first)
    BY <1>1
  <2>2. (first \o fees)[3] = first[3]
    BY <1>1, <1>5, <2>1, Concatenation
  <2> QED BY <1>1, <2>2, Zenon DEF more
<1>8. /\ Len(more \o subtypes) = Len(more) + Len(subtypes)
      /\ Len(subtypes) \in Nat /\ Len(more) \in Nat
  BY <1>5, <1>6
<1>9. Len(more) >= 3
  BY <1>1, <1>6
<1>10. (more \o subtypes)[3] = more[3]
  BY <1>5, <1>6, <1>9
<1>11. Len(more \o subtypes) \in Nat /\ Len(more \o subtypes) >= 3
  BY <1>8, <1>9
<1> QED BY <1>4, <1>7, <1>10, <1>11

LEMMA Appended ==
  ASSUME NEW answers \in Seq({"answered", "refused"}), NEW answer \in {"answered", "refused"}
  PROVE  /\ Append(answers, answer) \in Seq({"answered", "refused"})
         /\ Len(Append(answers, answer)) = Len(answers) + 1
         /\ (\E i \in DOMAIN Append(answers, answer) : Append(answers, answer)[i] = "refused")
              <=> (answer = "refused" \/ \E i \in DOMAIN answers : answers[i] = "refused")
<1> DEFINE n == Len(answers) + 1
<1>1. /\ DOMAIN answers = 1..Len(answers) /\ DOMAIN Append(answers, answer) = 1..n
      /\ Append(answers, answer)[n] = answer
      /\ \A i \in 1..Len(answers) : Append(answers, answer)[i] = answers[i]
      /\ 1..n = (1..Len(answers)) \cup {n}
  OBVIOUS
<1>2. /\ Append(answers, answer) \in Seq({"answered", "refused"})
      /\ Len(Append(answers, answer)) = Len(answers) + 1
  OBVIOUS
<1> QED BY <1>1, <1>2

LEMMA TwoOrMore == \A n \in Nat : n >= 2 => n >= 3 \/ n = 2
OBVIOUS

\* At a call of creation() the fees are not null from the third service on.
LEMMA FeesGiven ==
  ASSUME ErrorsInv, NEW a \in Attempts, NEW service, Asks(a, service), ~Unreadable(a, service),
         Len(heard[a]) >= 2
  PROVE  PayloadOf(a).fixedFees # Null
<1>1. pc[a] = "received" /\ service = Services(a)[Len(heard[a]) + 1] /\ Len(heard[a]) \in Nat
  BY DEF Asks, ErrorsInv
<1>2. CASE Len(heard[a]) >= 3
  BY <1>1, <1>2 DEF ErrorsInv
<1>3. CASE Len(heard[a]) = 2
  <2>1. service = "currencies"
    BY <1>1, <1>3, ThirdService
  <2> QED BY <2>1 DEF Unreadable
<1>4. Len(heard[a]) >= 3 \/ Len(heard[a]) = 2
  BY <1>1, TwoOrMore, Zenon
<1> QED BY <1>2, <1>3, <1>4

\* What a step leaves of another attempt, or of one that it lets forget.
LEMMA ErrorsStay ==
  ASSUME ErrorsInv, UNCHANGED request, NEW b \in Attempts, errors'[b] = errors[b],
         heard'[b] = heard[b], pc'[b] = "received" => pc[b] = "received"
  PROVE  /\ pc'[b] = "received" /\ Len(heard'[b]) >= 3 => PayloadOf(b)'.fixedFees # Null
         /\ errors'[b] # {} =>
              pc'[b] # "received" /\ FaultsAreNamed(PayloadOf(b)', heard'[b], errors'[b])
BY DEF ErrorsInv, PayloadOf

LEMMA ForgetStays ==
  ASSUME ErrorsInv, NEW a \in Attempts, Forget(a),
         \A b \in Attempts : pc'[b] = "received" => pc[b] = "received"
  PROVE  ErrorsInv'
<1>1. /\ request' = request
      /\ heard' \in [Attempts -> Seq({"answered", "refused"})] /\ DOMAIN errors' = Attempts
      /\ heard'[a] = <<>> /\ errors'[a] = {}
      /\ \A b \in Attempts \ {a} : heard'[b] = heard[b] /\ errors'[b] = errors[b]
  BY DEF Forget, ErrorsInv
<1>2. ASSUME NEW b \in Attempts
      PROVE  /\ pc'[b] = "received" /\ Len(heard'[b]) >= 3 => PayloadOf(b)'.fixedFees # Null
             /\ errors'[b] # {} =>
                  pc'[b] # "received" /\ FaultsAreNamed(PayloadOf(b)', heard'[b], errors'[b])
  BY <1>1, ErrorsStay
<1> QED BY <1>1, <1>2 DEF ErrorsInv, PayloadOf

LEMMA CreationNames ==
  ASSUME ErrorsInv, TypeOK, NEW a \in Attempts, NEW service,
         Fails(a, service) \/ GoesOn(a, service) \/ Concludes(a, service)
  PROVE  ErrorsInv'
<1> DEFINE Kept(b) ==
             /\ pc'[b] = "received" /\ Len(heard'[b]) >= 3 => PayloadOf(b)'.fixedFees # Null
             /\ errors'[b] # {} =>
                  pc'[b] # "received" /\ FaultsAreNamed(PayloadOf(b)', heard'[b], errors'[b])
<1>1. request' = request
  BY DEF Fails, GoesOn, Concludes, Forget
<1>2. \A b \in Attempts : pc'[b] = "received" => pc[b] = "received"
  BY DEF TypeOK, Fails, GoesOn, Concludes, AsyncValidation, Leave, LosesAnswer, WaitsForEver, vars
<1>3. /\ pc[a] = "received" /\ errors[a] = {} /\ Len(heard[a]) \in Nat
      /\ heard \in [Attempts -> Seq({"answered", "refused"})] /\ DOMAIN errors = Attempts
  BY DEF Fails, GoesOn, Concludes, Asks, ErrorsInv
<1>4. CASE Forget(a)
  BY <1>2, <1>4, ForgetStays
<1>5. ASSUME GoesOn(a, service)  PROVE ErrorsInv'
  <2>1. /\ UNCHANGED <<request, errors, pc>> /\ Asks(a, service) /\ ~Unreadable(a, service)
        /\ \E answer \in {"answered", "refused"} : Hears(a, answer)
    BY <1>5 DEF GoesOn, vars
  <2>2. PICK answer \in {"answered", "refused"} : Hears(a, answer)
    BY <2>1
  <2>3. /\ heard' \in [Attempts -> Seq({"answered", "refused"})]
        /\ Len(heard'[a]) = Len(heard[a]) + 1
        /\ \A b \in Attempts \ {a} : heard'[b] = heard[b]
    BY <1>3, <2>2, Appended DEF Hears
  <2>4. Kept(a)
    <3>1. Len(heard'[a]) >= 3 => PayloadOf(a).fixedFees # Null
      BY <1>3, <2>1, <2>3, FeesGiven
    <3> QED BY <1>3, <2>1, <3>1 DEF PayloadOf
  <2>5. ASSUME NEW b \in Attempts \ {a}  PROVE Kept(b)
    BY <2>1, <2>3, ErrorsStay
  <2> QED BY <1>3, <2>1, <2>3, <2>4, <2>5 DEF ErrorsInv, PayloadOf
<1>6. ASSUME Concludes(a, service), ~Forget(a)  PROVE ErrorsInv'
  <2>1. /\ Asks(a, service) /\ IsLast(a) /\ ~Unreadable(a, service)
        /\ pc'[a] = "finally" /\ Hears(a, "answered")
        /\ errors' = [errors EXCEPT ![a] = AsyncValidationErrors(a)]
    BY <1>6 DEF Concludes
  <2>2. /\ heard' \in [Attempts -> Seq({"answered", "refused"})]
        /\ heard'[a] = Append(heard[a], "answered")
        /\ (\E i \in DOMAIN heard'[a] : heard'[a][i] = "refused") <=>
           (\E i \in DOMAIN heard[a] : heard[a][i] = "refused")
        /\ \A b \in Attempts \ {a} : heard'[b] = heard[b]
    BY <1>3, <2>1, Appended DEF Hears
  <2>3. /\ errors'[a] = AsyncValidationErrors(a) /\ DOMAIN errors' = Attempts
        /\ \A b \in Attempts \ {a} : errors'[b] = errors[b]
    BY <1>3, <2>1
  <2>4. Kept(a)
    <3>1. PayloadOf(a).fixedFees # Null
      <4>1. Len(heard[a]) >= 2
        BY <1>3, <2>1, ThirdService DEF IsLast
      <4> QED BY <2>1, <4>1, FeesGiven
    <3>2. IsPayload(PayloadOf(a))
      BY CreationAssumption, ValidationAssumption DEF ErrorsInv, PayloadOf
    <3>3. FaultsAreNamed(PayloadOf(a), heard'[a], AsyncValidationErrors(a))
      BY <2>2, <3>1, <3>2, ErrorsNamed
    <3> QED BY <1>1, <2>1, <2>3, <3>3 DEF PayloadOf
  <2>5. ASSUME NEW b \in Attempts \ {a}  PROVE Kept(b)
    BY <1>1, <1>2, <2>2, <2>3, ErrorsStay
  <2> QED BY <1>1, <1>3, <2>2, <2>3, <2>4, <2>5 DEF ErrorsInv, PayloadOf
<1> QED BY <1>4, <1>5, <1>6 DEF Fails

LEMMA ErrorsInductive ==
  ErrorsInv /\ TypeOK /\ [ValidatedNext]_validatedVars => ErrorsInv'
<1> SUFFICES ASSUME ErrorsInv, TypeOK, [ValidatedNext]_validatedVars  PROVE ErrorsInv'
  OBVIOUS
<1>1. ASSUME UNCHANGED validation, \A b \in Attempts : pc'[b] = "received" => pc[b] = "received"
      PROVE  ErrorsInv'
  <2>1. UNCHANGED <<request, heard, errors>>
    BY <1>1 DEF validation
  <2> QED BY <1>1, <2>1, ErrorsStay DEF ErrorsInv, PayloadOf
<1>2. CASE UNCHANGED validatedVars
  BY <1>1, <1>2 DEF validatedVars, validation
<1>3. ASSUME NEW a \in Attempts, Creation(a)  PROVE ErrorsInv'
  BY <1>3, CreationNames DEF Creation
<1>4. ASSUME NEW a \in Attempts, AroundValidation(a) \/ Crash(a)
      PROVE  \A b \in Attempts : pc'[b] = "received" => pc[b] = "received"
  BY <1>4 DEF TypeOK, AroundValidation, RejectPayload, CreateInitialFacility, CreateOne,
              CheckResponses, Approved, FinallyHandler, Crash, Leave, LosesAnswer, WaitsForEver
<1>5. ASSUME NEW a \in Attempts, AroundValidation(a)  PROVE ErrorsInv'
  BY <1>1, <1>4, <1>5, ForgetStays DEF AroundValidation
<1>6. ASSUME NEW a \in Attempts, Crash(a) /\ Forget(a)  PROVE ErrorsInv'
  BY <1>4, <1>6, ForgetStays
<1> QED BY <1>2, <1>3, <1>5, <1>6 DEF ValidatedNext, ValidatedHandle

\* The errors of a 400 name every fault of the payload and nothing else, for
\* any payloads and reference data: also when a service has refused, and with
\* as many errors of subtypes as there are unsupported ones.
THEOREM ErrorsAreTheFaults == ValidatedSpec => []ErrorsNameTheFaults
<1>1. ValidatedInit => ErrorsInv
  BY DEF ValidatedInit, Init, ErrorsInv
<1>2. ErrorsInv => ErrorsNameTheFaults
  BY DEF ErrorsInv, ErrorsNameTheFaults, FaultsAreNamed
<1>3. ValidatedSpec => []TypeOK
  BY ValidationRefinesCreation, TypeCorrect, PTL
<1> QED BY <1>1, <1>2, <1>3, ErrorsInductive, PTL DEF ValidatedSpec
=============================================================================
