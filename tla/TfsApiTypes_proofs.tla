-------------------------- MODULE TfsApiTypes_proofs --------------------------
(***************************************************************************)
(* That everything the API sends ACBS is of the DTO of its endpoint and    *)
(* everything it answers of the DTO of its handler: TypeOK of TfsApi, for  *)
(* any workload and any number of calls that fail.  And what follows from  *)
(* the types of what is added up: that an amendment of a limit reaches it, *)
(* and that the amount of a fee is what was asked for.                     *)
(***************************************************************************)
EXTENDS TfsApi_proofs, WellFoundedInduction

-----------------------------------------------------------------------------
(* The sum of integers over a finite set is one.  MapThenSumSet is a       *)
(* recursive function on the subsets of the set: that there is one, and    *)
(* what its values are, goes by their least counterexample.                *)

LEMMA LeastOf ==
  ASSUME NEW T \in SUBSET Nat, T # {}
  PROVE  \E m \in T : \A n \in T : m <= n
<1>1. IsWellFoundedOn(OpToRel(<, Nat), Nat)
  BY NatLessThanWellFounded
<1>2. PICK m \in T : \A n \in T : ~(<<n, m>> \in OpToRel(<, Nat))
  BY <1>1, WFMin
<1>3. \A n \in T : ~(n < m)
  BY <1>2 DEF OpToRel
<1> QED BY <1>3

\* An element of a set is taken out of it.
OneOf(s) == CHOOSE x \in s : TRUE

LEMMA TakenOut ==
  ASSUME NEW s, IsFiniteSet(s), s # {}
  PROVE  /\ OneOf(s) \in s
         /\ IsFiniteSet(s \ {OneOf(s)})
         /\ Cardinality(s \ {OneOf(s)}) \in Nat
         /\ Cardinality(s) = Cardinality(s \ {OneOf(s)}) + 1
<1>1. OneOf(s) \in s
  BY DEF OneOf
<1>2. IsFiniteSet(s \ {OneOf(s)}) /\ Cardinality(s \ {OneOf(s)}) = Cardinality(s) - 1
  BY <1>1, FS_RemoveElement
<1>3. Cardinality(s) \in Nat /\ Cardinality(s \ {OneOf(s)}) \in Nat
  BY <1>2, FS_CardinalityType
<1> QED BY <1>1, <1>2, <1>3

\* What the sum of F over each of a family of sets is, if it is defined.
Sums(F, g, family) ==
    \A s \in family : g[s] = IF s = {} THEN 0 ELSE F[OneOf(s)] + g[s \ {OneOf(s)}]

\* The function that MapThenSumSet defines recursively.
IsSum(S, F, g) ==
    g = [s \in SUBSET S |-> IF s = {} THEN 0 ELSE F[OneOf(s)] + g[s \ {OneOf(s)}]]

UpTo(S, n) == {s \in SUBSET S : Cardinality(s) <= n}

LEMMA SumsExist ==
  ASSUME NEW S, IsFiniteSet(S), NEW F
  PROVE  \E g : IsSum(S, F, g)
<1> DEFINE Have(n) == \E g : DOMAIN g = UpTo(S, n) /\ Sums(F, g, UpTo(S, n))
           Lacking == {n \in Nat : ~Have(n)}
<1>1. \A s \in SUBSET S : IsFiniteSet(s) /\ Cardinality(s) \in Nat
  BY FS_Subset, FS_CardinalityType
<1>2. Have(0)
  <2> DEFINE g == [s \in UpTo(S, 0) |-> 0]
  <2>1. \A s \in UpTo(S, 0) : s = {}
    <3> SUFFICES ASSUME NEW s \in UpTo(S, 0)  PROVE s = {}
      OBVIOUS
    <3>1. IsFiniteSet(s) /\ Cardinality(s) = 0
      BY <1>1 DEF UpTo
    <3> QED BY <3>1, FS_EmptySet
  <2>2. DOMAIN g = UpTo(S, 0) /\ Sums(F, g, UpTo(S, 0))
    BY <2>1 DEF Sums
  <2> QED BY <2>2
<1>3. ASSUME NEW n \in Nat, Have(n)  PROVE Have(n + 1)
  <2>1. PICK g : DOMAIN g = UpTo(S, n) /\ Sums(F, g, UpTo(S, n))
    BY <1>3
  <2> DEFINE h == [s \in UpTo(S, n + 1) |->
                      IF s = {} THEN 0 ELSE F[OneOf(s)] + g[s \ {OneOf(s)}]]
  <2>2. ASSUME NEW s \in UpTo(S, n + 1)
        PROVE  h[s] = IF s = {} THEN 0 ELSE F[OneOf(s)] + h[s \ {OneOf(s)}]
    <3>1. CASE s = {}
      BY <3>1
    <3>2. CASE s # {}
      <4> DEFINE t == s \ {OneOf(s)}
      <4>1. t \in UpTo(S, n)
        <5>1. s \in SUBSET S /\ IsFiniteSet(s) /\ Cardinality(s) <= n + 1
          BY <1>1 DEF UpTo
        <5>2. Cardinality(t) \in Nat /\ Cardinality(s) = Cardinality(t) + 1
          BY <3>2, <5>1, TakenOut
        <5>3. Cardinality(t) <= n
          BY <5>1, <5>2
        <5> QED BY <5>1, <5>3 DEF UpTo
      <4>2. t \in UpTo(S, n + 1)
        <5>1. t \in SUBSET S /\ Cardinality(t) <= n /\ Cardinality(t) \in Nat
          BY <1>1, <4>1 DEF UpTo
        <5> QED BY <5>1 DEF UpTo
      <4>3. g[t] = IF t = {} THEN 0 ELSE F[OneOf(t)] + g[t \ {OneOf(t)}]
        BY <2>1, <4>1 DEF Sums
      <4>4. h[t] = g[t]
        BY <4>2, <4>3
      <4>5. h[s] = F[OneOf(s)] + g[t]
        BY <3>2
      <4> QED BY <3>2, <4>4, <4>5
    <3> QED BY <3>1, <3>2
  <2>3. DOMAIN h = UpTo(S, n + 1)
    OBVIOUS
  <2> HIDE DEF h
  <2>4. Sums(F, h, UpTo(S, n + 1))
    BY <2>2 DEF Sums
  <2> QED BY <2>3, <2>4
<1>4. Lacking = {}
  <2> SUFFICES ASSUME Lacking # {}  PROVE FALSE
    OBVIOUS
  <2> HIDE DEF Have
  <2>1. PICK m \in Lacking : \A n \in Lacking : m <= n
    BY LeastOf
  <2>2. m # 0 /\ m \in Nat
    BY <1>2, <2>1
  <2>3. m - 1 \in Nat /\ Have(m - 1)
    BY <2>1, <2>2
  <2>4. Have((m - 1) + 1)
    BY <1>3, <2>3
  <2> QED BY <2>1, <2>2, <2>4
<1>5. Cardinality(S) \in Nat
  BY FS_CardinalityType
<1>6. Have(Cardinality(S))
  BY <1>4, <1>5
<1>7. UpTo(S, Cardinality(S)) = SUBSET S
  <2>1. \A s \in SUBSET S : Cardinality(s) <= Cardinality(S)
    BY FS_Subset
  <2> QED BY <2>1 DEF UpTo
<1>8. PICK f : DOMAIN f = SUBSET S /\ Sums(F, f, SUBSET S)
  BY <1>6, <1>7
<1> DEFINE g == [s \in SUBSET S |-> f[s]]
<1>9. ASSUME NEW s \in SUBSET S
      PROVE  g[s] = IF s = {} THEN 0 ELSE F[OneOf(s)] + g[s \ {OneOf(s)}]
  BY <1>8 DEF Sums
<1>10. g = [s \in SUBSET S |-> IF s = {} THEN 0 ELSE F[OneOf(s)] + g[s \ {OneOf(s)}]]
  <2>1. DOMAIN g = SUBSET S /\ g = [s \in SUBSET S |-> g[s]]
    OBVIOUS
  <2> HIDE DEF g
  <2> QED BY <1>9, <2>1
<1> HIDE DEF g
<1> QED BY <1>10 DEF IsSum

\* A sum of integers over a finite set is one.
LEMMA SumsAreInt ==
  ASSUME NEW S, IsFiniteSet(S), NEW F, \A x \in S : F[x] \in Int, NEW g, Sums(F, g, SUBSET S)
  PROVE  g[S] \in Int
<1> DEFINE Bad == {n \in Nat : \E s \in SUBSET S : Cardinality(s) = n /\ g[s] \notin Int}
<1>1. \A s \in SUBSET S : IsFiniteSet(s) /\ Cardinality(s) \in Nat
  BY FS_Subset, FS_CardinalityType
<1>2. Bad = {}
  <2> SUFFICES ASSUME Bad # {}  PROVE FALSE
    OBVIOUS
  <2>1. PICK m \in Bad : \A n \in Bad : m <= n
    BY LeastOf
  <2>2. PICK s \in SUBSET S : Cardinality(s) = m /\ g[s] \notin Int
    BY <2>1
  <2>3. s # {}
    <3>1. {} \in SUBSET S
      OBVIOUS
    <3>2. g[{}] = 0
      BY <3>1 DEF Sums
    <3>3. s = {} => g[s] = g[{}]
      OBVIOUS
    <3> QED BY <2>2, <3>2, <3>3
  <2> DEFINE t == s \ {OneOf(s)}
  <2>4. OneOf(s) \in S /\ t \in SUBSET S /\ Cardinality(t) \in Nat /\ m = Cardinality(t) + 1
    BY <1>1, <2>2, <2>3, TakenOut
  <2>5. g[t] \in Int
    <3>1. Cardinality(t) \notin Bad
      <4>1. ~(m <= Cardinality(t))
        BY <2>4
      <4> HIDE DEF Bad, t
      <4> QED BY <2>1, <4>1
    <3> QED BY <2>4, <3>1
  <2>6. g[s] = F[OneOf(s)] + g[t]
    BY <2>3 DEF Sums
  <2> QED BY <2>2, <2>4, <2>5, <2>6
<1> QED BY <1>1, <1>2

\* SumFunction is such a function too.
LEMMA SumIs ==
  ASSUME NEW f, IsFiniteSet(DOMAIN f)
  PROVE  \E g : Sums(f, g, SUBSET DOMAIN f) /\ SumFunction(f) = g[DOMAIN f]
<1> DEFINE S == DOMAIN f
           IsIt(h) == h = [s \in SUBSET S |-> IF s = {} THEN 0
                            ELSE f[OneOf(s)] + h[s \ {OneOf(s)}]]
           g == CHOOSE h : IsIt(h)
<1>1. \E h : IsIt(h)
  <2>1. PICK h : IsSum(S, f, h)
    <3> HIDE DEF S
    <3> QED BY SumsExist DEF S
  <2>2. IsIt(h)
    BY <2>1 DEF IsSum
  <2> HIDE DEF IsIt
  <2> QED BY <2>2
<1>2. IsIt(g)
  <2> HIDE DEF IsIt
  <2> QED BY <1>1
<1>3. SumFunction(f) = g[S]
  BY DEF SumFunction, SumFunctionOnSet, FoldFunctionOnSet, MapThenFoldSet, OneOf
<1> HIDE DEF g
<1>4. Sums(f, g, SUBSET S)
  BY <1>2 DEF Sums
<1> QED BY <1>3, <1>4

\* There is only one sum.
LEMMA SumsAreOne ==
  ASSUME NEW S, IsFiniteSet(S), NEW F, NEW g, Sums(F, g, SUBSET S),
         NEW G, NEW h, Sums(G, h, SUBSET S), \A x \in S : F[x] = G[x]
  PROVE  g[S] = h[S]
<1> DEFINE Bad == {n \in Nat : \E s \in SUBSET S : Cardinality(s) = n /\ g[s] # h[s]}
<1>1. \A s \in SUBSET S : IsFiniteSet(s) /\ Cardinality(s) \in Nat
  BY FS_Subset, FS_CardinalityType
<1>2. Bad = {}
  <2> SUFFICES ASSUME Bad # {}  PROVE FALSE
    OBVIOUS
  <2>1. PICK m \in Bad : \A n \in Bad : m <= n
    BY LeastOf
  <2>2. PICK s \in SUBSET S : Cardinality(s) = m /\ g[s] # h[s]
    BY <2>1
  <2>3. s # {}
    <3>1. {} \in SUBSET S
      OBVIOUS
    <3>2. g[{}] = 0 /\ h[{}] = 0
      BY <3>1 DEF Sums
    <3> QED BY <2>2, <3>2
  <2> DEFINE t == s \ {OneOf(s)}
  <2>4. OneOf(s) \in S /\ t \in SUBSET S /\ Cardinality(t) \in Nat /\ m = Cardinality(t) + 1
    BY <1>1, <2>2, <2>3, TakenOut
  <2>5. g[t] = h[t]
    <3>1. Cardinality(t) \notin Bad
      <4>1. ~(m <= Cardinality(t))
        BY <2>4
      <4> HIDE DEF Bad, t
      <4> QED BY <2>1, <4>1
    <3> QED BY <2>4, <3>1
  <2>6. g[s] = F[OneOf(s)] + g[t] /\ h[s] = G[OneOf(s)] + h[t]
    BY <2>3 DEF Sums
  <2> QED BY <2>2, <2>4, <2>5, <2>6
<1> QED BY <1>1, <1>2

\* Functions with the same values have the same sum.
LEMMA SameSums ==
  ASSUME NEW f, IsFiniteSet(DOMAIN f), NEW h, DOMAIN h = DOMAIN f,
         \A x \in DOMAIN f : f[x] = h[x]
  PROVE  SumFunction(f) = SumFunction(h)
<1>1. PICK g1 : Sums(f, g1, SUBSET DOMAIN f) /\ SumFunction(f) = g1[DOMAIN f]
  BY SumIs
<1>2. PICK g2 : Sums(h, g2, SUBSET DOMAIN f) /\ SumFunction(h) = g2[DOMAIN f]
  BY SumIs
<1> QED BY <1>1, <1>2, SumsAreOne

LEMMA SumIsInt ==
  ASSUME NEW f, IsFiniteSet(DOMAIN f), \A x \in DOMAIN f : f[x] \in Int
  PROVE  SumFunction(f) \in Int
BY SumIs, SumsAreInt

LEMMA SumOfNone ==
  ASSUME NEW f, IsFiniteSet(DOMAIN f), \A x \in DOMAIN f : f[x] = 0
  PROVE  SumFunction(f) = 0
<1> DEFINE S == DOMAIN f
<1>1. PICK g : Sums(f, g, SUBSET S) /\ SumFunction(f) = g[S]
  BY SumIs
<1> DEFINE h == [s \in SUBSET S |-> 0]
<1>2. Sums(f, h, SUBSET S)
  <2> SUFFICES ASSUME NEW s \in SUBSET S, s # {}
               PROVE  h[s] = f[OneOf(s)] + h[s \ {OneOf(s)}]
    BY DEF Sums
  <2>1. OneOf(s) \in S /\ s \ {OneOf(s)} \in SUBSET S
    BY DEF OneOf
  <2>2. h[s] = 0 /\ h[s \ {OneOf(s)}] = 0 /\ f[OneOf(s)] = 0
    BY <2>1
  <2> QED BY <2>2
<1>3. h[S] = 0
  OBVIOUS
<1> HIDE DEF h
<1> QED BY <1>1, <1>2, <1>3, SumsAreOne

\* Any element may be the one that is taken out of a sum of integers.
LEMMA SumsSplit ==
  ASSUME NEW S, IsFiniteSet(S), NEW F, \A x \in S : F[x] \in Int, NEW g, Sums(F, g, SUBSET S),
         NEW a \in S
  PROVE  g[S] = F[a] + g[S \ {a}]
<1> DEFINE Splits(s) == \A x \in s : g[s] = F[x] + g[s \ {x}]
           Bad == {n \in Nat : \E s \in SUBSET S : Cardinality(s) = n /\ ~Splits(s)}
<1>1. \A s \in SUBSET S : IsFiniteSet(s) /\ Cardinality(s) \in Nat
  BY FS_Subset, FS_CardinalityType
<1>2. \A s \in SUBSET S : g[s] \in Int
  <2> SUFFICES ASSUME NEW s \in SUBSET S  PROVE g[s] \in Int
    OBVIOUS
  <2>1. Sums(F, g, SUBSET s)
    BY DEF Sums
  <2> QED BY <1>1, <2>1, SumsAreInt
<1>3. Bad = {}
  <2> SUFFICES ASSUME Bad # {}  PROVE FALSE
    OBVIOUS
  <2>1. PICK m \in Bad : \A n \in Bad : m <= n
    BY LeastOf
  <2>2. PICK s \in SUBSET S : Cardinality(s) = m /\ ~Splits(s)
    BY <2>1
  <2>3. PICK x \in s : g[s] # F[x] + g[s \ {x}]
    BY <2>2
  <2> DEFINE y == OneOf(s)
  <2>4. y \in s /\ y \in S /\ x \in S
    BY <2>3 DEF OneOf
  <2>5. g[s] = F[y] + g[s \ {y}]
    BY <2>3 DEF Sums
  <2>6. x # y
    BY <2>3, <2>5
  <2>7. ASSUME NEW z \in s  PROVE Splits(s \ {z})
    <3>1. s \ {z} \in SUBSET S /\ Cardinality(s \ {z}) = m - 1
      BY <1>1, <2>2, FS_RemoveElement
    <3>2. m - 1 \in Nat
      BY <1>1, <3>1
    <3>3. m - 1 \notin Bad
      <4>1. ~(m <= m - 1)
        BY <3>2
      <4> HIDE DEF Bad
      <4> QED BY <2>1, <4>1
    <3> HIDE DEF Splits
    <3> QED BY <3>1, <3>2, <3>3
  <2> HIDE DEF y
  <2>8. g[s \ {y}] = F[x] + g[s \ {x, y}]
    <3>1. (s \ {y}) \ {x} = s \ {x, y} /\ x \in s \ {y}
      BY <2>6
    <3> QED BY <2>4, <2>7, <3>1
  <2>9. g[s \ {x}] = F[y] + g[s \ {x, y}]
    <3>1. (s \ {x}) \ {y} = s \ {x, y} /\ y \in s \ {x}
      BY <2>4, <2>6
    <3> QED BY <2>7, <3>1
  <2>10. F[x] \in Int /\ F[y] \in Int /\ g[s \ {x, y}] \in Int
    BY <1>2, <2>4
  <2> QED BY <2>3, <2>5, <2>8, <2>9, <2>10
<1>4. Splits(S)
  <2> HIDE DEF Splits
  <2> QED BY <1>1, <1>3
<1> QED BY <1>4

\* A function with one more value.
LEMMA SumOfMore ==
  ASSUME NEW f, IsFiniteSet(DOMAIN f), \A x \in DOMAIN f : f[x] \in Int, NEW a \in DOMAIN f,
         NEW h, DOMAIN h = DOMAIN f \ {a}, \A x \in DOMAIN h : h[x] = f[x]
  PROVE  SumFunction(f) = f[a] + SumFunction(h)
<1> DEFINE S == DOMAIN f
           T == S \ {a}
<1>1. PICK g : Sums(f, g, SUBSET S) /\ SumFunction(f) = g[S]
  BY SumIs
<1>2. IsFiniteSet(T)
  BY FS_Subset
<1>3. PICK k : Sums(h, k, SUBSET T) /\ SumFunction(h) = k[T]
  BY <1>2, SumIs
<1>4. Sums(f, g, SUBSET T)
  BY <1>1 DEF Sums
<1>5. g[T] = k[T]
  BY <1>2, <1>3, <1>4, SumsAreOne
<1>6. g[S] = f[a] + g[T]
  BY <1>1, SumsSplit
<1> QED BY <1>1, <1>3, <1>5, <1>6

-----------------------------------------------------------------------------
(* What the API builds of what it was given, and of what it read.          *)

LEMMA OrDefaultIs ==
  ASSUME NEW S, NEW default, NEW value \in Maybe(S)
  PROVE  OrDefault(value, default) \in S \cup {default}
BY DEF Maybe, OrDefault

LEMMA DatesSent ==
  ASSUME NEW date \in Dates
  PROVE  AddTime(date) \in DateTimes /\ GetEarliestDateFromTodayAnd(date) \in DateTimes
<1>1. \A day \in Dates : AddTime(day) \in DateTimes
  BY DEF AddTime, DateTimes
<1>2. Earliest(Today, date) \in Dates
  BY AcbsHttpAssumption DEF Earliest
<1> QED BY <1>1, <1>2 DEF GetEarliestDateFromTodayAnd

LEMMA DatesRead ==
  ASSUME NEW time \in DateTimes
  PROVE  /\ time # None
         /\ RemoveTime(time) \in Dates
         /\ RemoveTimeIfExists(time) \in Dates
<1>1. PICK date \in Dates : time = <<date, "T00:00:00Z">>
  BY DEF DateTimes
<1>2. time # None /\ RemoveTime(time) = date
  BY <1>1, AcbsHttpAssumption DEF RemoveTime
<1> QED BY <1>2 DEF RemoveTimeIfExists

LEMMA DatesIfExist ==
  /\ \A date \in Maybe(Dates) : AddTimeIfExists(date) \in Maybe(DateTimes)
  /\ \A time \in Maybe(DateTimes) : RemoveTimeIfExists(time) \in Maybe(Dates)
<1>1. \A date \in Maybe(Dates) : AddTimeIfExists(date) \in Maybe(DateTimes)
  BY DatesSent DEF Maybe, AddTimeIfExists
<1>2. \A time \in Maybe(DateTimes) : RemoveTimeIfExists(time) \in Maybe(Dates)
  BY DatesRead DEF Maybe, RemoveTimeIfExists
<1> QED BY <1>1, <1>2

LEMMA PartySent ==
  ASSUME NEW party \in CreatePartyRequestItem
  PROVE  BuildAcbsCreatePartyRequest(party) \in AcbsCreatePartyRequestDto
<1>1. /\ AddTime(party.officerRiskDate) \in DateTimes
      /\ OrDefault(party.name2, "") \in Texts \cup {""}
      /\ OrDefault(party.name3, "") \in Texts \cup {""}
      /\ OrDefault(party.countryCode, PARTY.countryCode) \in Texts \cup {PARTY.countryCode}
  BY DatesSent, OrDefaultIs DEF CreatePartyRequestItem
<1> QED BY <1>1 DEF CreatePartyRequestItem, BuildAcbsCreatePartyRequest, AcbsCreatePartyRequestDto

LEMMA PartyRead ==
  ASSUME NEW party \in AcbsCreatePartyRequestDto
  PROVE  PartyOfAcbs(party) \in GetPartiesBySearchTextResponseItem
BY DatesRead DEF AcbsCreatePartyRequestDto, PartyOfAcbs, GetPartiesBySearchTextResponseItem,
                 GetPartyByIdentifierResponseDto

LEMMA RatingSent ==
  ASSUME NEW partyIdentifier \in PartyIdentifiers, NEW ratedDate \in Dates,
         NEW assignedRatingCode \in Range(ASSIGNED_RATING_CODES)
  PROVE  BuildAcbsCreateExternalRating(partyIdentifier, assignedRatingCode, ratedDate)
           \in AcbsCreatePartyExternalRatingRequestDto
BY DatesSent DEF BuildAcbsCreateExternalRating, AcbsCreatePartyExternalRatingRequestDto,
                 PARTY_EXTERNAL_RATING

LEMMA RatingRead ==
  ASSUME NEW rating \in AcbsCreatePartyExternalRatingRequestDto
  PROVE  RatingOfAcbs(rating) \in GetPartyExternalRatingsResponseItem
BY DEF RatingOfAcbs, AcbsCreatePartyExternalRatingRequestDto, GetPartyExternalRatingsResponseItem

LEMMA DealSent ==
  ASSUME NEW deal \in CreateDealRequestItem
  PROVE  BuildAcbsRequestBodyToCreateDeal(deal) \in AcbsCreateDealDto
<1>1. /\ GetEarliestDateFromTodayAnd(deal.guaranteeCommencementDate) \in DateTimes
      /\ RoundTo2DecimalPlaces(deal.dealValue) \in Amounts
      /\ AddTime(Today) \in DateTimes
  BY DatesSent, AcbsHttpAssumption DEF CreateDealRequestItem
<1> QED BY <1>1 DEF CreateDealRequestItem, BuildAcbsRequestBodyToCreateDeal, AcbsCreateDealDto

LEMMA DealRead ==
  ASSUME NEW deal \in AcbsCreateDealDto, NEW name \in {None} \cup Texts
  PROVE  DealOfAcbs(deal, name) \in GetDealByIdentifierResponse
<1>1. OrDefault(name, "") \in Texts \cup {""} /\ DEAL.memoLimitAmount \in Amounts
  BY OrDefaultIs, AcbsHttpAssumption DEF Maybe, DEAL
<1> QED BY <1>1, DatesRead DEF AcbsCreateDealDto, DealOfAcbs, GetDealByIdentifierResponse

LEMMA BorrowingRestrictionSent ==
  BuildBorrowingRestrictionToUpdateInAcbs \in AcbsUpdateDealBorrowingRestrictionRequest
BY DEF BuildBorrowingRestrictionToUpdateInAcbs, AcbsUpdateDealBorrowingRestrictionRequest,
       DEAL_BORROWING_RESTRICTION

LEMMA DealGuaranteeSent ==
  ASSUME NEW guarantee \in CreateDealGuaranteeRequestItem
  PROVE  DealGuaranteeToCreateInAcbs(guarantee) \in AcbsCreateDealGuaranteeDto
<1>1. /\ GetEarliestDateFromTodayAnd(guarantee.effectiveDate) \in DateTimes
      /\ AddTime(guarantee.guaranteeExpiryDate) \in DateTimes
      /\ RoundTo2DecimalPlaces(guarantee.maximumLiability) \in Amounts
      /\ OrDefault(guarantee.guarantorParty, DEAL_GUARANTEE.guarantorParty)
           \in Texts \cup {DEAL_GUARANTEE.guarantorParty}
  BY DatesSent, OrDefaultIs, AcbsHttpAssumption DEF CreateDealGuaranteeRequestItem
<1> QED BY <1>1 DEF CreateDealGuaranteeRequestItem, DealGuaranteeToCreateInAcbs,
                    AcbsCreateDealGuaranteeDto

LEMMA DealGuaranteeRead ==
  ASSUME NEW guarantee \in AcbsCreateDealGuaranteeDto, NEW dealIdentifier \in Identifiers
  PROVE  DealGuaranteeOfAcbs(dealIdentifier, guarantee) \in GetDealGuaranteeResponseItem
BY DatesRead DEF AcbsCreateDealGuaranteeDto, DealGuaranteeOfAcbs, GetDealGuaranteeResponseItem

LEMMA LenderTypeCodes ==
  LENDER_TYPE_CODES.FIRST_LEVEL_OBLIGOR \in Range(LENDER_TYPE_CODES)
  /\ LENDER_TYPE_CODES.ECGD \in Range(LENDER_TYPE_CODES)
BY DEF LENDER_TYPE_CODES, Range

LEMMA DealInvestorSent ==
  ASSUME NEW investor \in CreateDealInvestorRequestItem
  PROVE  DealInvestorToCreateInAcbs(investor) \in AcbsCreateDealInvestorRequest
<1> DEFINE expiry == IF investor.expiryDate = None THEN DEAL_INVESTOR.expirationDate
                     ELSE AddTime(investor.expiryDate)
<1>1. /\ GetEarliestDateFromTodayAnd(investor.effectiveDate) \in DateTimes
      /\ OrDefault(investor.dealStatus, DEAL_INVESTOR.dealStatusCode)
           \in Texts \cup {DEAL_INVESTOR.dealStatusCode}
  BY DatesSent, OrDefaultIs DEF CreateDealInvestorRequestItem
<1>2. expiry \in Maybe(DateTimes)
  BY DatesSent DEF CreateDealInvestorRequestItem, Maybe, DEAL_INVESTOR
<1>3. OrDefault(investor.lenderType, DEAL_INVESTOR.lenderTypeCode) \in Range(LENDER_TYPE_CODES)
  <2>1. investor.lenderType \in Maybe(Range(LENDER_TYPE_CODES))
    BY DEF CreateDealInvestorRequestItem
  <2>2. DEAL_INVESTOR.lenderTypeCode = LENDER_TYPE_CODES.ECGD
    BY DEF DEAL_INVESTOR, LENDER_TYPE_CODES
  <2> QED BY <2>1, <2>2, OrDefaultIs, LenderTypeCodes
<1> HIDE DEF expiry
<1> QED BY <1>1, <1>2, <1>3 DEF CreateDealInvestorRequestItem, DealInvestorToCreateInAcbs,
                                AcbsCreateDealInvestorRequest, expiry

LEMMA DealInvestorRead ==
  ASSUME NEW investor \in AcbsCreateDealInvestorRequest, NEW dealIdentifier \in Identifiers
  PROVE  DealInvestorOfAcbs(dealIdentifier, investor) \in GetDealInvestorResponseDto
<1>1. /\ RemoveTimeIfExists(investor.EffectiveDate) \in Dates
      /\ RemoveTimeIfExists(investor.ExpirationDate) \in Maybe(Dates)
      /\ None \in Maybe(Amounts)
  BY DatesRead, DatesIfExist DEF AcbsCreateDealInvestorRequest, Maybe
<1> QED BY <1>1 DEF AcbsCreateDealInvestorRequest, DealInvestorOfAcbs, GetDealInvestorResponseDto

LEMMA CovenantSent ==
  ASSUME NEW covenant \in CreateFacilityCovenantRequestItem,
         NEW facilityTypeCode \in Range(FACILITY_TYPE_IDS), NEW limitKeyValue \in Texts
  PROVE  CovenantToCreateInAcbs(facilityTypeCode, limitKeyValue, covenant)
           \in AcbsCreateFacilityCovenantRequestDto
<1>1. CovenantName(covenant.covenantType, facilityTypeCode)
        \in COVENANT_NAMES \cup Range(FACILITY_TYPE_IDS)
  BY DEF CovenantName, COVENANT_NAMES
<1>2. AddTime(covenant.effectiveDate) \in DateTimes /\ AddTime(covenant.guaranteeExpiryDate) \in DateTimes
  BY DatesSent DEF CreateFacilityCovenantRequestItem
<1> QED BY <1>1, <1>2 DEF CreateFacilityCovenantRequestItem, CovenantToCreateInAcbs,
                          AcbsCreateFacilityCovenantRequestDto

LEMMA CovenantRead ==
  ASSUME NEW covenant \in AcbsCreateFacilityCovenantRequestDto, NEW facilityIdentifier \in Identifiers
  PROVE  CovenantOfAcbs(facilityIdentifier, covenant) \in GetFacilityCovenantsResponseDto
BY DatesRead DEF AcbsCreateFacilityCovenantRequestDto, CovenantOfAcbs,
                 GetFacilityCovenantsResponseDto

LEMMA GivenIs ==
  ASSUME NEW S, NEW value \in Maybe(S), NEW old \in S
  PROVE  Given(value, old) \in S
BY OrDefaultIs DEF Given

LEMMA CovenantPut ==
  ASSUME NEW covenant \in AcbsCreateFacilityCovenantRequestDto,
         NEW request \in UpdateFacilityCovenantsRequestDto
  PROVE  CovenantFieldsToUpdate(request, covenant) \in AcbsCreateFacilityCovenantRequestDto
<1> DEFINE date == Given(AddTimeIfExists(request.expirationDate), covenant.ExpirationDate)
           amount == Given(request.targetAmount, covenant.TargetAmount)
<1>1. date \in DateTimes
  BY GivenIs, DatesIfExist DEF UpdateFacilityCovenantsRequestDto, AcbsCreateFacilityCovenantRequestDto
<1>2. amount \in Amounts
  BY GivenIs DEF UpdateFacilityCovenantsRequestDto, AcbsCreateFacilityCovenantRequestDto
<1>3. CovenantFieldsToUpdate(request, covenant) =
        [covenant EXCEPT !.ExpirationDate = date, !.TargetAmount = amount]
  BY DEF CovenantFieldsToUpdate
<1> HIDE DEF date, amount
<1> QED BY <1>1, <1>2, <1>3 DEF AcbsCreateFacilityCovenantRequestDto

LEMMA FacilityGuaranteeSent ==
  ASSUME NEW guarantee \in CreateFacilityGuaranteeRequestItem
  PROVE  GuaranteeToCreateInAcbs(guarantee) \in AcbsBaseFacilityGuarantee
<1>1. /\ GetEarliestDateFromTodayAnd(guarantee.effectiveDate) \in DateTimes
      /\ AddTime(guarantee.guaranteeExpiryDate) \in DateTimes
      /\ RoundTo2DecimalPlaces(guarantee.maximumLiability) \in Amounts
  BY DatesSent, AcbsHttpAssumption DEF CreateFacilityGuaranteeRequestItem
<1> QED BY <1>1 DEF CreateFacilityGuaranteeRequestItem, GuaranteeToCreateInAcbs,
                    AcbsBaseFacilityGuarantee

LEMMA FacilityGuaranteeRead ==
  ASSUME NEW guarantee \in AcbsBaseFacilityGuarantee, NEW facilityIdentifier \in Identifiers
  PROVE  GuaranteeOfAcbs(facilityIdentifier, guarantee) \in GetFacilityGuaranteesResponseItem
BY DatesRead DEF AcbsBaseFacilityGuarantee, GuaranteeOfAcbs, GetFacilityGuaranteesResponseItem

LEMMA FacilityGuaranteePut ==
  ASSUME NEW guarantee \in AcbsBaseFacilityGuarantee,
         NEW request \in UpdateFacilityGuaranteesRequestDto
  PROVE  GuaranteeFieldsToUpdate(request, guarantee) \in AcbsBaseFacilityGuarantee
<1> DEFINE date == Given(AddTimeIfExists(request.expirationDate), guarantee.ExpirationDate)
           amount == Given(request.guaranteedLimit, guarantee.GuaranteedLimit)
<1>1. date \in DateTimes
  BY GivenIs, DatesIfExist DEF UpdateFacilityGuaranteesRequestDto, AcbsBaseFacilityGuarantee
<1>2. amount \in Amounts
  BY GivenIs DEF UpdateFacilityGuaranteesRequestDto, AcbsBaseFacilityGuarantee
<1>3. GuaranteeFieldsToUpdate(request, guarantee) =
        [guarantee EXCEPT !.ExpirationDate = date, !.GuaranteedLimit = amount]
  BY DEF GuaranteeFieldsToUpdate
<1> HIDE DEF date, amount
<1> QED BY <1>1, <1>2, <1>3 DEF AcbsBaseFacilityGuarantee

LEMMA FacilityPartySent ==
  ASSUME NEW investor \in CreateFacilityInvestorRequestItem
  PROVE  FacilityPartyToCreateInAcbs(investor) \in AcbsCreateFacilityPartyDto
<1>1. /\ AddTime(investor.effectiveDate) \in DateTimes
      /\ AddTime(investor.guaranteeExpiryDate) \in DateTimes
  BY DatesSent DEF CreateFacilityInvestorRequestItem
<1>2. OrDefault(investor.lenderType, FACILITY_INVESTOR.lenderTypeCode) \in Range(LENDER_TYPE_CODES)
  BY OrDefaultIs, LenderTypeCodes DEF CreateFacilityInvestorRequestItem, FACILITY_INVESTOR
<1> QED BY <1>1, <1>2 DEF CreateFacilityInvestorRequestItem, FacilityPartyToCreateInAcbs,
                          AcbsCreateFacilityPartyDto

LEMMA FacilityPartyRead ==
  ASSUME NEW investor \in AcbsCreateFacilityPartyDto, NEW facilityIdentifier \in Identifiers
  PROVE  FacilityInvestorOfAcbs(facilityIdentifier, investor) \in GetFacilityInvestorResponseItem
BY DatesRead DEF AcbsCreateFacilityPartyDto, FacilityInvestorOfAcbs, GetFacilityInvestorResponseItem

LEMMA FacilityCodes ==
  /\ FACILITY_STATUSES.PENDING \in Range(FACILITY_STATUSES)
  /\ FACILITY_STATUSES.ACTIVE \in Range(FACILITY_STATUSES)
BY DEF FACILITY_STATUSES, Range

LEMMA StageValues ==
  ASSUME NEW facility, IsBaseFacilityRequestItem(facility)
  PROVE  LET derived == FacilityStageDerivedValues(facility.facilityStageCode, facility.issueDate)
         IN  /\ derived.CompBalPctReserve \in {75, 100}
             /\ derived.UserDefinedDate1 \in Maybe(DateTimes)
             /\ derived.IsUserDefinedDate1Zero \in BOOLEAN
<1>1. facility.issueDate \in Maybe(Dates)
  BY DEF IsBaseFacilityRequestItem, Maybe
<1>2. AddTimeIfExists(facility.issueDate) \in Maybe(DateTimes) /\ None \in Maybe(DateTimes)
  BY <1>1, DatesIfExist DEF Maybe
<1> QED BY <1>2 DEF FacilityStageDerivedValues, FACILITY

LEMMA ConversionFactor ==
  ASSUME NEW facility, IsBaseFacilityRequestItem(facility)
  PROVE  CapitalConversionFactorCode(facility) \in Texts \cup {"1", "5"}
<1>1. facility.capitalConversionFactorCode \in Texts \cup {None}
  BY DEF IsBaseFacilityRequestItem, Maybe
<1> QED BY <1>1 DEF CapitalConversionFactorCode, FACILITY

LEMMA BaseFacilitySent ==
  ASSUME NEW facility, IsBaseFacilityRequestItem(facility),
         NEW facilityIdentifier \in Identifiers
  PROVE  LET base == BuildBaseAcbsFacilityRequest(facility, facilityIdentifier)
         IN  IsAcbsBaseFacilityRequest(base) /\ base.LimitAmount \in Int
<1> DEFINE derived == FacilityStageDerivedValues(facility.facilityStageCode, facility.issueDate)
           base == BuildBaseAcbsFacilityRequest(facility, facilityIdentifier)
<1>1. /\ derived.CompBalPctReserve \in {75, 100}
      /\ derived.UserDefinedDate1 \in Maybe(DateTimes)
      /\ derived.IsUserDefinedDate1Zero \in BOOLEAN
      /\ CapitalConversionFactorCode(facility) \in Texts \cup {"1", "5"}
  BY StageValues, ConversionFactor
<1>2. /\ GetEarliestDateFromTodayAnd(facility.effectiveDate) \in DateTimes
      /\ AddTime(Today) \in DateTimes
      /\ AddTime(facility.guaranteeExpiryDate) \in DateTimes
      /\ AddTime(facility.nextQuarterEndDate) \in DateTimes
  BY DatesSent, AcbsHttpAssumption DEF IsBaseFacilityRequestItem
<1>3. OrDefault(facility.probabilityOfDefault, FACILITY.probabilityofDefault)
        \in Amounts \cup {FACILITY.probabilityofDefault}
  BY OrDefaultIs DEF IsBaseFacilityRequestItem
<1>4. facility.maximumLiability \in Int
  <2>1. facility.maximumLiability \in Amounts
    BY DEF IsBaseFacilityRequestItem
  <2>2. Amounts \subseteq Nat
    BY AcbsHttpAssumption
  <2>3. facility.maximumLiability \in Nat
    BY <2>1, <2>2
  <2> HIDE <2>1, <2>2
  <2> QED BY <2>3
<1> HIDE DEF derived
<1>5. /\ base.CompBalPctReserve \in {75, 100}
      /\ base.UserDefinedDate1 \in Maybe(DateTimes)
      /\ base.IsUserDefinedDate1Zero \in BOOLEAN
      /\ base.CapitalConversionFactorCode \in Texts \cup {"1", "5"}
      /\ base.LimitAmount \in Int
      /\ base.ProbabilityofDefault \in Amounts \cup {FACILITY.probabilityofDefault}
      /\ base.FacilityIdentifier \in Identifiers
  BY <1>1, <1>3, <1>4 DEF BuildBaseAcbsFacilityRequest, derived
<1>6. {base.OriginalEffectiveDate, base.BookingDate, base.ExpirationDate, base.OfficerRiskDate,
       base.CreditReviewRiskDate, base.UserDefinedDate2} \subseteq DateTimes
  BY <1>2 DEF BuildBaseAcbsFacilityRequest
<1>7. /\ base.DealIdentifier \in Identifiers
      /\ base.FacilityTypeCode \in Range(FACILITY_TYPE_IDS)
      /\ base.CurrencyCode \in Currencies
      /\ base.FacilityUserDefinedList1Code \in Range(FACILITY_STAGES)
      /\ {base.UserDefinedAmount3, base.CompBalPctAmount} \subseteq Amounts
  BY DEF BuildBaseAcbsFacilityRequest, IsBaseFacilityRequestItem
<1>8. {base.DealBorrowerPartyIdentifier, base.BorrowerPartyIdentifier,
       base.ExternalReferenceIdentifier, base.IndustryClassificationCode,
       base.AgentBankPartyIdentifier, base.RiskCountryCode, base.CreditReviewRiskTypeCode,
       base.OfficerRiskRatingTypeCode, base.FacilityReviewFrequencyTypeCode,
       base.FacilityUserDefinedList6Code} \subseteq Texts
  BY DEF BuildBaseAcbsFacilityRequest, IsBaseFacilityRequestItem
<1> HIDE DEF base
<1>9. IsAcbsBaseFacilityRequest(base)
  BY <1>5, <1>6, <1>7, <1>8 DEF IsAcbsBaseFacilityRequest
<1> QED BY <1>5, <1>9 DEF base

LEMMA BaseFieldsKept ==
  ASSUME NEW old, IsAcbsBaseFacilityRequest(old), NEW new,
         \A field \in AcbsBaseFields : new[field] = old[field]
  PROVE  IsAcbsBaseFacilityRequest(new)
<1>1. /\ new.FacilityIdentifier = old.FacilityIdentifier
      /\ new.OriginalEffectiveDate = old.OriginalEffectiveDate
      /\ new.BookingDate = old.BookingDate
      /\ new.ExpirationDate = old.ExpirationDate
      /\ new.OfficerRiskDate = old.OfficerRiskDate
      /\ new.CreditReviewRiskDate = old.CreditReviewRiskDate
      /\ new.UserDefinedDate2 = old.UserDefinedDate2
      /\ new.UserDefinedDate1 = old.UserDefinedDate1
      /\ new.IsUserDefinedDate1Zero = old.IsUserDefinedDate1Zero
      /\ new.CompBalPctReserve = old.CompBalPctReserve
      /\ new.DealIdentifier = old.DealIdentifier
      /\ new.FacilityTypeCode = old.FacilityTypeCode
      /\ new.CurrencyCode = old.CurrencyCode
      /\ new.FacilityUserDefinedList1Code = old.FacilityUserDefinedList1Code
  BY DEF AcbsBaseFields
<1>2. /\ new.UserDefinedAmount3 = old.UserDefinedAmount3
      /\ new.CompBalPctAmount = old.CompBalPctAmount
      /\ new.DealBorrowerPartyIdentifier = old.DealBorrowerPartyIdentifier
      /\ new.BorrowerPartyIdentifier = old.BorrowerPartyIdentifier
      /\ new.ExternalReferenceIdentifier = old.ExternalReferenceIdentifier
      /\ new.IndustryClassificationCode = old.IndustryClassificationCode
      /\ new.AgentBankPartyIdentifier = old.AgentBankPartyIdentifier
      /\ new.RiskCountryCode = old.RiskCountryCode
      /\ new.CreditReviewRiskTypeCode = old.CreditReviewRiskTypeCode
      /\ new.OfficerRiskRatingTypeCode = old.OfficerRiskRatingTypeCode
      /\ new.FacilityReviewFrequencyTypeCode = old.FacilityReviewFrequencyTypeCode
      /\ new.FacilityUserDefinedList6Code = old.FacilityUserDefinedList6Code
      /\ new.CapitalConversionFactorCode = old.CapitalConversionFactorCode
      /\ new.ProbabilityofDefault = old.ProbabilityofDefault
  BY DEF AcbsBaseFields
<1> QED BY <1>1, <1>2 DEF IsAcbsBaseFacilityRequest

LEMMA FacilityCreated ==
  ASSUME NEW item, IsBaseFacilityRequestItemWithFacilityIdentifier(item)
  PROVE  IsAcbsFacility([FacilityIdentifier |-> item.facilityIdentifier,
                         FacilityStatusCode |-> FACILITY_STATUSES.PENDING]
                        ++ BuildCreateAcbsFacilityRequest(item))
<1> DEFINE base == BuildBaseAcbsFacilityRequest(item, item.facilityIdentifier)
           initial == [FacilityInitialStatusCode |-> FACILITY.facilityInitialStatusCode]
           request == initial ++ base
           kept == [FacilityIdentifier |-> item.facilityIdentifier,
                    FacilityStatusCode |-> FACILITY_STATUSES.PENDING]
           facility == kept ++ request
<1>1. IsAcbsBaseFacilityRequest(base) /\ base.LimitAmount \in Int
  BY BaseFacilitySent DEF IsBaseFacilityRequestItemWithFacilityIdentifier
<1>2. AcbsBaseFields \cup {"LimitAmount"} \subseteq DOMAIN base
      /\ base.FacilityIdentifier = item.facilityIdentifier
  BY DEF BuildBaseAcbsFacilityRequest, AcbsBaseFields
<1>3. /\ DOMAIN initial = {"FacilityInitialStatusCode"}
      /\ initial.FacilityInitialStatusCode = FACILITY.facilityInitialStatusCode
      /\ DOMAIN kept = {"FacilityIdentifier", "FacilityStatusCode"}
      /\ kept.FacilityIdentifier = item.facilityIdentifier
      /\ kept.FacilityStatusCode = FACILITY_STATUSES.PENDING
  OBVIOUS
<1> HIDE DEF base, initial, kept
<1>4. /\ DOMAIN request = {"FacilityInitialStatusCode"} \cup DOMAIN base
      /\ request.FacilityInitialStatusCode = FACILITY.facilityInitialStatusCode
      /\ \A field \in DOMAIN base \ {"FacilityInitialStatusCode"} : request[field] = base[field]
  <2>1. /\ DOMAIN request = DOMAIN initial \cup DOMAIN base
        /\ \A x \in DOMAIN initial : request[x] = initial[x]
        /\ \A x \in DOMAIN base \ DOMAIN initial : request[x] = base[x]
    BY Merged
  <2> HIDE DEF request
  <2> QED BY <1>3, <2>1
<1> HIDE DEF request
<1>5. /\ DOMAIN facility = {"FacilityIdentifier", "FacilityStatusCode"} \cup DOMAIN request
      /\ facility.FacilityIdentifier = item.facilityIdentifier
      /\ facility.FacilityStatusCode = FACILITY_STATUSES.PENDING
      /\ \A field \in DOMAIN request \ {"FacilityIdentifier", "FacilityStatusCode"} :
           facility[field] = request[field]
  <2>1. /\ DOMAIN facility = DOMAIN kept \cup DOMAIN request
        /\ \A x \in DOMAIN kept : facility[x] = kept[x]
        /\ \A x \in DOMAIN request \ DOMAIN kept : facility[x] = request[x]
    BY Merged
  <2> HIDE DEF facility
  <2> QED BY <1>3, <2>1
<1> HIDE DEF facility
<1>6. /\ "FacilityInitialStatusCode" \notin AcbsBaseFields
      /\ "FacilityStatusCode" \notin AcbsBaseFields
  BY DEF AcbsBaseFields
<1>7. \A field \in AcbsBaseFields : facility[field] = base[field]
  BY <1>2, <1>4, <1>5, <1>6
<1>8. IsAcbsBaseFacilityRequest(facility)
  BY <1>1, <1>7, BaseFieldsKept
<1>9. /\ AcbsBaseFields \cup {"LimitAmount", "FacilityInitialStatusCode"} \subseteq DOMAIN facility
      /\ facility.LimitAmount \in Int
      /\ facility.FacilityInitialStatusCode = FACILITY.facilityInitialStatusCode
  BY <1>1, <1>2, <1>4, <1>5
<1>10. IsAcbsFacility(facility)
  BY <1>5, <1>8, <1>9, FacilityCodes DEF IsAcbsFacility
<1> QED BY <1>10 DEF facility, kept, request, initial, base, BuildCreateAcbsFacilityRequest

\* What a facility is put back as: what was read, under what was asked for,
\* under what ACBS keeps of it.
LEMMA FacilityUpdated ==
  ASSUME NEW item, IsBaseFacilityRequestItem(item), NEW facilityIdentifier \in Identifiers,
         NEW existing, IsAcbsFacility(existing), NEW code \in Range(FACILITY_STATUSES)
  PROVE  IsAcbsFacility([FacilityIdentifier |-> facilityIdentifier, FacilityStatusCode |-> code]
                        ++ BuildAcbsUpdateFacilityRequest(item, facilityIdentifier, existing))
<1> DEFINE built == BuildBaseAcbsFacilityRequest(item, facilityIdentifier)
           date == AddTime(item.effectiveDate)
           base == [built EXCEPT !.OfficerRiskDate = date, !.CreditReviewRiskDate = date]
           old == [field \in DOMAIN existing \ {"FacilityStatusCode"} |-> existing[field]]
           request == base ++ old
           kept == [FacilityIdentifier |-> facilityIdentifier, FacilityStatusCode |-> code]
           facility == kept ++ request
<1>1. IsAcbsBaseFacilityRequest(built) /\ built.LimitAmount \in Int
  BY BaseFacilitySent
<1>2. /\ AcbsBaseFields \cup {"LimitAmount"} \subseteq DOMAIN built
      /\ "FacilityInitialStatusCode" \notin DOMAIN built
      /\ built.FacilityIdentifier = facilityIdentifier
  BY DEF BuildBaseAcbsFacilityRequest, AcbsBaseFields
<1>3. date \in DateTimes
  BY DatesSent DEF IsBaseFacilityRequestItem
<1> HIDE DEF built, date
<1>4. /\ DOMAIN base = DOMAIN built
      /\ base.OfficerRiskDate \in DateTimes /\ base.CreditReviewRiskDate \in DateTimes
      /\ \A field \in DOMAIN built \ {"OfficerRiskDate", "CreditReviewRiskDate"} :
           base[field] = built[field]
  <2>1. "OfficerRiskDate" \in DOMAIN built /\ "CreditReviewRiskDate" \in DOMAIN built
    BY <1>2 DEF AcbsBaseFields
  <2> QED BY <1>3, <2>1
<1> HIDE DEF base
<1>5. IsAcbsBaseFacilityRequest(base)
  <2>1. /\ base.FacilityIdentifier = built.FacilityIdentifier
        /\ base.OriginalEffectiveDate = built.OriginalEffectiveDate
        /\ base.BookingDate = built.BookingDate
        /\ base.ExpirationDate = built.ExpirationDate
        /\ base.UserDefinedDate2 = built.UserDefinedDate2
        /\ base.UserDefinedDate1 = built.UserDefinedDate1
        /\ base.IsUserDefinedDate1Zero = built.IsUserDefinedDate1Zero
        /\ base.CompBalPctReserve = built.CompBalPctReserve
        /\ base.DealIdentifier = built.DealIdentifier
        /\ base.FacilityTypeCode = built.FacilityTypeCode
        /\ base.CurrencyCode = built.CurrencyCode
        /\ base.FacilityUserDefinedList1Code = built.FacilityUserDefinedList1Code
        /\ base.UserDefinedAmount3 = built.UserDefinedAmount3
    BY <1>2, <1>4 DEF AcbsBaseFields
  <2>2. /\ base.CompBalPctAmount = built.CompBalPctAmount
        /\ base.DealBorrowerPartyIdentifier = built.DealBorrowerPartyIdentifier
        /\ base.BorrowerPartyIdentifier = built.BorrowerPartyIdentifier
        /\ base.ExternalReferenceIdentifier = built.ExternalReferenceIdentifier
        /\ base.IndustryClassificationCode = built.IndustryClassificationCode
        /\ base.AgentBankPartyIdentifier = built.AgentBankPartyIdentifier
        /\ base.RiskCountryCode = built.RiskCountryCode
        /\ base.CreditReviewRiskTypeCode = built.CreditReviewRiskTypeCode
        /\ base.OfficerRiskRatingTypeCode = built.OfficerRiskRatingTypeCode
        /\ base.FacilityReviewFrequencyTypeCode = built.FacilityReviewFrequencyTypeCode
        /\ base.FacilityUserDefinedList6Code = built.FacilityUserDefinedList6Code
        /\ base.CapitalConversionFactorCode = built.CapitalConversionFactorCode
        /\ base.ProbabilityofDefault = built.ProbabilityofDefault
    BY <1>2, <1>4 DEF AcbsBaseFields
  <2> QED BY <1>1, <1>4, <2>1, <2>2 DEF IsAcbsBaseFacilityRequest
<1>6. /\ AcbsBaseFields \cup {"LimitAmount"} \subseteq DOMAIN base
      /\ "FacilityInitialStatusCode" \notin DOMAIN base
      /\ base.FacilityIdentifier = facilityIdentifier
      /\ base.LimitAmount \in Int
  <2>1. base.LimitAmount = built.LimitAmount /\ base.FacilityIdentifier = built.FacilityIdentifier
    BY <1>2, <1>4 DEF AcbsBaseFields
  <2> QED BY <1>1, <1>2, <1>4, <2>1
<1>7. /\ "FacilityInitialStatusCode" \in DOMAIN old
      /\ old.FacilityInitialStatusCode = FACILITY.facilityInitialStatusCode
  BY DEF IsAcbsFacility
<1>8. /\ DOMAIN kept = {"FacilityIdentifier", "FacilityStatusCode"}
      /\ kept.FacilityIdentifier = facilityIdentifier
      /\ kept.FacilityStatusCode = code
  OBVIOUS
<1> HIDE DEF old, kept
<1>9. /\ DOMAIN request = DOMAIN base \cup DOMAIN old
      /\ \A field \in DOMAIN base : request[field] = base[field]
      /\ request.FacilityInitialStatusCode = FACILITY.facilityInitialStatusCode
  <2>1. /\ DOMAIN request = DOMAIN base \cup DOMAIN old
        /\ \A x \in DOMAIN base : request[x] = base[x]
        /\ \A x \in DOMAIN old \ DOMAIN base : request[x] = old[x]
    BY Merged
  <2> HIDE DEF request
  <2> QED BY <1>6, <1>7, <2>1
<1> HIDE DEF request
<1>10. /\ DOMAIN facility = {"FacilityIdentifier", "FacilityStatusCode"} \cup DOMAIN request
       /\ facility.FacilityIdentifier = facilityIdentifier
       /\ facility.FacilityStatusCode = code
       /\ \A field \in DOMAIN request \ {"FacilityIdentifier", "FacilityStatusCode"} :
            facility[field] = request[field]
  <2>1. /\ DOMAIN facility = DOMAIN kept \cup DOMAIN request
        /\ \A x \in DOMAIN kept : facility[x] = kept[x]
        /\ \A x \in DOMAIN request \ DOMAIN kept : facility[x] = request[x]
    BY Merged
  <2> HIDE DEF facility
  <2> QED BY <1>8, <2>1
<1> HIDE DEF facility
<1>11. "FacilityStatusCode" \notin AcbsBaseFields
  BY DEF AcbsBaseFields
<1>12. \A field \in AcbsBaseFields : facility[field] = base[field]
  BY <1>6, <1>9, <1>10, <1>11
<1>13. IsAcbsBaseFacilityRequest(facility)
  BY <1>5, <1>12, BaseFieldsKept
<1>14. /\ AcbsBaseFields \cup {"LimitAmount", "FacilityInitialStatusCode"} \subseteq DOMAIN facility
       /\ facility.LimitAmount \in Int
       /\ facility.FacilityInitialStatusCode = FACILITY.facilityInitialStatusCode
  BY <1>6, <1>7, <1>9, <1>10
<1>15. IsAcbsFacility(facility)
  BY <1>10, <1>13, <1>14 DEF IsAcbsFacility
<1> QED BY <1>15 DEF facility, kept, request, old, base, date, built,
                     BuildAcbsUpdateFacilityRequest,
                     AcbsFacilityRequestFieldsForIssueAndAmendExpiryDate

LEMMA FacilityRead ==
  ASSUME NEW facility, IsAcbsFacility(facility), NEW obligorName
  PROVE  IsGetFacilityByIdentifierResponse(FacilityOfAcbs(facility, obligorName))
<1> DEFINE response == FacilityOfAcbs(facility, obligorName)
<1>1. IsAcbsBaseFacilityRequest(facility)
  BY DEF IsAcbsFacility
<1>2. {facility.OriginalEffectiveDate, facility.ExpirationDate,
       facility.UserDefinedDate2} \subseteq DateTimes
      /\ facility.UserDefinedDate1 \in Maybe(DateTimes)
  BY <1>1 DEF IsAcbsBaseFacilityRequest
<1>3. /\ {response.guaranteeCommencementDate, response.guaranteeExpiryDate,
          response.nextQuarterEndDate, response.effectiveDate} \subseteq Dates
      /\ response.issueDate \in Maybe(Dates)
  <2>1. /\ RemoveTimeIfExists(facility.UserDefinedDate2) \in Dates
        /\ RemoveTimeIfExists(facility.ExpirationDate) \in Dates
        /\ RemoveTimeIfExists(facility.OriginalEffectiveDate) \in Dates
        /\ RemoveTimeIfExists(facility.UserDefinedDate1) \in Maybe(Dates)
    BY <1>2, DatesRead, DatesIfExist
  <2> QED BY <2>1 DEF FacilityOfAcbs
<1>4. /\ response.facilityIdentifier \in Identifiers
      /\ response.facilityOverallStatus \in Range(FACILITY_STATUSES)
      /\ response.guaranteePercentage \in {75, 100}
      /\ response.maximumLiability \in Int
      /\ response.dealIdentifier \in Identifiers
      /\ response.productTypeId \in Range(FACILITY_TYPE_IDS)
      /\ response.currency \in Currencies
      /\ response.facilityStageCode \in Range(FACILITY_STAGES)
      /\ {response.interestOrFeeRate, response.forecastPercentage} \subseteq Amounts
      /\ response.capitalConversionFactorCode \in Texts \cup {"1", "5"}
  BY <1>1 DEF FacilityOfAcbs, IsAcbsFacility, IsAcbsBaseFacilityRequest
<1>5. {response.dealBorrowerIdentifier, response.obligorPartyIdentifier,
       response.exposurePeriod, response.obligorIndustryClassification,
       response.agentBankIdentifier, response.riskCountryCode, response.riskStatusCode,
       response.creditRatingCode, response.premiumFrequencyCode,
       response.delegationType} \subseteq Texts
  BY <1>1 DEF FacilityOfAcbs, IsAcbsBaseFacilityRequest
<1> HIDE DEF response
<1>6. IsGetFacilityByIdentifierResponse(response)
  BY <1>3, <1>4, <1>5 DEF IsGetFacilityByIdentifierResponse
<1> QED BY <1>6 DEF response

LEMMA FacilityFields ==
  ASSUME NEW facility, IsAcbsFacility(facility)
  PROVE  /\ facility.FacilityIdentifier \in Identifiers
         /\ facility.OriginalEffectiveDate \in DateTimes
         /\ facility.BorrowerPartyIdentifier \in Texts
         /\ facility.FacilityTypeCode \in Range(FACILITY_TYPE_IDS)
         /\ facility.LimitAmount \in Int
BY DEF IsAcbsFacility, IsAcbsBaseFacilityRequest

LEMMA BundleCodes ==
  /\ FACILITY_TRANSACTION_TYPE_CODES.PLUS \in Range(FACILITY_TRANSACTION_TYPE_CODES)
  /\ FACILITY_TRANSACTION_TYPE_CODES.MINUS \in Range(FACILITY_TRANSACTION_TYPE_CODES)
  /\ FACILITY_FEE_AMOUNT_TRANSACTION.increaseTypeCode \in Range(FACILITY_FEE_AMOUNT_TRANSACTION)
  /\ FACILITY_FEE_AMOUNT_TRANSACTION.decreaseTypeCode \in Range(FACILITY_FEE_AMOUNT_TRANSACTION)
  /\ LOAN_AMOUNT_AMENDMENT.increase \in Range(LOAN_AMOUNT_AMENDMENT)
  /\ LOAN_AMOUNT_AMENDMENT.decrease \in Range(LOAN_AMOUNT_AMENDMENT)
  /\ BundleStatusCodes.POSTED \in Range(BundleStatusCodes)
  /\ BundleStatusCodes.POSTING_ERROR \in Range(BundleStatusCodes)
  /\ BundleStatusCodes.PENDING_INPUT \in Range(BundleStatusCodes)
  /\ BundleStatusCodes.PENDING_APPROVAL \in Range(BundleStatusCodes)
  /\ BundleStatusCodes.PENDING_POSTING \in Range(BundleStatusCodes)
BY DEF FACILITY_TRANSACTION_TYPE_CODES, FACILITY_FEE_AMOUNT_TRANSACTION, LOAN_AMOUNT_AMENDMENT,
       BundleStatusCodes, Range

LEMMA AmountMessage ==
  ASSUME NEW facility, IsBaseFacilityRequestItem(facility),
         NEW existing, IsAcbsFacility(existing)
  PROVE  BuildAmendFacilityAmountMessage(facility, existing) \in FacilityAmountTransaction
<1>1. facility.maximumLiability \in Int
  <2>1. facility.maximumLiability \in Amounts
    BY DEF IsBaseFacilityRequestItem
  <2>2. Amounts \subseteq Nat
    BY AcbsHttpAssumption
  <2>3. facility.maximumLiability \in Nat
    BY <2>1, <2>2
  <2> HIDE <2>1, <2>2
  <2> QED BY <2>3
<1>2. existing.LimitAmount \in Int
  BY FacilityFields
<1>3. UpdatedTransactionAmount(facility.maximumLiability, existing.LimitAmount) \in Nat
  BY <1>1, <1>2 DEF UpdatedTransactionAmount
<1>4. AmendFacilityTypeCode(facility.maximumLiability, existing.LimitAmount)
        \in Range(FACILITY_TRANSACTION_TYPE_CODES)
  BY BundleCodes DEF AmendFacilityTypeCode
<1> QED BY <1>3, <1>4, FacilityFields DEF BuildAmendFacilityAmountMessage, FacilityAmountTransaction

LEMMA ActivationMessage ==
  ASSUME NEW transaction \in CreateFacilityActivationTransactionRequestItem,
         NEW facility, IsAcbsFacility(facility), NEW facilityIdentifier \in Identifiers
  PROVE  ActivationTransaction(facilityIdentifier, facility, transaction)
           \in FacilityCodeValueTransaction
<1>1. AddTime(RemoveTimeIfExists(facility.OriginalEffectiveDate)) \in DateTimes
  BY FacilityFields, DatesRead, DatesSent
<1> QED BY <1>1, FacilityFields
        DEF ActivationTransaction, FacilityCodeValueTransaction,
            CreateFacilityActivationTransactionRequestItem, FACILITY_ACTIVATION_TRANSACTION

LEMMA AbsIs == \A number \in Int : Abs(number) \in Nat
BY DEF Abs

LEMMA FeeMessage ==
  ASSUME NEW item \in CreateFixedFeeAmountAmendmentRequestItem,
         NEW facilityIdentifier \in Identifiers
  PROVE  FeeAmountAmendmentMessage(facilityIdentifier, item) \in FacilityFeeAmountTransaction
<1>1. FeeAmountTypeCode(item.amountAmendment) \in Range(FACILITY_FEE_AMOUNT_TRANSACTION)
  BY BundleCodes DEF FeeAmountTypeCode
<1>2. Abs(item.amountAmendment) \in Nat
  BY AbsIs DEF CreateFixedFeeAmountAmendmentRequestItem
<1>3. AddTime(item.effectiveDate) \in DateTimes
  BY DatesSent DEF CreateFixedFeeAmountAmendmentRequestItem
<1> QED BY <1>1, <1>2, <1>3 DEF FeeAmountAmendmentMessage, FacilityFeeAmountTransaction,
                                CreateFixedFeeAmountAmendmentRequestItem

LEMMA AdvanceMessage ==
  ASSUME NEW item \in CreateLoanAmountAmendmentRequestItem, NEW loanIdentifier \in LoanIdentifiers
  PROVE  LoanAdvance(loanIdentifier, item) \in LoanAdvanceTransaction
<1> DEFINE code == IF item.amountAmendment > 0 THEN LOAN_AMOUNT_AMENDMENT.increase
                   ELSE LOAN_AMOUNT_AMENDMENT.decrease
<1>1. code \in Range(LOAN_AMOUNT_AMENDMENT)
  BY BundleCodes
<1>2. Abs(item.amountAmendment) \in Nat /\ AddTime(item.effectiveDate) \in DateTimes
  BY AbsIs, DatesSent DEF CreateLoanAmountAmendmentRequestItem
<1> HIDE DEF code
<1> QED BY <1>1, <1>2 DEF LoanAdvance, LoanAdvanceTransaction, code

LEMMA ActivationRead ==
  ASSUME NEW bundle \in AcbsBundleInformation, NEW transaction \in FacilityCodeValueTransaction
  PROVE  MapActivationTransaction(bundle, transaction)
           \in GetFacilityActivationTransactionResponseDto
<1>1. RemoveTime(transaction.EffectiveDate) \in Dates \cup {Today}
  BY DatesRead DEF FacilityCodeValueTransaction
<1> QED BY <1>1 DEF MapActivationTransaction, AcbsBundleInformation,
                    FacilityCodeValueTransaction, GetFacilityActivationTransactionResponseDto

LEMMA FeeSent ==
  ASSUME NEW fee \in CreateFacilityFixedFeeRequestItem, NEW facility, IsAcbsFacility(facility)
  PROVE  FixedFeeToCreateInAcbs(facility, fee) \in AcbsCreateFacilityFixedFeeRequestDto
<1> DEFINE involved == IF fee.lenderTypeCode = LENDER_TYPE_CODES.ECGD
                       THEN FACILITY_FIXED_FEE.involvedParty
                       ELSE facility.BorrowerPartyIdentifier
           description == FACILITY_FIXED_FEE.description[facility.FacilityTypeCode]
           income == OrDefault(fee.incomeClassCode, FACILITY_FIXED_FEE.incomeClassCode)
<1>1. /\ GetEarliestDateFromTodayAnd(fee.effectiveDate) \in DateTimes
      /\ AddTime(fee.expirationDate) \in DateTimes
      /\ AddTime(fee.nextDueDate) \in DateTimes
      /\ AddTime(fee.nextAccrueToDate) \in DateTimes
  BY DatesSent DEF CreateFacilityFixedFeeRequestItem
<1>2. facility.BorrowerPartyIdentifier \in Texts
      /\ facility.FacilityTypeCode \in Range(FACILITY_TYPE_IDS)
  BY FacilityFields
<1>3. involved \in Texts \cup {FACILITY_FIXED_FEE.involvedParty}
  BY <1>2
<1>4. description \in Range(FACILITY_FIXED_FEE.description)
  <2>1. DOMAIN FACILITY_FIXED_FEE.description = Range(FACILITY_TYPE_IDS)
    BY DEF FACILITY_FIXED_FEE
  <2> QED BY <1>2, <2>1 DEF Range
<1>5. income \in INCOME_CLASS_CODES
  <2>1. FACILITY_FIXED_FEE.incomeClassCode \in INCOME_CLASS_CODES
    BY DEF FACILITY_FIXED_FEE, INCOME_CLASS_CODES
  <2> QED BY <2>1, OrDefaultIs DEF CreateFacilityFixedFeeRequestItem
<1>6. fee.amount \in Int
  <2>1. fee.amount \in Amounts
    BY DEF CreateFacilityFixedFeeRequestItem
  <2>2. Amounts \subseteq Nat
    BY AcbsHttpAssumption
  <2>3. fee.amount \in Nat
    BY <2>1, <2>2
  <2> HIDE <2>1, <2>2
  <2> QED BY <2>3
<1>7. FixedFeeToCreateInAcbs(facility, fee) =
        [FixedFeeAmount |-> fee.amount,
         LimitKey |-> facility.BorrowerPartyIdentifier,
         InvolvedPartyIdentifier |-> involved,
         SegmentIdentifier |-> fee.period,
         EffectiveDate |-> GetEarliestDateFromTodayAnd(fee.effectiveDate),
         ExpirationDate |-> AddTime(fee.expirationDate),
         CurrencyCode |-> fee.currency,
         NextDueDate |-> AddTime(fee.nextDueDate),
         NextAccrueToDate |-> AddTime(fee.nextAccrueToDate),
         Description |-> description,
         IncomeClassCode |-> income,
         LenderTypeCode |-> fee.lenderTypeCode,
         SpreadToInvestorsIndicator |-> fee.spreadToInvestorsIndicator]
  BY DEF FixedFeeToCreateInAcbs
<1> HIDE DEF involved, description, income
<1> QED BY <1>1, <1>2, <1>3, <1>4, <1>5, <1>6, <1>7
        DEF AcbsCreateFacilityFixedFeeRequestDto, CreateFacilityFixedFeeRequestItem

LEMMA FeeRead ==
  ASSUME NEW fee \in AcbsCreateFacilityFixedFeeRequestDto, NEW facilityIdentifier \in Identifiers
  PROVE  FixedFeeOfAcbs(facilityIdentifier, fee) \in GetFacilityFixedFeeResponseItem
BY DatesRead DEF AcbsCreateFacilityFixedFeeRequestDto, FixedFeeOfAcbs,
                 GetFacilityFixedFeeResponseItem

LEMMA AccrualBase ==
  ASSUME NEW loan \in CreateFacilityLoanRequestItem, NEW code \in {"PAC01", "CTL01"},
         NEW spreadRate \in Maybe(Amounts)
  PROVE  BaseAccrualSchedule(loan, code, spreadRate) \in AccrualSchedule
<1>1. GetEarliestDateFromTodayAnd(loan.issueDate) \in DateTimes /\ loan.yearBasis \in Texts
  BY DatesSent DEF CreateFacilityLoanRequestItem
<1>2. \A S : None \in Maybe(S)
  BY DEF Maybe
<1> QED BY <1>1, <1>2 DEF BaseAccrualSchedule, AccrualSchedule

LEMMA AccrualsSent ==
  ASSUME NEW loan \in CreateFacilityLoanRequestItem
  PROVE  /\ AccrualPac(loan) \in AccrualSchedule
         /\ AccrualNonRfr(loan) \in AccrualSchedule
         /\ AccrualRfr(loan) \in AccrualSchedule
<1>1. /\ loan.spreadRate \in Maybe(Amounts) /\ loan.spreadRateCtl \in Maybe(Amounts)
      /\ loan.indexRateChangeFrequency \in Maybe(Texts)
      /\ loan.issueDate \in Dates
  BY DEF CreateFacilityLoanRequestItem, Maybe
<1>2. AccrualPac(loan) \in AccrualSchedule
  BY <1>1, AccrualBase DEF AccrualPac, ACCRUAL
<1> DEFINE base == BaseAccrualSchedule(loan, "CTL01", loan.spreadRateCtl)
<1>3. base \in AccrualSchedule
  BY <1>1, AccrualBase
<1>4. AccrualNonRfr(loan) =
        [base EXCEPT !.IndexRateChangeFrequencyCode = loan.indexRateChangeFrequency,
                     !.LoanRateIndexCode = "U3M",
                     !.NextRateSetDate = AddTime(loan.nextDueDate)]
  BY DEF AccrualNonRfr, ACCRUAL
<1>5. AccrualRfr(loan) =
        [base EXCEPT !.LoanRateIndexCode = LoanRateIndexCode(loan.currency),
                     !.NextRatePeriod = GetDatePlusThreeMonths(loan.issueDate)]
  BY DEF AccrualRfr, ACCRUAL
<1>6. AddTime(loan.nextDueDate) \in Maybe(DateTimes)
  BY DatesSent DEF CreateFacilityLoanRequestItem, Maybe
<1>7. LoanRateIndexCode(loan.currency) \in Maybe({"ESTR", "U3M", "TONAR", "SON"})
      /\ "U3M" \in Maybe({"ESTR", "U3M", "TONAR", "SON"})
  BY DEF LoanRateIndexCode, Maybe
<1>8. GetDatePlusThreeMonths(loan.issueDate) \in Maybe(Nat)
  <2>1. loan.issueDate \in Nat
    <3>1. Dates \subseteq Nat
      BY AcbsHttpAssumption
    <3> QED BY <1>1, <3>1
  <2>2. loan.issueDate + 3 \in Nat
    BY <2>1
  <2> QED BY <2>2 DEF GetDatePlusThreeMonths, Maybe
<1> HIDE DEF base
<1>9. AccrualNonRfr(loan) \in AccrualSchedule
  BY <1>1, <1>3, <1>4, <1>6, <1>7 DEF AccrualSchedule
<1>10. AccrualRfr(loan) \in AccrualSchedule
  BY <1>3, <1>5, <1>7, <1>8 DEF AccrualSchedule
<1> QED BY <1>2, <1>9, <1>10

LEMMA RepaymentBase ==
  ASSUME NEW loan \in CreateFacilityLoanRequestItem,
         NEW schedule, schedule.type \in {"A", "N", "B"}, schedule.sequence \in 1..2,
         NEW primary \in BOOLEAN, NEW paymentAmount \in Maybe(Amounts)
  PROVE  BaseRepaymentSchedule(loan, schedule, primary, paymentAmount) \in RepaymentSchedule
<1>1. AddTime(loan.nextDueDate) \in DateTimes /\ loan.loanBillingFrequencyType \in Texts
  BY DatesSent DEF CreateFacilityLoanRequestItem
<1>2. CalendarIdentifier(loan.currency) \in {"EU1", "US1", "UK"}
  BY DEF CalendarIdentifier
<1> QED BY <1>1, <1>2 DEF BaseRepaymentSchedule, RepaymentSchedule

LEMMA RepaymentsSent ==
  ASSUME NEW loan \in CreateFacilityLoanRequestItem
  PROVE  /\ RepaymentInt(loan) \in RepaymentSchedule
         /\ RepaymentPac(loan) \in RepaymentSchedule
         /\ RepaymentPacBss(loan) \in RepaymentSchedule
<1>1. None \in Maybe(Amounts) /\ loan.amount \in Maybe(Amounts)
  BY DEF CreateFacilityLoanRequestItem, Maybe
<1>2. /\ REPAYMENT.INT.type \in {"A", "N", "B"} /\ REPAYMENT.INT.sequence \in 1..2
      /\ REPAYMENT.PAC.type \in {"A", "N", "B"} /\ REPAYMENT.PAC.sequence \in 1..2
      /\ REPAYMENT.PAC_BSS.type \in {"A", "N", "B"} /\ REPAYMENT.PAC_BSS.sequence \in 1..2
  BY DEF REPAYMENT
<1> DEFINE primary == IF loan.productTypeGroup = PRODUCT_TYPE_GROUPS.EWCS
                      THEN REPAYMENT.PAC.primary ELSE TRUE
<1>6. /\ REPAYMENT.INT.primary \in BOOLEAN /\ REPAYMENT.PAC_BSS.primary \in BOOLEAN
      /\ primary \in BOOLEAN
  BY DEF REPAYMENT
<1>7. RepaymentPac(loan) = BaseRepaymentSchedule(loan, REPAYMENT.PAC, primary, None)
  BY DEF RepaymentPac
<1> HIDE DEF primary
<1>3. RepaymentInt(loan) \in RepaymentSchedule
  <2>1. BaseRepaymentSchedule(loan, REPAYMENT.INT, REPAYMENT.INT.primary, None)
          \in RepaymentSchedule
    BY <1>1, <1>2, <1>6, RepaymentBase
  <2> QED BY <2>1 DEF RepaymentInt
<1>4. RepaymentPac(loan) \in RepaymentSchedule
  BY <1>1, <1>2, <1>6, <1>7, RepaymentBase
<1>5. RepaymentPacBss(loan) \in RepaymentSchedule
  <2>1. BaseRepaymentSchedule(loan, REPAYMENT.PAC_BSS, REPAYMENT.PAC_BSS.primary, loan.amount)
          \in RepaymentSchedule
    BY <1>1, <1>2, <1>6, RepaymentBase
  <2> QED BY <2>1 DEF RepaymentPacBss
<1> QED BY <1>3, <1>4, <1>5

\* Lists of one thing, or two.
LEMMA Lists12 ==
  ASSUME NEW S, NEW a \in S, NEW b \in S
  PROVE  <<a>> \in Seq(S) \ {<<>>} /\ <<a, b>> \in Seq(S) \ {<<>>}
OBVIOUS

LEMMA SchedulesSent ==
  ASSUME NEW loan \in CreateFacilityLoanRequestItem
  PROVE  /\ AccrualSchedules(loan) \in Seq(AccrualSchedule) \ {<<>>}
         /\ RepaymentSchedules(loan) \in Seq(RepaymentSchedule) \ {<<>>}
<1>1. /\ AccrualPac(loan) \in AccrualSchedule
      /\ AccrualNonRfr(loan) \in AccrualSchedule
      /\ AccrualRfr(loan) \in AccrualSchedule
  BY AccrualsSent
<1>2. /\ RepaymentInt(loan) \in RepaymentSchedule
      /\ RepaymentPac(loan) \in RepaymentSchedule
      /\ RepaymentPacBss(loan) \in RepaymentSchedule
  BY RepaymentsSent
<1>3. /\ <<AccrualPac(loan)>> \in Seq(AccrualSchedule) \ {<<>>}
      /\ <<AccrualPac(loan), AccrualNonRfr(loan)>> \in Seq(AccrualSchedule) \ {<<>>}
      /\ <<AccrualPac(loan), AccrualRfr(loan)>> \in Seq(AccrualSchedule) \ {<<>>}
  BY <1>1, Lists12
<1>4. /\ <<RepaymentInt(loan), RepaymentPac(loan)>> \in Seq(RepaymentSchedule) \ {<<>>}
      /\ <<RepaymentPac(loan)>> \in Seq(RepaymentSchedule) \ {<<>>}
      /\ <<RepaymentPacBss(loan)>> \in Seq(RepaymentSchedule) \ {<<>>}
  BY <1>2, Lists12
<1>5. \/ AccrualSchedules(loan) = <<AccrualPac(loan)>>
      \/ AccrualSchedules(loan) = <<AccrualPac(loan), AccrualNonRfr(loan)>>
      \/ AccrualSchedules(loan) = <<AccrualPac(loan), AccrualRfr(loan)>>
  BY DEF AccrualSchedules
<1>6. \/ RepaymentSchedules(loan) = <<RepaymentInt(loan), RepaymentPac(loan)>>
      \/ RepaymentSchedules(loan) = <<RepaymentPac(loan)>>
      \/ RepaymentSchedules(loan) = <<RepaymentPacBss(loan)>>
  BY DEF RepaymentSchedules
<1>7. AccrualSchedules(loan) \in Seq(AccrualSchedule) \ {<<>>}
  BY <1>3, <1>5
<1>8. RepaymentSchedules(loan) \in Seq(RepaymentSchedule) \ {<<>>}
  BY <1>4, <1>6
<1> QED BY <1>7, <1>8

LEMMA NewLoanSent ==
  ASSUME NEW loan, IsCreateFacilityLoanRequestItem(loan), NEW facilityIdentifier \in Identifiers
  PROVE  NewLoanMessage(facilityIdentifier, loan) \in NewLoanRequest
<1> DEFINE message == NewLoanMessage(facilityIdentifier, loan)
           instrument == IF loan.productTypeId = PRODUCT_TYPE_IDS.GEF_CONTINGENT
                         THEN PRODUCT_TYPE_IDS.GEF_CASH ELSE loan.productTypeId
           rate == IF loan.dealCustomerUsageRate = 0 THEN None ELSE loan.dealCustomerUsageRate
<1>1. loan \in CreateFacilityLoanRequestItem
  BY DEF IsCreateFacilityLoanRequestItem
<1>2. /\ loan.borrowerPartyIdentifier \in Texts /\ loan.productTypeId \in Range(PRODUCT_TYPE_IDS)
      /\ loan.productTypeGroup \in Range(PRODUCT_TYPE_GROUPS) /\ loan.currency \in Currencies
      /\ loan.amount \in Amounts /\ loan.dealCustomerUsageOperationType \in Maybe({"M", "D"})
      /\ loan.dealCustomerUsageRate \in Maybe(Amounts)
      /\ loan.issueDate \in Dates /\ loan.expiryDate \in Dates
  BY <1>1 DEF CreateFacilityLoanRequestItem
<1>3. /\ GetEarliestDateFromTodayAnd(loan.issueDate) \in DateTimes
      /\ AddTime(loan.expiryDate) \in DateTimes
  BY <1>2, DatesSent
<1>4. NextValuationDate(loan) \in Maybe(DateTimes)
  BY <1>3 DEF NextValuationDate, Maybe
<1>5. instrument \in {"250", "260", "280"}
  BY <1>2 DEF PRODUCT_TYPE_IDS, Range
<1>6. rate \in Maybe(Amounts)
  BY <1>2 DEF Maybe
<1>7. /\ AccrualSchedules(loan) \in Seq(AccrualSchedule) \ {<<>>}
      /\ RepaymentSchedules(loan) \in Seq(RepaymentSchedule) \ {<<>>}
  BY <1>1, SchedulesSent
<1>8. message =
        [type |-> "NewLoanRequest",
         FacilityIdentifier |-> facilityIdentifier,
         BorrowerPartyIdentifier |-> loan.borrowerPartyIdentifier,
         LoanInstrumentCode |-> instrument,
         ProductTypeCode |-> loan.productTypeId,
         ProductGroupCode |-> loan.productTypeGroup,
         CurrencyCode |-> loan.currency,
         LoanAmount |-> loan.amount,
         EffectiveDate |-> GetEarliestDateFromTodayAnd(loan.issueDate),
         MaturityDate |-> AddTime(loan.expiryDate),
         RateMaturityDate |-> AddTime(loan.expiryDate),
         DealCustomerUsageRate |-> rate,
         DealCustomerUsageOperationType |-> loan.dealCustomerUsageOperationType,
         AccrualScheduleList |-> AccrualSchedules(loan),
         RepaymentScheduleList |-> RepaymentSchedules(loan),
         FinancialNextValuationDate |-> NextValuationDate(loan),
         CustomerUsageNextValuationDate |-> NextValuationDate(loan)]
  BY DEF NewLoanMessage
<1> HIDE DEF message, instrument, rate
<1>9. message \in NewLoanRequest
  BY <1>2, <1>3, <1>4, <1>5, <1>6, <1>7, <1>8 DEF NewLoanRequest
<1> QED BY <1>9 DEF message

LEMMA LeastIsOne ==
  ASSUME NEW T \in SUBSET Nat, T # {}
  PROVE  Min(T) \in T
<1>1. \E m \in T : \A n \in T : m <= n
  BY LeastOf
<1> QED BY <1>1 DEF Min

\* A loan in ACBS is a new loan with a balance.
LoanOf(data) == [field \in DOMAIN data \ {"PrincipalBalance"} |-> data[field]]

NewLoanFields ==
    {"type", "FacilityIdentifier", "BorrowerPartyIdentifier", "LoanInstrumentCode",
     "ProductTypeCode", "ProductGroupCode", "CurrencyCode", "LoanAmount", "EffectiveDate",
     "MaturityDate", "RateMaturityDate", "FinancialNextValuationDate",
     "CustomerUsageNextValuationDate", "DealCustomerUsageRate",
     "DealCustomerUsageOperationType", "AccrualScheduleList", "RepaymentScheduleList"}

LEMMA NewLoanIs ==
  ASSUME NEW loan \in NewLoanRequest
  PROVE  /\ DOMAIN loan = NewLoanFields
         /\ "PrincipalBalance" \notin DOMAIN loan
         /\ loan = [field \in DOMAIN loan |-> loan[field]]
         /\ loan.type = "NewLoanRequest"
BY DEF NewLoanRequest, NewLoanFields

LEMMA LoanIs ==
  ASSUME NEW data
  PROVE  IsDto("Loan", data) <=>
           /\ "PrincipalBalance" \in DOMAIN data /\ data.PrincipalBalance \in Int
           /\ LoanOf(data) \in NewLoanRequest
BY DEF IsDto, LoanOf

LEMMA LoanFields ==
  ASSUME NEW data, IsDto("Loan", data)
  PROVE  /\ NewLoanFields \subseteq DOMAIN data
         /\ \A field \in NewLoanFields : LoanOf(data)[field] = data[field]
<1>1. LoanOf(data) \in NewLoanRequest
  BY LoanIs
<1>2. DOMAIN LoanOf(data) = NewLoanFields
  BY <1>1, NewLoanIs
<1>3. DOMAIN LoanOf(data) = DOMAIN data \ {"PrincipalBalance"}
      /\ \A field \in DOMAIN LoanOf(data) : LoanOf(data)[field] = data[field]
  BY DEF LoanOf
<1> QED BY <1>2, <1>3

LEMMA LoanRead ==
  ASSUME NEW data, IsDto("Loan", data)
  PROVE  MapLoan(data) \in GetFacilityLoanResponseItem
<1> DEFINE loan == LoanOf(data)
<1>1. loan \in NewLoanRequest /\ data.PrincipalBalance \in Int
  BY LoanIs
<1>2. /\ loan.FacilityIdentifier = data.FacilityIdentifier
      /\ loan.BorrowerPartyIdentifier = data.BorrowerPartyIdentifier
      /\ loan.ProductTypeCode = data.ProductTypeCode
      /\ loan.ProductGroupCode = data.ProductGroupCode
      /\ loan.CurrencyCode = data.CurrencyCode
      /\ loan.EffectiveDate = data.EffectiveDate
      /\ loan.MaturityDate = data.MaturityDate
  BY LoanFields DEF NewLoanFields
<1> HIDE DEF loan
<1>3. /\ data.FacilityIdentifier \in Identifiers /\ data.BorrowerPartyIdentifier \in Texts
      /\ data.ProductTypeCode \in Range(PRODUCT_TYPE_IDS)
      /\ data.ProductGroupCode \in Range(PRODUCT_TYPE_GROUPS)
      /\ data.CurrencyCode \in Currencies
      /\ data.EffectiveDate \in DateTimes /\ data.MaturityDate \in DateTimes
  BY <1>1, <1>2 DEF NewLoanRequest
<1>4. RemoveTime(data.EffectiveDate) \in Dates /\ RemoveTime(data.MaturityDate) \in Dates
  BY <1>3, DatesRead
<1> QED BY <1>1, <1>3, <1>4 DEF MapLoan, GetFacilityLoanResponseItem

\* An expiry date that moves moves dates of the loan only.
LEMMA LoanMoves ==
  ASSUME NEW data, IsDto("Loan", data), NEW expiryDate \in Dates
  PROVE  IsDto("Loan", LoanWithExpiryDate(data, expiryDate))
<1> DEFINE date == AddTime(expiryDate)
           financial == IF data.FinancialNextValuationDate = None THEN None ELSE date
           usage == IF data.CustomerUsageNextValuationDate = None THEN None ELSE date
           moved == [data EXCEPT !.MaturityDate = date, !.RateMaturityDate = date,
                                 !.FinancialNextValuationDate = financial,
                                 !.CustomerUsageNextValuationDate = usage]
           loan == LoanOf(data)
           movedLoan == [loan EXCEPT !.MaturityDate = date, !.RateMaturityDate = date,
                                     !.FinancialNextValuationDate = financial,
                                     !.CustomerUsageNextValuationDate = usage]
<1>1. date \in DateTimes /\ financial \in Maybe(DateTimes) /\ usage \in Maybe(DateTimes)
  BY DatesSent DEF Maybe
<1>2. /\ "PrincipalBalance" \in DOMAIN data /\ data.PrincipalBalance \in Int
      /\ loan \in NewLoanRequest
  BY LoanIs
<1>3. LoanWithExpiryDate(data, expiryDate) = moved
  <2>1. NewLoanFields \subseteq DOMAIN data
    BY LoanFields
  <2>2. {"MaturityDate", "RateMaturityDate", "FinancialNextValuationDate",
         "CustomerUsageNextValuationDate"} \subseteq DOMAIN data
    BY <2>1 DEF NewLoanFields
  <2> QED BY <2>2 DEF LoanWithExpiryDate
<1> HIDE DEF date, financial, usage
<1>4. movedLoan \in NewLoanRequest
  <2> HIDE DEF loan
  <2> QED BY <1>1, <1>2 DEF NewLoanRequest
<1>5. LoanOf(moved) = movedLoan
  BY DEF LoanOf
<1>6. "PrincipalBalance" \in DOMAIN moved /\ moved.PrincipalBalance = data.PrincipalBalance
  BY <1>2
<1> HIDE DEF moved, movedLoan
<1> QED BY <1>2, <1>3, <1>4, <1>5, <1>6, LoanIs

\* A balance that changes changes nothing else.
LEMMA LoanBalance ==
  ASSUME NEW data, IsDto("Loan", data), NEW balance \in Int
  PROVE  IsDto("Loan", [data EXCEPT !.PrincipalBalance = balance])
<1> DEFINE changed == [data EXCEPT !.PrincipalBalance = balance]
<1>1. /\ "PrincipalBalance" \in DOMAIN data /\ LoanOf(data) \in NewLoanRequest
  BY LoanIs
<1>2. "PrincipalBalance" \in DOMAIN changed /\ changed.PrincipalBalance = balance
  BY <1>1
<1>3. LoanOf(changed) = LoanOf(data)
  BY DEF LoanOf
<1> HIDE DEF changed
<1>4. IsDto("Loan", changed)
  BY <1>1, <1>2, <1>3, LoanIs
<1> QED BY <1>4 DEF changed

\* The loan of a new loan message.
LEMMA LoanPosted ==
  ASSUME NEW message \in NewLoanRequest
  PROVE  IsDto("Loan", [PrincipalBalance |-> message.LoanAmount] ++ message)
<1> DEFINE balance == [PrincipalBalance |-> message.LoanAmount]
           data == balance ++ message
<1>1. /\ DOMAIN message = NewLoanFields
      /\ "PrincipalBalance" \notin DOMAIN message
      /\ message = [field \in DOMAIN message |-> message[field]]
  BY NewLoanIs
<1>2. message.LoanAmount \in Int
  <2>1. message.LoanAmount \in Amounts
    BY DEF NewLoanRequest
  <2>2. Amounts \subseteq Nat
    BY AcbsHttpAssumption
  <2>3. message.LoanAmount \in Nat
    BY <2>1, <2>2
  <2> HIDE <2>1, <2>2
  <2> QED BY <2>3
<1>3. DOMAIN balance = {"PrincipalBalance"} /\ balance.PrincipalBalance = message.LoanAmount
  OBVIOUS
<1> HIDE DEF balance
<1>4. /\ DOMAIN data = DOMAIN balance \cup DOMAIN message
      /\ \A x \in DOMAIN balance : data[x] = balance[x]
      /\ \A x \in DOMAIN message \ DOMAIN balance : data[x] = message[x]
  BY Merged
<1> HIDE DEF data
<1>5. "PrincipalBalance" \in DOMAIN data /\ data.PrincipalBalance = message.LoanAmount
  BY <1>3, <1>4
<1>6. DOMAIN data \ {"PrincipalBalance"} = DOMAIN message
      /\ \A field \in DOMAIN message : data[field] = message[field]
  BY <1>1, <1>3, <1>4
<1>7. LoanOf(data) = message
  BY <1>1, <1>6 DEF LoanOf
<1>8. IsDto("Loan", data)
  BY <1>2, <1>5, <1>7, LoanIs
<1> QED BY <1>8 DEF data, balance

LEMMA FirstAccrualIs ==
  ASSUME NEW loan \in NewLoanRequest, NEW code,
         NEW field \in {"SpreadRate", "IndexRateChangeFrequencyCode"}
  PROVE  OfFirstAccrual(loan, code, field)
           \in IF field = "SpreadRate" THEN Maybe(Amounts) ELSE Maybe(Texts)
<1> DEFINE accruals == loan.AccrualScheduleList
           found == {k \in DOMAIN accruals : accruals[k].AccrualCategoryCode = code}
<1>1. accruals \in Seq(AccrualSchedule)
  BY DEF NewLoanRequest
<1>2. CASE found = {}
  BY <1>2 DEF OfFirstAccrual, Maybe
<1>3. CASE found # {}
  <2>1. found \in SUBSET Nat
    BY <1>1
  <2>2. Min(found) \in found
    <3> HIDE DEF found
    <3> QED BY <1>3, <2>1, LeastIsOne
  <2>3. accruals[Min(found)] \in AccrualSchedule
    <3>1. \A k \in found : accruals[k] \in AccrualSchedule
      BY <1>1
    <3> HIDE DEF found
    <3> QED BY <2>2, <3>1
  <2>4. OfFirstAccrual(loan, code, field) = accruals[Min(found)][field]
    BY <1>3 DEF OfFirstAccrual
  <2> HIDE DEF found, accruals
  <2> QED BY <2>3, <2>4 DEF AccrualSchedule
<1> QED BY <1>2, <1>3

LEMMA LoanTransactionRead ==
  ASSUME NEW bundle \in AcbsBundleInformation, bundle.PostingDate # None,
         NEW loan \in NewLoanRequest
  PROVE  MapLoanTransaction(bundle, loan) \in GetFacilityLoanTransactionResponseDto
<1>1. /\ bundle.BundleStatusCode \in Range(BundleStatusCodes)
      /\ bundle.PostingDate \in DateTimes
  BY DEF AcbsBundleInformation, Maybe
<1>2. /\ loan.FacilityIdentifier \in Identifiers /\ loan.BorrowerPartyIdentifier \in Texts
      /\ loan.ProductTypeCode \in Range(PRODUCT_TYPE_IDS)
      /\ loan.ProductGroupCode \in Range(PRODUCT_TYPE_GROUPS)
      /\ loan.CurrencyCode \in Currencies
      /\ loan.DealCustomerUsageRate \in Maybe(Amounts)
      /\ loan.DealCustomerUsageOperationType \in Maybe({"M", "D"})
      /\ loan.LoanAmount \in Amounts
      /\ loan.EffectiveDate \in DateTimes /\ loan.MaturityDate \in DateTimes
      /\ loan.AccrualScheduleList \in Seq(AccrualSchedule) \ {<<>>}
      /\ loan.RepaymentScheduleList \in Seq(RepaymentSchedule) \ {<<>>}
  BY DEF NewLoanRequest
<1>3. /\ RemoveTime(bundle.PostingDate) \in Dates
      /\ RemoveTime(loan.EffectiveDate) \in Dates
      /\ RemoveTime(loan.MaturityDate) \in Dates
  BY <1>1, <1>2, DatesRead
<1>4. loan.AccrualScheduleList[1].YearBasisCode \in Maybe(Texts)
  <2>1. loan.AccrualScheduleList[1] \in AccrualSchedule
    BY <1>2
  <2> QED BY <2>1 DEF AccrualSchedule, Maybe
<1>5. /\ RemoveTimeIfExists(loan.RepaymentScheduleList[1].NextDueDate) \in Maybe(Dates)
      /\ loan.RepaymentScheduleList[1].LoanBillingFrequencyTypeCode \in Maybe(Texts)
  <2>1. loan.RepaymentScheduleList[1] \in RepaymentSchedule
    BY <1>2
  <2>2. loan.RepaymentScheduleList[1].NextDueDate \in DateTimes
        /\ loan.RepaymentScheduleList[1].LoanBillingFrequencyTypeCode \in Texts
    BY <2>1 DEF RepaymentSchedule
  <2> QED BY <2>2, DatesRead DEF Maybe
<1>6. /\ OfFirstAccrual(loan, ACCRUAL.PAC, "SpreadRate") \in Maybe(Amounts)
      /\ OfFirstAccrual(loan, ACCRUAL.INT_RFR, "SpreadRate") \in Maybe(Amounts)
      /\ OfFirstAccrual(loan, ACCRUAL.INT_RFR, "IndexRateChangeFrequencyCode") \in Maybe(Texts)
  BY FirstAccrualIs
<1> QED BY <1>1, <1>2, <1>3, <1>4, <1>5, <1>6
        DEF MapLoanTransaction, GetFacilityLoanTransactionResponseDto

LEMMA BundleSent ==
  ASSUME NEW code \in InitialBundleStatusCodes, NEW date \in Maybe(DateTimes),
         NEW messages \in Seq(BundleAction),
         IsNewLoanRequest(messages[1]) => date # None
  PROVE  IsDto("BundleInformation", BundleInformation(code, date, messages))
<1> DEFINE status == <<BundleStatusCodes.PENDING_INPUT, BundleStatusCodes.PENDING_APPROVAL,
                       BundleStatusCodes.PENDING_POSTING>>[code]
           bundle == BundleInformation(code, date, messages)
<1>1. status \in Range(BundleStatusCodes)
  <2>1. code = 1 \/ code = 2 \/ code = 3
    BY DEF InitialBundleStatusCodes
  <2>2. \/ status = BundleStatusCodes.PENDING_INPUT
        \/ status = BundleStatusCodes.PENDING_APPROVAL
        \/ status = BundleStatusCodes.PENDING_POSTING
    BY <2>1
  <2> HIDE DEF status
  <2> QED BY <2>2, BundleCodes
<1>2. bundle = [InitialBundleStatusCode |-> code, BundleStatusCode |-> status,
                PostingDate |-> date, BundleMessageList |-> messages]
  BY DEF BundleInformation
<1> HIDE DEF bundle, status
<1>3. bundle \in AcbsBundleInformation
  BY <1>1, <1>2 DEF AcbsBundleInformation
<1>4. IsNewLoanRequest(bundle.BundleMessageList[1]) => bundle.PostingDate # None
  BY <1>2
<1>5. IsDto("BundleInformation", bundle)
  BY <1>3, <1>4 DEF IsDto
<1> QED BY <1>5 DEF bundle

-----------------------------------------------------------------------------
(* What a request holds before each of its calls: what was validated of    *)
(* it, and what it has read.                                               *)

PartyReady(r, label, loc) ==
    /\ label \in {"searchForParty", "createParty", "getRatings", "findCustomers",
                  "createRating"} => Body(r)[1] \in CreatePartyRequestItem
    /\ label = "createRating" => loc.assignedRatingCode \in Range(ASSIGNED_RATING_CODES)

DealReady(r, label) ==
    /\ label \in {"createDeal", "restrictDeal"} => Body(r)[1] \in CreateDealRequestItem
    /\ label = "createDealGuarantee" => Body(r)[1] \in CreateDealGuaranteeRequestItem
    /\ label = "createDealInvestor" => Body(r)[1] \in CreateDealInvestorRequestItem
    /\ label \in {"getDealGuarantees", "getDealInvestors"} => DealIdentifier(r) \in Identifiers

FacilityReady(r, label, loc) ==
    /\ label = "createFacility" => IsBaseFacilityRequestItemWithFacilityIdentifier(Body(r)[1])
    /\ label \in {"getFacilityToUpdate", "putFacility", "amendFacility"} =>
         FacilityIdentifier(r) \in Identifiers /\ IsBaseFacilityRequestItem(Body(r))
    /\ label \in {"putFacility", "amendFacility"} => IsAcbsFacility(loc)

FacilityPartReady(r, label, loc) ==
    /\ label \in {"getFacilityOfCovenant", "createCovenant", "getCovenants",
                  "getCovenantsToUpdate", "putCovenant", "createFacilityGuarantee",
                  "getFacilityGuarantees", "getGuaranteesToUpdate", "putGuarantee",
                  "createFacilityInvestor", "getFacilityInvestors"} =>
         FacilityIdentifier(r) \in Identifiers
    /\ label = "getFacilityOfCovenant" =>
         \A item \in Range(Body(r)) : item \in CreateFacilityCovenantRequestItem
    /\ label = "createCovenant" =>
         Body(r)[1] \in CreateFacilityCovenantRequestItem /\ IsAcbsFacility(loc)
    /\ label \in {"getCovenantsToUpdate", "putCovenant"} =>
         Body(r) \in UpdateFacilityCovenantsRequestDto
    /\ label = "putCovenant" =>
         \A k \in DOMAIN loc : loc[k] \in AcbsCreateFacilityCovenantRequestDto
    /\ label = "createFacilityGuarantee" => Body(r)[1] \in CreateFacilityGuaranteeRequestItem
    /\ label \in {"getGuaranteesToUpdate", "putGuarantee"} =>
         Body(r) \in UpdateFacilityGuaranteesRequestDto
    /\ label = "putGuarantee" => \A k \in DOMAIN loc : loc[k] \in AcbsBaseFacilityGuarantee
    /\ label = "createFacilityInvestor" => Body(r)[1] \in CreateFacilityInvestorRequestItem

LoanReady(r, label, loc) ==
    /\ label \in {"getFacilityToActivate", "createActivation", "getActivation",
                  "getFacilityOfFee", "createFee", "getFees", "amendFees", "getLoans",
                  "createLoan", "getLoanTransaction", "amendLoan", "getLoanToUpdate",
                  "putLoan"} => FacilityIdentifier(r) \in Identifiers
    /\ label = "getFacilityToActivate" =>
         \A item \in Range(Body(r)) : item \in CreateFacilityActivationTransactionRequestItem
    /\ label = "createActivation" =>
         Body(r)[1] \in CreateFacilityActivationTransactionRequestItem /\ IsAcbsFacility(loc)
    /\ label = "getFacilityOfFee" =>
         \A item \in Range(Body(r)) : item \in CreateFacilityFixedFeeRequestItem
    /\ label = "createFee" =>
         Body(r)[1] \in CreateFacilityFixedFeeRequestItem /\ IsAcbsFacility(loc)
    /\ label = "amendFees" =>
         \A item \in Range(Body(r)) : item \in CreateFixedFeeAmountAmendmentRequestItem
    /\ label = "createLoan" => IsCreateFacilityLoanRequestItem(Body(r)[1])
    /\ label = "amendLoan" =>
         /\ Body(r)[1] \in CreateLoanAmountAmendmentRequestItem
         /\ Params(r).loanIdentifier \in LoanIdentifiers
    /\ label \in {"getLoanToUpdate", "putLoan"} =>
         Params(r).loanIdentifier \in LoanIdentifiers /\ Body(r).expiryDate \in Dates
    /\ label = "putLoan" => IsDto("Loan", loc)

IsReady(r, label, loc) ==
    /\ PartyReady(r, label, loc)
    /\ DealReady(r, label)
    /\ FacilityReady(r, label, loc)
    /\ FacilityPartReady(r, label, loc)
    /\ LoanReady(r, label, loc)

\* The body of an answer to a request that succeeded.
IsAnswer(op, body) ==
    \A item \in IF op \in Lists THEN Range(body) ELSE {body} :
        IF op = "GET/facilities/<facilityIdentifier>"
        THEN IsGetFacilityByIdentifierResponse(item)
        ELSE item \in ResponseDto(op)

TypedStore(store) == \A i \in DOMAIN store : IsOfItsDto(store[i])

TypedRequest(r) ==
    /\ pc[r] # "done" => answer[r] = None
    /\ pc[r] \notin {"received", "done"} => IsReady(r, pc[r], local[r])
    /\ Created(r) => IsAnswer(Op(r), answer[r].body)
    /\ pc[r] = "done" /\ ~Created(r) =>
         answer[r].status \in {400, 404, 500} /\ answer[r].body = None

TypesOK ==
    /\ faults \in 0..MaxFaults
    /\ TypedStore(acbs)
    /\ \A r \in Requests : TypedRequest(r)

-----------------------------------------------------------------------------
(* A step of a request, again.                                             *)

\* Where a step of request r takes it.
TypedLands(r) ==
    \/ /\ pc'[r] = "done" /\ answer'[r].status \in {200, 201}
       /\ IsAnswer(Op(r), answer'[r].body)
    \/ /\ pc'[r] = "done" /\ answer'[r].status \in {400, 404, 500}
       /\ answer'[r].body = None
    \/ /\ pc'[r] \notin {"received", "done"} /\ answer'[r] = answer[r]
       /\ IsReady(r, pc'[r], local'[r])

TypedStep(r) == TypedLands(r) /\ TypedStore(acbs') /\ faults' \in 0..MaxFaults

\* Before it, of request r.
Typed(r) ==
    /\ ControlOK /\ StoreOK /\ InCourse(r)
    /\ TypesOK
    /\ r \in Requests /\ pc[r] # "done"
    /\ UNCHANGED workload

LEMMA GoesTyped ==
  ASSUME NEW r, Typed(r), NEW label, NEW loc, Goto(r, label, loc), IsReady(r, label, loc),
         label \notin {"received", "done"}
  PROVE  TypedLands(r)
BY DEF Typed, ControlOK, Goto, TypedLands

LEMMA RepliesTyped ==
  ASSUME NEW r, Typed(r), NEW status \in {200, 201}, NEW body, Reply(r, status, body),
         IsAnswer(Op(r), body)
  PROVE  TypedLands(r)
BY DEF Typed, ControlOK, Reply, TypedLands

LEMMA ThrowsTyped ==
  ASSUME NEW r, Typed(r), NEW exception, Throw(r, exception)
  PROVE  TypedLands(r)
<1>1. pc'[r] = "done" /\ answer'[r].status = HttpStatus(exception) /\ answer'[r].body = None
  BY DEF Typed, ControlOK, Throw, Reply
<1> QED BY <1>1, Statuses DEF TypedLands

\* A request that is valid begins, and any other is refused.
BeginsTyped(r, op, label, valid) ==
    /\ Op(r) = op
    /\ WithoutAcbs
    /\ IF valid THEN Goto(r, label, None)
       ELSE Throw(r, "BadRequestException") \/ Throw(r, "TypeError")

LEMMA BeginsTypedStep ==
  ASSUME NEW r, Typed(r), NEW op, NEW label, NEW valid, BeginsTyped(r, op, label, valid),
         valid => IsReady(r, label, None), label \notin {"received", "done"}
  PROVE  TypedStep(r)
<1>1. TypedLands(r)
  BY GoesTyped, ThrowsTyped DEF BeginsTyped
<1>2. TypedStore(acbs') /\ faults' \in 0..MaxFaults
  BY DEF BeginsTyped, WithoutAcbs, Typed, TypesOK
<1> QED BY <1>1, <1>2 DEF TypedStep

\* A request with nothing to validate begins.
LEMMA GoesTypedStep ==
  ASSUME NEW r, Typed(r), NEW label, Goto(r, label, None), WithoutAcbs,
         IsReady(r, label, None), label \notin {"received", "done"}
  PROVE  TypedStep(r)
<1>1. TypedLands(r)
  BY GoesTyped
<1>2. TypedStore(acbs') /\ faults' \in 0..MaxFaults
  BY DEF WithoutAcbs, Typed, TypesOK
<1> QED BY <1>1, <1>2 DEF TypedStep

\* One fault more, where one is left.
LEMMA FaultsCount ==
  ASSUME faults \in 0..MaxFaults
  PROVE  /\ faults + 0 \in 0..MaxFaults
         /\ FaultsLeft # {} => faults + 1 \in 0..MaxFaults
BY AcbsHttpAssumption DEF FaultsLeft

LEMMA GetTypes ==
  ASSUME NEW r, Typed(r), NEW call, NEW outcome \in GetOutcomes(call),
         UNCHANGED acbs, faults' = faults + outcome[2], TypedLands(r)
  PROVE  TypedStep(r)
<1>1. outcome[2] = 0 \/ (outcome[2] = 1 /\ FaultsLeft # {})
  BY DEF GetOutcomes
<1>2. faults' \in 0..MaxFaults
  BY <1>1, FaultsCount DEF Typed, TypesOK
<1>3. TypedStore(acbs')
  BY DEF Typed, TypesOK
<1> QED BY <1>2, <1>3 DEF TypedStep

\* A GET, given what it does with what ACBS has.
GetsTyped(r, call) ==
    \E outcome \in GetOutcomes(call) :
        /\ UNCHANGED acbs
        /\ faults' = faults + outcome[2]
        /\ \/ IsGiven(outcome[1]) /\ TypedLands(r)
           \/ Throw(r, GetException(call, outcome[1]))

LEMMA GetsTypedStep ==
  ASSUME NEW r, Typed(r), NEW call, GetsTyped(r, call)
  PROVE  TypedStep(r)
<1>1. PICK outcome \in GetOutcomes(call) :
         /\ UNCHANGED acbs
         /\ faults' = faults + outcome[2]
         /\ \/ IsGiven(outcome[1]) /\ TypedLands(r)
            \/ Throw(r, GetException(call, outcome[1]))
  BY DEF GetsTyped
<1>2. TypedLands(r)
  BY <1>1, ThrowsTyped
<1> QED BY <1>1, <1>2, GetTypes

\* A write, given what it does when it was done.
WritesTyped(r, result) ==
    \E outcome \in WriteOutcomes(result) :
        /\ acbs' = outcome[2]
        /\ faults' = faults + outcome[3]
        /\ IF outcome[1].status = 200 THEN TypedLands(r)
           ELSE \E exception : Throw(r, exception)

LEMMA WritesTypedStep ==
  ASSUME NEW r, Typed(r), NEW result, IsResult(result), result # Null,
         \A data : result = Ok(data) => TypedStore(data), WritesTyped(r, result)
  PROVE  TypedStep(r)
<1>1. PICK outcome \in WriteOutcomes(result) :
        /\ acbs' = outcome[2]
        /\ faults' = faults + outcome[3]
        /\ IF outcome[1].status = 200 THEN TypedLands(r)
           ELSE \E exception : Throw(r, exception)
  BY DEF WritesTyped
<1>2. TypedLands(r)
  BY <1>1, ThrowsTyped
<1>3. outcome[2] = acbs \/ result = Ok(outcome[2])
  <2> DEFINE written == IF result.status = 200 THEN result.data ELSE acbs
  <2>1. outcome[2] = written \/ outcome[2] = acbs
    BY DEF WriteOutcomes
  <2>2. written = acbs \/ result = Ok(written)
    BY Results DEF IsResult
  <2> HIDE DEF written
  <2> QED BY <2>1, <2>2
<1>4. TypedStore(acbs')
  BY <1>1, <1>3 DEF Typed, TypesOK
<1>5. outcome[3] = 0 \/ (outcome[3] = 1 /\ FaultsLeft # {})
  BY DEF WriteOutcomes
<1>6. faults' \in 0..MaxFaults
  BY <1>1, <1>5, FaultsCount DEF Typed, TypesOK
<1> QED BY <1>2, <1>4, <1>6 DEF TypedStep

\* What a write adds or replaces.
LEMMA AddsTyped ==
  ASSUME NEW r, Typed(r), NEW kind, NEW owner, NEW data, IsDto(kind, data)
  PROVE  TypedStore(Added(r, kind, owner, data))
<1> DEFINE entity == [kind |-> kind, owner |-> owner, data |-> data, by |-> r]
<1>1. acbs \in Seq(Range(acbs)) /\ Len(acbs) \in Nat /\ DOMAIN acbs = 1..Len(acbs)
  BY IsASequence DEF Typed, StoreOK, IsStore
<1>2. DOMAIN Append(acbs, entity) = DOMAIN acbs \cup {Len(acbs) + 1}
      /\ Append(acbs, entity)[Len(acbs) + 1] = entity
      /\ \A i \in DOMAIN acbs : Append(acbs, entity)[i] = acbs[i]
  BY <1>1
<1>3. IsOfItsDto(entity)
  BY DEF IsOfItsDto
<1> HIDE DEF entity
<1>4. TypedStore(Append(acbs, entity))
  BY <1>2, <1>3 DEF TypedStore, Typed, TypesOK
<1> QED BY <1>4 DEF Added, entity

LEMMA ReplacesTyped ==
  ASSUME NEW r, Typed(r), NEW i \in DOMAIN acbs, NEW data, IsDto(acbs[i].kind, data)
  PROVE  TypedStore(Replaced(r, i, data))
<1> DEFINE entity == [acbs[i] EXCEPT !.data = data, !.by = r]
<1>1. IsEntity(acbs[i])
  BY DEF Typed, StoreOK, IsStore
<1>2. entity = [kind |-> acbs[i].kind, owner |-> acbs[i].owner, data |-> data, by |-> r]
  BY <1>1, EntityExcept
<1>3. IsOfItsDto(entity)
  BY <1>2 DEF IsOfItsDto
<1> HIDE DEF entity
<1>4. TypedStore([acbs EXCEPT ![i] = entity])
  BY <1>3 DEF TypedStore, Typed, TypesOK
<1> QED BY <1>4 DEF Replaced, entity

\* What a GET found is of its DTO.
LEMMA FoundTyped ==
  ASSUME NEW r, Typed(r), NEW i \in DOMAIN acbs
  PROVE  IsDto(acbs[i].kind, acbs[i].data)
BY DEF Typed, TypesOK, TypedStore, IsOfItsDto

LEMMA PartsTyped ==
  ASSUME NEW r, Typed(r), NEW kind, NEW owner, NEW k \in DOMAIN DataOf(kind, owner)
  PROVE  IsDto(kind, DataOf(kind, owner)[k])
<1>1. StoreOK
  BY DEF Typed
<1>2. PICK i \in Indexes(kind, owner) : DataOf(kind, owner)[k] = acbs[i].data
  BY <1>1, DataFound
<1>3. i \in DOMAIN acbs /\ acbs[i].kind = kind
  BY DEF Indexes
<1> QED BY <1>2, <1>3, FoundTyped

\* The body of an answer, or each of its items, is of the DTO of its handler.
LEMMA ListAnswer ==
  ASSUME NEW op \in Lists, NEW body, \A k \in DOMAIN body : body[k] \in ResponseDto(op)
  PROVE  IsAnswer(op, body)
BY DEF IsAnswer, Lists, Range

LEMMA ItemAnswer ==
  ASSUME NEW op, op \notin Lists, op # "GET/facilities/<facilityIdentifier>",
         NEW body \in ResponseDto(op)
  PROVE  IsAnswer(op, body)
BY DEF IsAnswer

LEMMA TypedParts ==
  ASSUME NEW r, Typed(r)
  PROVE  /\ ControlOK /\ StoreOK /\ InCourse(r) /\ TypesOK /\ r \in Requests
         /\ TypedStore(acbs) /\ faults \in 0..MaxFaults /\ UNCHANGED workload
         /\ pc[r] \notin {"received", "done"} => IsReady(r, pc[r], local[r])
BY DEF Typed, TypesOK, TypedRequest

\* The usual write, of something that exists.
LEMMA WritesIfTyped ==
  ASSUME NEW r, Typed(r), NEW exists, NEW result, NEW data, NEW text,
         AnswersIf(exists, result, data, text), exists => TypedStore(data),
         WritesTyped(r, result)
  PROVE  TypedStep(r)
<1>1. /\ IsResult(result) /\ result # Null
      /\ \A other : result = Ok(other) => exists /\ other = data
  BY OkIf
<1> QED BY <1>1, WritesTypedStep

\* A write that was done is of something that exists.
LEMMA DoneExists ==
  ASSUME NEW exists, NEW result, NEW data, NEW text, AnswersIf(exists, result, data, text),
         NEW outcome \in WriteOutcomes(result), outcome[1].status = 200
  PROVE  exists
<1>1. CASE ~exists
  <2>1. result = Refusal(text) /\ result.status = 400
    BY <1>1, Results DEF AnswersIf
  <2>2. outcome[1] = result \/ outcome[1] \in Faults
    BY DEF WriteOutcomes, FaultsLeft
  <2> QED BY <2>1, <2>2, FaultsAre
<1> QED BY <1>1 DEF AnswersIf

\* The usual GET: what it gives is what ACBS has.
LEMMA GivenIf ==
  ASSUME NEW exists, NEW result, NEW data, NEW text, AnswersIf(exists, result, data, text),
         NEW known, known \subseteq DOMAIN KnownErrors,
         NEW outcome \in GetOutcomes(GetCall(known, result)), IsGiven(outcome[1])
  PROVE  exists /\ outcome[1].data = data
<1>1. IsResult(result) /\ \A other : result = Ok(other) => exists /\ other = data
  BY OkIf
<1>2. IsCall(GetCall(known, result)) /\ GetCall(known, result).result = result
  BY <1>1, GetCalls
<1>3. result = Ok(outcome[1].data)
  BY <1>2, GetEnds
<1> QED BY <1>1, <1>3

AnswersOrNull(exists, result, data) ==
    /\ exists \in BOOLEAN
    /\ exists => result = Ok(data)
    /\ ~exists => result = Null

\* The GET whose answer is null where there is nothing.
LEMMA GivenUnlessNull ==
  ASSUME NEW exists, NEW result, NEW data, AnswersOrNull(exists, result, data),
         NEW known, known \subseteq DOMAIN KnownErrors,
         NEW outcome \in GetOutcomes(GetCall(known, result)), IsGiven(outcome[1])
  PROVE  exists /\ outcome[1].data = data
<1>1. IsResult(result) /\ \A other : result = Ok(other) => result # Null /\ other = data
  BY OkOrNull DEF AnswersOrNull
<1>2. IsCall(GetCall(known, result)) /\ GetCall(known, result).result = result
  BY <1>1, GetCalls
<1>3. result = Ok(outcome[1].data)
  BY <1>2, GetEnds
<1> QED BY <1>1, <1>3 DEF AnswersOrNull

\* The first item of a body that was validated.
ItemsValid(r, Item) == Range(Body(r)) \subseteq Item /\ Body(r) # <<>>

LEMMA FirstIsValid ==
  ASSUME NEW r, Typed(r), Op(r) \in ArrayOps, NEW Item, ItemsValid(r, Item)
  PROVE  Body(r)[1] \in Item
<1>1. Body(r)[1] \in Range(Body(r))
  BY FirstItem, TypedParts DEF ItemsValid
<1> QED BY <1>1 DEF ItemsValid

-----------------------------------------------------------------------------
(* Deals.                                                                  *)

LEMMA DealBeginsTyped ==
  ASSUME NEW r, Typed(r), pc[r] = "received", DealHandler(r)
  PROVE  TypedStep(r)
<1> DEFINE isIdentifier == DealIdentifier(r) \in Identifiers
<1>1. \/ Goto(r, "getDeal", None) /\ WithoutAcbs
      \/ BeginsTyped(r, "POST/deals", "createDeal", ItemsValid(r, CreateDealRequestItem))
      \/ BeginsTyped(r, "POST/deals/<dealIdentifier>/guarantees", "createDealGuarantee",
                     ItemsValid(r, CreateDealGuaranteeRequestItem))
      \/ BeginsTyped(r, "GET/deals/<dealIdentifier>/guarantees", "getDealGuarantees",
                     isIdentifier)
      \/ BeginsTyped(r, "POST/deals/<dealIdentifier>/investors", "createDealInvestor",
                     ItemsValid(r, CreateDealInvestorRequestItem))
      \/ BeginsTyped(r, "GET/deals/<dealIdentifier>/investors", "getDealInvestors",
                     isIdentifier)
  BY DEF DealHandler, GetDeal, ReceiveDeal, CreateDeal, UpdateBorrowingRestrictionForNewDeal,
         CreateGuaranteeForDeal, GetGuaranteesForDeal, CreateInvestorForDeal, GetDealInvestors,
         ValidatedItem, ValidatedItems, Validated, Receives, BeginsTyped, ItemsValid
<1> HIDE DEF isIdentifier
<1>2. ASSUME NEW label \in {"getDeal", "createDeal", "createDealGuarantee",
                            "getDealGuarantees", "createDealInvestor", "getDealInvestors"},
             DealReady(r, label)
      PROVE  IsReady(r, label, None)
  BY <1>2 DEF IsReady, PartyReady, FacilityReady, FacilityPartReady, LoanReady
<1>3. CASE Goto(r, "getDeal", None) /\ WithoutAcbs
  <2>1. IsReady(r, "getDeal", None)
    BY <1>2 DEF DealReady
  <2> QED BY <1>3, <2>1, GoesTypedStep
<1>4. CASE BeginsTyped(r, "POST/deals", "createDeal", ItemsValid(r, CreateDealRequestItem))
  <2>1. Op(r) \in ArrayOps
    BY <1>4 DEF BeginsTyped, ArrayOps
  <2>2. ItemsValid(r, CreateDealRequestItem) => IsReady(r, "createDeal", None)
    BY <1>2, <2>1, FirstIsValid DEF DealReady
  <2> QED BY <1>4, <2>2, BeginsTypedStep
<1>5. CASE BeginsTyped(r, "POST/deals/<dealIdentifier>/guarantees", "createDealGuarantee",
                       ItemsValid(r, CreateDealGuaranteeRequestItem))
  <2>1. Op(r) \in ArrayOps
    BY <1>5 DEF BeginsTyped, ArrayOps
  <2>2. ItemsValid(r, CreateDealGuaranteeRequestItem) => IsReady(r, "createDealGuarantee", None)
    BY <1>2, <2>1, FirstIsValid DEF DealReady
  <2> QED BY <1>5, <2>2, BeginsTypedStep
<1>6. CASE BeginsTyped(r, "POST/deals/<dealIdentifier>/investors", "createDealInvestor",
                       ItemsValid(r, CreateDealInvestorRequestItem))
  <2>1. Op(r) \in ArrayOps
    BY <1>6 DEF BeginsTyped, ArrayOps
  <2>2. ItemsValid(r, CreateDealInvestorRequestItem) => IsReady(r, "createDealInvestor", None)
    BY <1>2, <2>1, FirstIsValid DEF DealReady
  <2> QED BY <1>6, <2>2, BeginsTypedStep
<1>7. isIdentifier => IsReady(r, "getDealGuarantees", None) /\ IsReady(r, "getDealInvestors", None)
  BY <1>2 DEF DealReady, isIdentifier
<1>8. CASE BeginsTyped(r, "GET/deals/<dealIdentifier>/guarantees", "getDealGuarantees",
                       isIdentifier)
  BY <1>7, <1>8, BeginsTypedStep
<1>9. CASE BeginsTyped(r, "GET/deals/<dealIdentifier>/investors", "getDealInvestors",
                       isIdentifier)
  BY <1>7, <1>9, BeginsTypedStep
<1> QED BY <1>1, <1>3, <1>4, <1>5, <1>6, <1>8, <1>9

LEMMA GetDealTyped ==
  ASSUME NEW r, Typed(r), pc[r] = "getDeal", GetDeal(r)
  PROVE  TypedStep(r)
<1> DEFINE call == AcbsGetDealByIdentifier(DealIdentifier(r))
           held == DealIndexes(DealIdentifier(r))
           i == CHOOSE i \in held : TRUE
<1>1. Op(r) = "GET/deals/<dealIdentifier>"
  BY DealCourses, TypedParts
<1>2. PICK outcome \in GetOutcomes(call) :
        /\ UNCHANGED acbs
        /\ faults' = faults + outcome[2]
        /\ IF IsGiven(outcome[1])
           THEN \E name \in {None} \cup Texts : Reply(r, 200, DealOfAcbs(outcome[1].data, name))
           ELSE Throw(r, GetException(call, outcome[1]))
  BY DEF GetDeal, Receives, Get, IsGiven
<1>3. ASSUME NEW name \in {None} \cup Texts, NEW data, IsGiven(outcome[1]),
             Reply(r, 200, DealOfAcbs(data, name)), data = outcome[1].data
      PROVE  TypedLands(r)
  <2>1. (held = {} /\ call.result = Null) \/ (held # {} /\ call.result = Ok(acbs[i].data))
    BY DEF AcbsGetDealByIdentifier, GetCall
  <2>2. IsCall(call)
    <3>1. IsResult(call.result)
      BY <2>1 DEF IsResult
    <3>2. call = GetCall({}, call.result) /\ {} \subseteq DOMAIN KnownErrors
      BY DEF AcbsGetDealByIdentifier, GetCall
    <3> HIDE DEF call
    <3> QED BY <3>1, <3>2, GetCalls
  <2> HIDE DEF call
  <2>3. call.result = Ok(data)
    BY <1>3, <2>2, GetEnds
  <2>4. held # {} /\ data = acbs[i].data
    BY <2>1, <2>3, OkOrNull
  <2>5. i \in DOMAIN acbs /\ acbs[i].kind = "Deal"
    <3>1. i \in held
      BY <2>4
    <3> QED BY <3>1 DEF DealIndexes, Indexes
  <2> HIDE DEF i
  <2>6. IsDto("Deal", data)
    BY <2>4, <2>5, FoundTyped
  <2>7. DealOfAcbs(data, name) \in GetDealByIdentifierResponse
    BY <2>6, DealRead DEF IsDto
  <2>8. IsAnswer(Op(r), DealOfAcbs(data, name))
    BY <1>1, <2>7, ItemAnswer DEF ResponseDto, Lists
  <2> QED BY <1>3, <2>8, RepliesTyped
<1>4. GetsTyped(r, call)
  <2> HIDE DEF call
  <2> QED BY <1>2, <1>3 DEF GetsTyped
<1> HIDE DEF call
<1> QED BY <1>4, GetsTypedStep

LEMMA GetDealGuaranteesTyped ==
  ASSUME NEW r, Typed(r), pc[r] = "getDealGuarantees", GetGuaranteesForDeal(r)
  PROVE  TypedStep(r)
<1> DEFINE dealIdentifier == DealIdentifier(r)
           exists == DealIndexes(dealIdentifier) # {}
           data == DataOf("DealGuarantee", dealIdentifier)
           result == IfDealExists(dealIdentifier, Ok(data))
           call == GetCall({"DealNotFound"}, result)
           Read(guarantees) == [k \in DOMAIN guarantees |->
                                  DealGuaranteeOfAcbs(dealIdentifier, guarantees[k])]
<1>1. Op(r) = "GET/deals/<dealIdentifier>/guarantees" /\ dealIdentifier \in Identifiers
  BY DealCourses, TypedParts DEF IsReady, DealReady
<1>2. PICK outcome \in GetOutcomes(call) :
        /\ UNCHANGED acbs
        /\ faults' = faults + outcome[2]
        /\ IF IsGiven(outcome[1]) THEN Reply(r, 200, Read(outcome[1].data))
           ELSE Throw(r, GetException(call, outcome[1]))
  BY DEF GetGuaranteesForDeal, Receives, Get, IsGiven, AcbsGetGuaranteesForDeal
<1>3. IsAnswer(Op(r), Read(data))
  <2>1. ASSUME NEW k \in DOMAIN data
        PROVE  DealGuaranteeOfAcbs(dealIdentifier, data[k]) \in GetDealGuaranteeResponseItem
    <3> HIDE DEF dealIdentifier
    <3>1. IsDto("DealGuarantee", data[k])
      BY PartsTyped
    <3> QED BY <1>1, <3>1, DealGuaranteeRead DEF IsDto
  <2>2. ResponseDto(Op(r)) = GetDealGuaranteeResponseItem /\ Op(r) \in Lists
    BY <1>1 DEF ResponseDto, Lists
  <2> HIDE DEF data
  <2> QED BY <2>1, <2>2, ListAnswer
<1>4. AnswersIf(exists, result, data, "DealNotFound")
  BY DEF AnswersIf, IfDealExists
<1>5. IsGiven(outcome[1]) => outcome[1].data = data
  <2> HIDE DEF exists, result, data
  <2> QED BY <1>4, GivenIf, KnownTexts
<1> HIDE DEF data, call, Read
<1>6. IsGiven(outcome[1]) => TypedLands(r)
  BY <1>2, <1>3, <1>5, RepliesTyped
<1>7. GetsTyped(r, call)
  BY <1>2, <1>6 DEF GetsTyped
<1> QED BY <1>7, GetsTypedStep

LEMMA GetDealInvestorsTyped ==
  ASSUME NEW r, Typed(r), pc[r] = "getDealInvestors", GetDealInvestors(r)
  PROVE  TypedStep(r)
<1> DEFINE dealIdentifier == DealIdentifier(r)
           exists == DealIndexes(dealIdentifier) # {}
           data == DataOf("DealParty", dealIdentifier)
           result == IF ~exists THEN Null ELSE Ok(data)
           call == GetCall({}, result)
           Read(investors) == [k \in DOMAIN investors |->
                                 DealInvestorOfAcbs(dealIdentifier, investors[k])]
<1>1. Op(r) = "GET/deals/<dealIdentifier>/investors" /\ dealIdentifier \in Identifiers
  BY DealCourses, TypedParts DEF IsReady, DealReady
<1>2. PICK outcome \in GetOutcomes(call) :
        /\ UNCHANGED acbs
        /\ faults' = faults + outcome[2]
        /\ IF IsGiven(outcome[1]) THEN Reply(r, 200, Read(outcome[1].data))
           ELSE Throw(r, GetException(call, outcome[1]))
  <2>1. AcbsGetDealPartiesForDeal(dealIdentifier) = call
    BY DEF AcbsGetDealPartiesForDeal
  <2> HIDE DEF call
  <2> QED BY <2>1 DEF GetDealInvestors, Receives, Get, IsGiven
<1>3. IsAnswer(Op(r), Read(data))
  <2>1. ASSUME NEW k \in DOMAIN data
        PROVE  DealInvestorOfAcbs(dealIdentifier, data[k]) \in GetDealInvestorResponseDto
    <3> HIDE DEF dealIdentifier
    <3>1. IsDto("DealParty", data[k])
      BY PartsTyped
    <3> QED BY <1>1, <3>1, DealInvestorRead DEF IsDto
  <2>2. ResponseDto(Op(r)) = GetDealInvestorResponseDto /\ Op(r) \in Lists
    BY <1>1 DEF ResponseDto, Lists
  <2> HIDE DEF data
  <2> QED BY <2>1, <2>2, ListAnswer
<1>4. AnswersOrNull(exists, result, data)
  BY DEF AnswersOrNull
<1>5. IsGiven(outcome[1]) => outcome[1].data = data
  <2> HIDE DEF exists, result, data
  <2> QED BY <1>4, GivenUnlessNull
<1> HIDE DEF data, call, Read
<1>6. IsGiven(outcome[1]) => TypedLands(r)
  BY <1>2, <1>3, <1>5, RepliesTyped
<1>7. GetsTyped(r, call)
  BY <1>2, <1>6 DEF GetsTyped
<1> QED BY <1>7, GetsTypedStep

LEMMA CreateDealTyped ==
  ASSUME NEW r, Typed(r), CreateDeal(r)
  PROVE  TypedStep(r)
<1> DEFINE deal == BuildAcbsRequestBodyToCreateDeal(Body(r)[1])
           isNew == DealIndexes(deal.DealIdentifier) = {}
           data == Added(r, "Deal", GLOBAL.portfolioIdentifier, deal)
           result == IF isNew THEN Ok(data) ELSE Refusal("other")
<1>1. pc[r] = "createDeal" /\ Body(r)[1] \in CreateDealRequestItem
  BY TypedParts DEF CreateDeal, IsReady, DealReady
<1>2. AnswersIf(isNew, result, data, "other")
  BY DEF AnswersIf
<1>3. TypedStore(data)
  <2>1. IsDto("Deal", deal)
    BY <1>1, DealSent DEF IsDto
  <2> HIDE DEF deal
  <2> QED BY <2>1, AddsTyped
<1>4. Goto(r, "restrictDeal", None) => TypedLands(r)
  <2>1. IsReady(r, "restrictDeal", None)
    BY <1>1 DEF IsReady, PartyReady, DealReady, FacilityReady, FacilityPartReady, LoanReady
  <2> QED BY <2>1, GoesTyped
<1>5. WritesTyped(r, result)
  BY <1>4 DEF CreateDeal, AcbsCreateDeal, Write, WriteOr, WritesTyped
<1> HIDE DEF isNew, data, result
<1> QED BY <1>2, <1>3, <1>5, WritesIfTyped

LEMMA DealIsIdentified ==
  ASSUME NEW r, Typed(r), DealIndexes(DealIdentifier(r)) # {}
  PROVE  DealIdentifier(r) \in Identifiers
<1>1. PICK i \in DealIndexes(DealIdentifier(r)) : TRUE
  OBVIOUS
<1>2. i \in DOMAIN acbs /\ acbs[i].kind = "Deal"
      /\ acbs[i].data.DealIdentifier = DealIdentifier(r)
  BY <1>1 DEF DealIndexes, Indexes
<1>3. acbs[i].data \in AcbsCreateDealDto
  BY <1>2, FoundTyped DEF IsDto
<1> QED BY <1>2, <1>3 DEF AcbsCreateDealDto

LEMMA AnswersDeal ==
  ASSUME NEW r, Typed(r), NEW dealIdentifier \in Identifiers, AnswerDeal(r, dealIdentifier),
         Op(r) \in {"POST/deals", "POST/deals/<dealIdentifier>/guarantees",
                    "POST/deals/<dealIdentifier>/investors"}
  PROVE  TypedLands(r)
<1> DEFINE body == [dealIdentifier |-> dealIdentifier]
<1>1. ResponseDto(Op(r)) = CreateDealResponse
  BY DEF ResponseDto
<1>2. body \in ResponseDto(Op(r))
  BY <1>1 DEF CreateDealResponse
<1>3. Reply(r, 201, body)
  BY DEF AnswerDeal
<1> HIDE DEF body
<1>4. IsAnswer(Op(r), body)
  BY <1>2, ItemAnswer DEF Lists
<1> QED BY <1>3, <1>4, RepliesTyped

LEMMA RestrictDealTyped ==
  ASSUME NEW r, Typed(r), UpdateBorrowingRestrictionForNewDeal(r)
  PROVE  TypedStep(r)
<1> DEFINE dealIdentifier == Body(r)[1].dealIdentifier
           restriction == BuildBorrowingRestrictionToUpdateInAcbs
           held == Indexes("BorrowingRestriction", dealIdentifier)
           index == CHOOSE i \in held : TRUE
           data == Restricted(r, dealIdentifier, restriction)
           exists == DealIndexes(dealIdentifier) # {}
           result == IfDealExists(dealIdentifier, Ok(data))
<1>1. pc[r] = "restrictDeal" /\ Body(r)[1] \in CreateDealRequestItem /\ Op(r) = "POST/deals"
  BY TypedParts, DealCourses DEF UpdateBorrowingRestrictionForNewDeal, IsReady, DealReady
<1>2. AnswersIf(exists, result, data, "DealNotFound")
  BY DEF AnswersIf, IfDealExists
<1>3. TypedStore(data)
  <2>1. IsDto("BorrowingRestriction", restriction)
    BY BorrowingRestrictionSent DEF IsDto
  <2> HIDE DEF restriction
  <2>2. CASE held = {}
    <3>1. TypedStore(Added(r, "BorrowingRestriction", dealIdentifier, restriction))
      BY <2>1, AddsTyped
    <3> QED BY <2>2, <3>1 DEF Restricted
  <2>3. CASE held # {}
    <3>1. index \in DOMAIN acbs /\ acbs[index].kind = "BorrowingRestriction"
      BY <2>3 DEF Indexes
    <3> HIDE DEF index
    <3>2. TypedStore(Replaced(r, index, restriction))
      BY <2>1, <3>1, ReplacesTyped
    <3> QED BY <2>3, <3>2 DEF Restricted, index
  <2> QED BY <2>2, <2>3
<1>4. AnswerDeal(r, dealIdentifier) => TypedLands(r)
  BY <1>1, AnswersDeal DEF CreateDealRequestItem
<1>5. WritesTyped(r, result)
  BY <1>4 DEF UpdateBorrowingRestrictionForNewDeal, AcbsUpdateBorrowingRestrictionForDeal,
              WriteOr, WritesTyped
<1> HIDE DEF exists, data, result
<1> QED BY <1>2, <1>3, <1>5, WritesIfTyped

LEMMA CreateDealGuaranteeTyped ==
  ASSUME NEW r, Typed(r), pc[r] = "createDealGuarantee", CreateGuaranteeForDeal(r)
  PROVE  TypedStep(r)
<1> DEFINE dealIdentifier == DealIdentifier(r)
           guarantee == DealGuaranteeToCreateInAcbs(Body(r)[1])
           data == Added(r, "DealGuarantee", dealIdentifier, guarantee)
           exists == DealIndexes(dealIdentifier) # {}
           result == IfDealExists(dealIdentifier, Ok(data))
<1>1. Body(r)[1] \in CreateDealGuaranteeRequestItem
      /\ Op(r) = "POST/deals/<dealIdentifier>/guarantees"
  BY TypedParts, DealCourses DEF IsReady, DealReady
<1>2. AnswersIf(exists, result, data, "DealNotFound")
  BY DEF AnswersIf, IfDealExists
<1>3. TypedStore(data)
  <2>1. IsDto("DealGuarantee", guarantee)
    BY <1>1, DealGuaranteeSent DEF IsDto
  <2> HIDE DEF guarantee
  <2> QED BY <2>1, AddsTyped
<1>4. exists /\ AnswerDeal(r, dealIdentifier) => TypedLands(r)
  BY <1>1, AnswersDeal, DealIsIdentified
<1>5. PICK outcome \in WriteOutcomes(result) :
        /\ acbs' = outcome[2]
        /\ faults' = faults + outcome[3]
        /\ IF outcome[1].status = 200 THEN AnswerDeal(r, dealIdentifier)
           ELSE Throw(r, WrapAcbsHttpPostOrPutError({"DealNotFound"}, outcome[1]))
  BY DEF CreateGuaranteeForDeal, Receives, AcbsCreateGuaranteeForDeal, Write, WriteOr
<1> HIDE DEF exists, data, result, dealIdentifier
<1>6. outcome[1].status = 200 => TypedLands(r)
  BY <1>2, <1>4, <1>5, DoneExists
<1>7. WritesTyped(r, result)
  BY <1>5, <1>6 DEF WritesTyped
<1> QED BY <1>2, <1>3, <1>7, WritesIfTyped

LEMMA CreateDealInvestorTyped ==
  ASSUME NEW r, Typed(r), pc[r] = "createDealInvestor", CreateInvestorForDeal(r)
  PROVE  TypedStep(r)
<1> DEFINE dealIdentifier == DealIdentifier(r)
           investor == DealInvestorToCreateInAcbs(Body(r)[1])
           data == Added(r, "DealParty", dealIdentifier, investor)
           exists == DealIndexes(dealIdentifier) # {}
           result == IfDealExists(dealIdentifier, Ok(data))
<1>1. Body(r)[1] \in CreateDealInvestorRequestItem
      /\ Op(r) = "POST/deals/<dealIdentifier>/investors"
  BY TypedParts, DealCourses DEF IsReady, DealReady
<1>2. AnswersIf(exists, result, data, "DealNotFound")
  BY DEF AnswersIf, IfDealExists
<1>3. TypedStore(data)
  <2>1. IsDto("DealParty", investor)
    BY <1>1, DealInvestorSent DEF IsDto
  <2> HIDE DEF investor
  <2> QED BY <2>1, AddsTyped
<1>4. exists /\ AnswerDeal(r, dealIdentifier) => TypedLands(r)
  BY <1>1, AnswersDeal, DealIsIdentified
<1>5. PICK outcome \in WriteOutcomes(result) :
        /\ acbs' = outcome[2]
        /\ faults' = faults + outcome[3]
        /\ IF outcome[1].status = 200 THEN AnswerDeal(r, dealIdentifier)
           ELSE Throw(r, WrapAcbsHttpPostOrPutError({"DealNotFound"}, outcome[1]))
  BY DEF CreateInvestorForDeal, Receives, AcbsCreateInvestorForDeal, Write, WriteOr
<1> HIDE DEF exists, data, result, dealIdentifier
<1>6. outcome[1].status = 200 => TypedLands(r)
  BY <1>2, <1>4, <1>5, DoneExists
<1>7. WritesTyped(r, result)
  BY <1>5, <1>6 DEF WritesTyped
<1> QED BY <1>2, <1>3, <1>7, WritesIfTyped

LEMMA DealTyped ==
  ASSUME NEW r, Typed(r), DealHandler(r)
  PROVE  TypedStep(r)
<1>1. CASE pc[r] = "received"
  BY <1>1, DealBeginsTyped
<1>2. CASE pc[r] # "received"
  <2>1. \/ pc[r] = "getDeal" /\ GetDeal(r)
        \/ pc[r] = "getDealGuarantees" /\ GetGuaranteesForDeal(r)
        \/ pc[r] = "getDealInvestors" /\ GetDealInvestors(r)
        \/ pc[r] = "createDealGuarantee" /\ CreateGuaranteeForDeal(r)
        \/ pc[r] = "createDealInvestor" /\ CreateInvestorForDeal(r)
        \/ CreateDeal(r)
        \/ UpdateBorrowingRestrictionForNewDeal(r)
    BY <1>2 DEF DealHandler, GetDeal, GetGuaranteesForDeal, GetDealInvestors, ReceiveDeal,
                CreateGuaranteeForDeal, CreateInvestorForDeal, Receives
  <2> QED BY <2>1, GetDealTyped, GetDealGuaranteesTyped, GetDealInvestorsTyped,
             CreateDealGuaranteeTyped, CreateDealInvestorTyped, CreateDealTyped,
             RestrictDealTyped
<1> QED BY <1>1, <1>2

-----------------------------------------------------------------------------
(* Facilities.                                                             *)

\* The operations that answer with the identifier of a facility, or of a bundle.
FacilityAnswered ==
    {"POST/facilities", "PUT/facilities/<facilityIdentifier>",
     "POST/facilities/<facilityIdentifier>/covenants",
     "PATCH/facilities/<facilityIdentifier>/covenants",
     "POST/facilities/<facilityIdentifier>/guarantees",
     "PATCH/facilities/<facilityIdentifier>/guarantees",
     "POST/facilities/<facilityIdentifier>/investors",
     "POST/facilities/<facilityIdentifier>/fixed-fees"}
BundleAnswered ==
    {"PUT/facilities/<facilityIdentifier>",
     "POST/facilities/<facilityIdentifier>/activation-transactions",
     "POST/facilities/<facilityIdentifier>/fixed-fees/amendments/amount",
     "POST/facilities/<facilityIdentifier>/loans",
     "POST/facilities/<facilityIdentifier>/loans/<loanIdentifier>/amendments/amount"}

LEMMA OtherAnswers ==
  ASSUME NEW op \in FacilityAnswered \cup BundleAnswered
  PROVE  /\ ResponseDto(op) = CreateFacilityResponse \cup CreateBundleResponse
         /\ op \notin Lists /\ op # "GET/facilities/<facilityIdentifier>"
BY DEF ResponseDto, Lists, FacilityAnswered, BundleAnswered

LEMMA AnswersFacility ==
  ASSUME NEW r, Typed(r), Op(r) \in FacilityAnswered, NEW facilityIdentifier \in Identifiers,
         NEW status \in {200, 201},
         Reply(r, status, [facilityIdentifier |-> facilityIdentifier])
  PROVE  TypedLands(r)
<1> DEFINE body == [facilityIdentifier |-> facilityIdentifier]
<1>1. body \in CreateFacilityResponse
  BY DEF CreateFacilityResponse
<1> HIDE DEF body
<1>2. IsAnswer(Op(r), body)
  BY <1>1, OtherAnswers, ItemAnswer
<1>3. Reply(r, status, body)
  BY DEF body
<1> QED BY <1>2, <1>3, RepliesTyped

\* What every handler that asks for a bundle does.
LEMMA BundleTyped ==
  ASSUME NEW r, Typed(r), Op(r) \in BundleAnswered, NEW status \in {200, 201}, NEW bundle,
         IsDto("BundleInformation", bundle), CreateBundleInformation(r, status, bundle)
  PROVE  TypedStep(r)
<1> DEFINE text == KnownErrorForAction(bundle.BundleMessageList[1])
           accepted == \A message \in Range(bundle.BundleMessageList) : ~Refused(message)
           data == Added(r, "BundleInformation", None, bundle)
           result == IF \E message \in Range(bundle.BundleMessageList) : Refused(message)
                     THEN Refusal(text) ELSE Ok(data)
           body == [bundleIdentifier |-> Len(acbs) + 1]
<1>1. AnswersIf(accepted, result, data, text)
  BY DEF AnswersIf
<1>2. TypedStore(data)
  BY AddsTyped
<1>3. Reply(r, status, body) => TypedLands(r)
  <2>1. Len(acbs) \in Nat
    BY IsASequence DEF Typed, StoreOK, IsStore
  <2>2. body \in CreateBundleResponse
    BY <2>1 DEF CreateBundleResponse, BundleIdentifiers
  <2> HIDE DEF body
  <2>3. IsAnswer(Op(r), body)
    BY <2>2, OtherAnswers, ItemAnswer
  <2> QED BY <2>3, RepliesTyped
<1>4. WritesTyped(r, result)
  <2> HIDE DEF body, data, text
  <2>1. PICK outcome \in WriteOutcomes(result) :
          /\ acbs' = outcome[2]
          /\ faults' = faults + outcome[3]
          /\ IF outcome[1].status = 200 THEN Reply(r, status, body)
             ELSE Throw(r, WrapAcbsHttpPostOrPutError(
                               KnownErrorsForAction(bundle.BundleMessageList[1]), outcome[1]))
    BY DEF CreateBundleInformation, Write, WriteOr, body, data, text
  <2> QED BY <1>3, <2>1 DEF WritesTyped
<1> HIDE DEF text, accepted, data, result
<1> QED BY <1>1, <1>2, <1>4, WritesIfTyped

LEMMA FacilityBeginsTyped ==
  ASSUME NEW r, Typed(r), pc[r] = "received", FacilityHandler(r)
  PROVE  TypedStep(r)
<1> DEFINE items == \A item \in Range(Body(r)) :
                        IsBaseFacilityRequestItemWithFacilityIdentifier(item)
           isIdentifier == FacilityIdentifier(r) \in Identifiers
           issues == Body(r).issueDate # None /\ ~IsFacilityUnissued(Body(r).facilityStageCode)
           creates == items /\ Body(r) # <<>>
           updates == /\ Params(r).op \in FACILITY_UPDATE_OPERATIONS
                      /\ isIdentifier
                      /\ IsBaseFacilityRequestItem(Body(r))
                      /\ (Params(r).op = "issue" => issues)
<1>1. \/ BeginsTyped(r, "GET/facilities/<facilityIdentifier>", "getFacility", isIdentifier)
      \/ BeginsTyped(r, "POST/facilities", "createFacility", creates)
      \/ BeginsTyped(r, "PUT/facilities/<facilityIdentifier>", "getFacilityToUpdate", updates)
  <2> HIDE DEF isIdentifier, items, issues
  <2>1. CASE GetFacility(r)
    BY <2>1 DEF GetFacility, Validated, Receives, BeginsTyped, isIdentifier
  <2>2. CASE CreateFacility(r)
    BY <2>2 DEF CreateFacility, ValidatedItems, Validated, Receives, BeginsTyped, items
  <2>3. CASE ReceiveFacilityUpdate(r)
    BY <2>3 DEF ReceiveFacilityUpdate, Validated, Receives, BeginsTyped, isIdentifier, issues
  <2>4. ~GetFacilityToUpdate(r) /\ ~UpdateFacility(r) /\ ~AmendFacilityAmount(r)
    BY DEF GetFacilityToUpdate, UpdateFacility, AmendFacilityAmount
  <2> QED BY <2>1, <2>2, <2>3, <2>4 DEF FacilityHandler
<1>2. ASSUME NEW label \in {"getFacility", "createFacility", "getFacilityToUpdate"},
             FacilityReady(r, label, None)
      PROVE  IsReady(r, label, None)
  BY <1>2 DEF IsReady, PartyReady, DealReady, FacilityPartReady, LoanReady
<1>3. IsReady(r, "getFacility", None)
  BY <1>2 DEF FacilityReady
<1>4. updates => IsReady(r, "getFacilityToUpdate", None)
  BY <1>2 DEF FacilityReady
<1>5. ASSUME creates, Op(r) = "POST/facilities"
      PROVE  IsReady(r, "createFacility", None)
  <2>1. Body(r)[1] \in Range(Body(r))
    BY <1>5, FirstItem, TypedParts DEF ArrayOps
  <2>2. IsBaseFacilityRequestItemWithFacilityIdentifier(Body(r)[1])
    BY <1>5, <2>1
  <2> QED BY <1>2, <2>2 DEF FacilityReady
<1> HIDE DEF items, isIdentifier, issues, creates, updates
<1>6. CASE BeginsTyped(r, "GET/facilities/<facilityIdentifier>", "getFacility", isIdentifier)
  BY <1>3, <1>6, BeginsTypedStep
<1>7. CASE BeginsTyped(r, "POST/facilities", "createFacility", creates)
  <2>1. Op(r) = "POST/facilities"
    BY <1>7 DEF BeginsTyped
  <2> QED BY <1>5, <1>7, <2>1, BeginsTypedStep
<1>8. CASE BeginsTyped(r, "PUT/facilities/<facilityIdentifier>", "getFacilityToUpdate", updates)
  BY <1>4, <1>8, BeginsTypedStep
<1> QED BY <1>1, <1>6, <1>7, <1>8

\* What a GET of a facility gives is a facility of its DTO.
LEMMA FacilityGiven ==
  ASSUME NEW r, Typed(r), NEW facilityIdentifier,
         NEW outcome \in GetOutcomes(AcbsGetFacilityByIdentifier(facilityIdentifier)),
         IsGiven(outcome[1])
  PROVE  IsAcbsFacility(outcome[1].data)
<1>1. AcbsGetFacilityByIdentifier(facilityIdentifier).result = Ok(outcome[1].data)
  BY GetsFacility, GetEnds
<1>2. PICK i \in DOMAIN acbs : /\ FacilityIndexes(acbs, facilityIdentifier) = {i}
                               /\ acbs[i].data = outcome[1].data
  BY <1>1, FacilityFound, TypedParts
<1>3. acbs[i].kind = "Facility"
  BY <1>2 DEF FacilityIndexes
<1> QED BY <1>2, <1>3, FoundTyped DEF IsDto

LEMMA GetFacilityTyped ==
  ASSUME NEW r, Typed(r), pc[r] = "getFacility", GetFacility(r)
  PROVE  TypedStep(r)
<1> DEFINE call == AcbsGetFacilityByIdentifier(FacilityIdentifier(r))
<1>1. Op(r) = "GET/facilities/<facilityIdentifier>"
  BY FacilityCourses, TypedParts
<1>2. PICK outcome \in GetOutcomes(call) :
        /\ UNCHANGED acbs
        /\ faults' = faults + outcome[2]
        /\ IF IsGiven(outcome[1])
           THEN \E obligorName \in Texts :
                    Reply(r, 200, FacilityOfAcbs(outcome[1].data, obligorName))
           ELSE Throw(r, GetException(call, outcome[1]))
  BY DEF GetFacility, Receives, Get, IsGiven
<1>3. ASSUME NEW obligorName, Reply(r, 200, FacilityOfAcbs(outcome[1].data, obligorName)),
             IsGiven(outcome[1])
      PROVE  TypedLands(r)
  <2>1. IsGetFacilityByIdentifierResponse(FacilityOfAcbs(outcome[1].data, obligorName))
    BY <1>3, FacilityGiven, FacilityRead
  <2>2. IsAnswer(Op(r), FacilityOfAcbs(outcome[1].data, obligorName))
    BY <1>1, <2>1 DEF IsAnswer, Lists
  <2> QED BY <1>3, <2>2, RepliesTyped
<1> HIDE DEF call
<1>4. GetsTyped(r, call)
  BY <1>2, <1>3 DEF GetsTyped
<1> QED BY <1>4, GetsTypedStep

LEMMA CreateFacilityTyped ==
  ASSUME NEW r, Typed(r), pc[r] = "createFacility", CreateFacility(r)
  PROVE  TypedStep(r)
<1> DEFINE facilityIdentifier == Body(r)[1].facilityIdentifier
           isNew == ~FacilityExists(facilityIdentifier)
           facility == [FacilityIdentifier |-> facilityIdentifier,
                        FacilityStatusCode |-> FACILITY_STATUSES.PENDING]
                       ++ BuildCreateAcbsFacilityRequest(Body(r)[1])
           data == Added(r, "Facility", None, facility)
           result == IF FacilityExists(facilityIdentifier) THEN Refusal("other") ELSE Ok(data)
           body == [facilityIdentifier |-> facilityIdentifier]
<1>1. Op(r) = "POST/facilities" /\ IsBaseFacilityRequestItemWithFacilityIdentifier(Body(r)[1])
  BY TypedParts, FacilityCourses DEF IsReady, FacilityReady
<1>2. AnswersIf(isNew, result, data, "other")
  BY DEF AnswersIf, FacilityExists
<1>3. TypedStore(data)
  <2>1. IsDto("Facility", facility)
    BY <1>1, FacilityCreated DEF IsDto
  <2> HIDE DEF facility
  <2> QED BY <2>1, AddsTyped
<1>4. Reply(r, 201, body) => TypedLands(r)
  <2>1. facilityIdentifier \in Identifiers
    BY <1>1 DEF IsBaseFacilityRequestItemWithFacilityIdentifier
  <2> QED BY <1>1, <2>1, AnswersFacility DEF FacilityAnswered
<1>5. WritesTyped(r, result)
  <2> HIDE DEF data, facilityIdentifier
  <2>1. PICK outcome \in WriteOutcomes(result) :
          /\ acbs' = outcome[2]
          /\ faults' = faults + outcome[3]
          /\ IF outcome[1].status = 200 THEN Reply(r, 201, body)
             ELSE Throw(r, WrapAcbsHttpPostOrPutError({}, outcome[1]))
    BY DEF CreateFacility, Receives, AcbsCreateFacility, Write, WriteOr, data, facilityIdentifier
  <2> QED BY <1>4, <2>1 DEF WritesTyped
<1> HIDE DEF isNew, data, result
<1> QED BY <1>2, <1>3, <1>5, WritesIfTyped

LEMMA GetFacilityToUpdateTyped ==
  ASSUME NEW r, Typed(r), GetFacilityToUpdate(r)
  PROVE  TypedStep(r)
<1> DEFINE call == AcbsGetFacilityByIdentifier(FacilityIdentifier(r))
           next == IF Params(r).op = "amendAmount" THEN "amendFacility" ELSE "putFacility"
<1>1. FacilityIdentifier(r) \in Identifiers /\ IsBaseFacilityRequestItem(Body(r))
  BY TypedParts DEF GetFacilityToUpdate, IsReady, FacilityReady
<1>2. PICK outcome \in GetOutcomes(call) :
        /\ UNCHANGED acbs
        /\ faults' = faults + outcome[2]
        /\ IF IsGiven(outcome[1]) THEN Goto(r, next, outcome[1].data)
           ELSE Throw(r, GetException(call, outcome[1]))
  BY DEF GetFacilityToUpdate, Get, IsGiven
<1>3. ASSUME IsGiven(outcome[1])  PROVE TypedLands(r)
  <2>1. IsAcbsFacility(outcome[1].data)
    BY <1>3, FacilityGiven
  <2>2. next \in {"amendFacility", "putFacility"}
    OBVIOUS
  <2> HIDE DEF next
  <2>3. IsReady(r, next, outcome[1].data)
    BY <1>1, <2>1, <2>2
       DEF IsReady, PartyReady, DealReady, FacilityReady, FacilityPartReady, LoanReady
  <2> QED BY <1>2, <1>3, <2>2, <2>3, GoesTyped
<1> HIDE DEF call
<1>4. GetsTyped(r, call)
  BY <1>2, <1>3 DEF GetsTyped
<1> QED BY <1>4, GetsTypedStep

LEMMA UpdateFacilityTyped ==
  ASSUME NEW r, Typed(r), UpdateFacility(r)
  PROVE  TypedStep(r)
<1> DEFINE facilityIdentifier == FacilityIdentifier(r)
           exists == FacilityExists(facilityIdentifier)
           i == FacilityIndex(facilityIdentifier)
           facility == [FacilityIdentifier |-> facilityIdentifier,
                        FacilityStatusCode |-> acbs[i].data.FacilityStatusCode]
                       ++ BuildAcbsUpdateFacilityRequest(Body(r), facilityIdentifier, local[r])
           data == Replaced(r, i, facility)
           result == IfFacilityExists(facilityIdentifier, "FacilityNotFound", Ok(data))
           body == [facilityIdentifier |-> facilityIdentifier]
<1>1. /\ pc[r] = "putFacility" /\ Op(r) = "PUT/facilities/<facilityIdentifier>"
      /\ facilityIdentifier \in Identifiers /\ IsBaseFacilityRequestItem(Body(r))
      /\ IsAcbsFacility(local[r])
  BY TypedParts, FacilityCourses DEF UpdateFacility, IsReady, FacilityReady
<1>2. AnswersIf(exists, result, data, "FacilityNotFound")
  BY DEF AnswersIf, IfFacilityExists, FacilityExists
<1>3. ASSUME exists  PROVE TypedStore(data)
  <2>1. i \in DOMAIN acbs /\ acbs[i].kind = "Facility"
    BY <1>3 DEF FacilityExists, FacilityIndex, FacilityIndexes
  <2> HIDE DEF i
  <2>2. acbs[i].data.FacilityStatusCode \in Range(FACILITY_STATUSES)
    BY <2>1, FoundTyped DEF IsDto, IsAcbsFacility
  <2> HIDE DEF facilityIdentifier
  <2>3. IsDto("Facility", facility)
    BY <1>1, <2>2, FacilityUpdated DEF IsDto
  <2> HIDE DEF facility
  <2> QED BY <2>1, <2>3, ReplacesTyped
<1>4. Reply(r, 200, body) => TypedLands(r)
  BY <1>1, AnswersFacility DEF FacilityAnswered
<1>5. WritesTyped(r, result)
  <2> HIDE DEF data, facilityIdentifier
  <2>1. PICK outcome \in WriteOutcomes(result) :
          /\ acbs' = outcome[2]
          /\ faults' = faults + outcome[3]
          /\ IF outcome[1].status = 200 THEN Reply(r, 200, body)
             ELSE Throw(r, WrapAcbsHttpPostOrPutError({"FacilityNotFound"}, outcome[1]))
    BY DEF UpdateFacility, AcbsUpdateFacilityByIdentifier, Write, WriteOr, data,
           facilityIdentifier
  <2> QED BY <1>4, <2>1 DEF WritesTyped
<1> HIDE DEF exists, data, result
<1> QED BY <1>2, <1>3, <1>5, WritesIfTyped

LEMMA AmendFacilityTyped ==
  ASSUME NEW r, Typed(r), AmendFacilityAmount(r)
  PROVE  TypedStep(r)
<1> DEFINE message == BuildAmendFacilityAmountMessage(Body(r), local[r])
           code == FACILITY_AMOUNT_TRANSACTION.initialBundleStatusCode
           bundle == BundleInformation(code, None, <<message>>)
<1>1. /\ Op(r) = "PUT/facilities/<facilityIdentifier>"
      /\ IsBaseFacilityRequestItem(Body(r)) /\ IsAcbsFacility(local[r])
  BY TypedParts, FacilityCourses DEF AmendFacilityAmount, IsReady, FacilityReady
<1>2. CreateBundleInformation(r, 200, bundle)
  BY DEF AmendFacilityAmount
<1>3. message \in FacilityAmountTransaction
  BY <1>1, AmountMessage
<1>4. message.type = "FacilityAmountTransaction"
  BY DEF BuildAmendFacilityAmountMessage
<1> HIDE DEF message
<1>5. <<message>> \in Seq(BundleAction) /\ ~IsNewLoanRequest(<<message>>[1])
  <2>1. message \in BundleAction
    BY <1>3 DEF BundleAction
  <2> QED BY <1>4, <2>1 DEF IsNewLoanRequest
<1>6. code \in InitialBundleStatusCodes
  BY DEF FACILITY_AMOUNT_TRANSACTION, SUBMIT_FOR_POSTING, InitialBundleStatusCodes
<1> DEFINE messages == <<message>>
<1> HIDE DEF code, messages
<1>7. IsDto("BundleInformation", BundleInformation(code, None, messages))
  BY <1>5, <1>6, BundleSent DEF messages, Maybe
<1>8. IsDto("BundleInformation", bundle)
  BY <1>7 DEF messages
<1> HIDE DEF bundle
<1> QED BY <1>1, <1>2, <1>8, BundleTyped DEF BundleAnswered

LEMMA FacilityTyped ==
  ASSUME NEW r, Typed(r), FacilityHandler(r)
  PROVE  TypedStep(r)
<1>1. CASE pc[r] = "received"
  BY <1>1, FacilityBeginsTyped
<1>2. CASE pc[r] # "received"
  <2>1. \/ pc[r] = "getFacility" /\ GetFacility(r)
        \/ pc[r] = "createFacility" /\ CreateFacility(r)
        \/ GetFacilityToUpdate(r)
        \/ UpdateFacility(r)
        \/ AmendFacilityAmount(r)
    BY <1>2 DEF FacilityHandler, GetFacility, CreateFacility, ReceiveFacilityUpdate, Receives
  <2> QED BY <2>1, GetFacilityTyped, CreateFacilityTyped, GetFacilityToUpdateTyped,
             UpdateFacilityTyped, AmendFacilityTyped
<1> QED BY <1>1, <1>2

-----------------------------------------------------------------------------
(* The parts of a facility.                                                *)

\* The labels at which a request for a part of a facility begins.
PartLabels ==
    {"getFacilityOfCovenant", "getCovenants", "getCovenantsToUpdate", "createFacilityGuarantee",
     "getFacilityGuarantees", "getGuaranteesToUpdate", "createFacilityInvestor",
     "getFacilityInvestors"}

LEMMA FacilityPartBeginsTyped ==
  ASSUME NEW r, Typed(r), pc[r] = "received", FacilityPartHandler(r)
  PROVE  TypedStep(r)
<1> DEFINE isIdentifier == FacilityIdentifier(r) \in Identifiers
           covenants == \A item \in Range(Body(r)) : item \in CreateFacilityCovenantRequestItem
           readsCovenants == isIdentifier /\ covenants
           patchesCovenants == isIdentifier /\ Body(r) \in UpdateFacilityCovenantsRequestDto
           patchesGuarantees == isIdentifier /\ Body(r) \in UpdateFacilityGuaranteesRequestDto
           addsGuarantee == isIdentifier /\ ItemsValid(r, CreateFacilityGuaranteeRequestItem)
           addsInvestor == isIdentifier /\ ItemsValid(r, CreateFacilityInvestorRequestItem)
<1>1. \/ BeginsTyped(r, "POST/facilities/<facilityIdentifier>/covenants",
                     "getFacilityOfCovenant", readsCovenants)
      \/ BeginsTyped(r, "GET/facilities/<facilityIdentifier>/covenants", "getCovenants",
                     isIdentifier)
      \/ BeginsTyped(r, "PATCH/facilities/<facilityIdentifier>/covenants",
                     "getCovenantsToUpdate", patchesCovenants)
      \/ BeginsTyped(r, "POST/facilities/<facilityIdentifier>/guarantees",
                     "createFacilityGuarantee", addsGuarantee)
      \/ BeginsTyped(r, "GET/facilities/<facilityIdentifier>/guarantees",
                     "getFacilityGuarantees", isIdentifier)
      \/ BeginsTyped(r, "PATCH/facilities/<facilityIdentifier>/guarantees",
                     "getGuaranteesToUpdate", patchesGuarantees)
      \/ BeginsTyped(r, "POST/facilities/<facilityIdentifier>/investors",
                     "createFacilityInvestor", addsInvestor)
      \/ BeginsTyped(r, "GET/facilities/<facilityIdentifier>/investors",
                     "getFacilityInvestors", isIdentifier)
  <2> HIDE DEF isIdentifier, covenants
  <2>1. CASE CreateCovenantForFacility(r)
    BY <2>1 DEF CreateCovenantForFacility, ReceivesArrayFor, ReceivesFor, Validated, Receives,
                BeginsTyped, isIdentifier, covenants
  <2>2. CASE GetCovenantsForFacility(r)
    BY <2>2 DEF GetCovenantsForFacility, ReceivesFor, Validated, Receives, BeginsTyped,
                isIdentifier
  <2>3. CASE UpdateCovenantsForFacility(r)
    BY <2>3 DEF UpdateCovenantsForFacility, ReceivesFor, Validated, Receives, BeginsTyped,
                isIdentifier
  <2>4. CASE CreateGuaranteeForFacility(r)
    BY <2>4 DEF CreateGuaranteeForFacility, ReceivesItemFor, ValidatedItem, ValidatedItems,
                Validated, Receives, BeginsTyped, ItemsValid, isIdentifier
  <2>5. CASE GetGuaranteesForFacility(r)
    BY <2>5 DEF GetGuaranteesForFacility, ReceivesFor, Validated, Receives, BeginsTyped,
                isIdentifier
  <2>6. CASE UpdateGuaranteesForFacility(r)
    BY <2>6 DEF UpdateGuaranteesForFacility, ReceivesFor, Validated, Receives, BeginsTyped,
                isIdentifier
  <2>7. CASE CreateInvestorForFacility(r)
    BY <2>7 DEF CreateInvestorForFacility, ReceivesItemFor, ValidatedItem, ValidatedItems,
                Validated, Receives, BeginsTyped, ItemsValid, isIdentifier
  <2>8. CASE GetInvestorsForFacility(r)
    BY <2>8 DEF GetInvestorsForFacility, ReceivesFor, Validated, Receives, BeginsTyped,
                isIdentifier
  <2> QED BY <2>1, <2>2, <2>3, <2>4, <2>5, <2>6, <2>7, <2>8 DEF FacilityPartHandler
<1>2. ASSUME NEW label \in PartLabels, FacilityPartReady(r, label, None)
      PROVE  IsReady(r, label, None) /\ label \notin {"received", "done"}
  BY <1>2 DEF IsReady, PartyReady, DealReady, FacilityReady, LoanReady, PartLabels
<1>3. isIdentifier => /\ IsReady(r, "getCovenants", None)
                      /\ IsReady(r, "getFacilityGuarantees", None)
                      /\ IsReady(r, "getFacilityInvestors", None)
  BY <1>2 DEF FacilityPartReady, PartLabels
<1>4. /\ readsCovenants => IsReady(r, "getFacilityOfCovenant", None)
      /\ patchesCovenants => IsReady(r, "getCovenantsToUpdate", None)
      /\ patchesGuarantees => IsReady(r, "getGuaranteesToUpdate", None)
  BY <1>2 DEF FacilityPartReady, PartLabels
<1>5. ASSUME Op(r) \in ArrayOps, addsGuarantee
      PROVE  IsReady(r, "createFacilityGuarantee", None)
  <2>1. Body(r)[1] \in CreateFacilityGuaranteeRequestItem
    BY <1>5, FirstIsValid
  <2> QED BY <1>2, <1>5, <2>1 DEF FacilityPartReady, PartLabels
<1>6. ASSUME Op(r) \in ArrayOps, addsInvestor
      PROVE  IsReady(r, "createFacilityInvestor", None)
  <2>1. Body(r)[1] \in CreateFacilityInvestorRequestItem
    BY <1>6, FirstIsValid
  <2> QED BY <1>2, <1>6, <2>1 DEF FacilityPartReady, PartLabels
<1> HIDE DEF isIdentifier, readsCovenants, patchesCovenants, patchesGuarantees, addsGuarantee,
             addsInvestor
<1>7. CASE BeginsTyped(r, "POST/facilities/<facilityIdentifier>/covenants",
                       "getFacilityOfCovenant", readsCovenants)
  BY <1>4, <1>7, BeginsTypedStep
<1>8. CASE BeginsTyped(r, "GET/facilities/<facilityIdentifier>/covenants", "getCovenants",
                       isIdentifier)
  BY <1>3, <1>8, BeginsTypedStep
<1>9. CASE BeginsTyped(r, "PATCH/facilities/<facilityIdentifier>/covenants",
                       "getCovenantsToUpdate", patchesCovenants)
  BY <1>4, <1>9, BeginsTypedStep
<1>10. CASE BeginsTyped(r, "POST/facilities/<facilityIdentifier>/guarantees",
                        "createFacilityGuarantee", addsGuarantee)
  <2>1. Op(r) \in ArrayOps
    BY <1>10 DEF BeginsTyped, ArrayOps
  <2> QED BY <1>5, <1>10, <2>1, BeginsTypedStep
<1>11. CASE BeginsTyped(r, "GET/facilities/<facilityIdentifier>/guarantees",
                        "getFacilityGuarantees", isIdentifier)
  BY <1>3, <1>11, BeginsTypedStep
<1>12. CASE BeginsTyped(r, "PATCH/facilities/<facilityIdentifier>/guarantees",
                        "getGuaranteesToUpdate", patchesGuarantees)
  BY <1>4, <1>12, BeginsTypedStep
<1>13. CASE BeginsTyped(r, "POST/facilities/<facilityIdentifier>/investors",
                        "createFacilityInvestor", addsInvestor)
  <2>1. Op(r) \in ArrayOps
    BY <1>13 DEF BeginsTyped, ArrayOps
  <2> QED BY <1>6, <1>13, <2>1, BeginsTypedStep
<1>14. CASE BeginsTyped(r, "GET/facilities/<facilityIdentifier>/investors",
                        "getFacilityInvestors", isIdentifier)
  BY <1>3, <1>14, BeginsTypedStep
<1> QED BY <1>1, <1>7, <1>8, <1>9, <1>10, <1>11, <1>12, <1>13, <1>14

\* FacilityController's read of the facility, by a handler that goes on to label.
ReadsTyped(r, label) ==
    LET call == AcbsGetFacilityByIdentifier(FacilityIdentifier(r))
    IN  \E outcome \in GetOutcomes(call) :
            /\ UNCHANGED acbs
            /\ faults' = faults + outcome[2]
            /\ IF IsGiven(outcome[1])
               THEN \/ Throw(r, "TypeError") \/ Throw(r, "BadRequestException")
                    \/ Body(r) # <<>> /\ Goto(r, label, outcome[1].data)
               ELSE Throw(r, GetException(call, outcome[1]))

LEMMA ReadsTypedStep ==
  ASSUME NEW r, Typed(r), NEW label, label \notin {"received", "done"}, ReadsTyped(r, label),
         \A facility : IsAcbsFacility(facility) /\ Body(r) # <<>> =>
                           IsReady(r, label, facility)
  PROVE  TypedStep(r)
<1> DEFINE call == AcbsGetFacilityByIdentifier(FacilityIdentifier(r))
<1>1. PICK outcome \in GetOutcomes(call) :
        /\ UNCHANGED acbs
        /\ faults' = faults + outcome[2]
        /\ IF IsGiven(outcome[1])
           THEN \/ Throw(r, "TypeError") \/ Throw(r, "BadRequestException")
                \/ Body(r) # <<>> /\ Goto(r, label, outcome[1].data)
           ELSE Throw(r, GetException(call, outcome[1]))
  BY DEF ReadsTyped
<1>2. ASSUME IsGiven(outcome[1])  PROVE TypedLands(r)
  <2>1. IsAcbsFacility(outcome[1].data)
    BY <1>2, FacilityGiven
  <2>2. CASE Body(r) # <<>> /\ Goto(r, label, outcome[1].data)
    BY <2>1, <2>2, GoesTyped
  <2> QED BY <1>1, <1>2, <2>2, ThrowsTyped
<1> HIDE DEF call
<1>3. GetsTyped(r, call)
  BY <1>1, <1>2 DEF GetsTyped
<1> QED BY <1>3, GetsTypedStep

LEMMA CreateCovenantTyped ==
  ASSUME NEW r, Typed(r), pc[r] # "received", CreateCovenantForFacility(r)
  PROVE  TypedStep(r)
<1> DEFINE facilityIdentifier == FacilityIdentifier(r)
<1>1. /\ pc[r] \in {"getFacilityOfCovenant", "createCovenant"}
      /\ Op(r) = "POST/facilities/<facilityIdentifier>/covenants"
      /\ facilityIdentifier \in Identifiers
  <2>1. pc[r] \in {"getFacilityOfCovenant", "createCovenant"}
    BY DEF CreateCovenantForFacility, ReceivesArrayFor, ReceivesFor, Receives
  <2>2. FacilityPartReady(r, pc[r], local[r])
    BY <2>1, TypedParts DEF IsReady
  <2> QED BY <2>1, <2>2, FacilityPartCourses, TypedParts DEF FacilityPartReady
<1>2. CASE pc[r] = "getFacilityOfCovenant"
  <2>1. ReadsTyped(r, "createCovenant")
    BY <1>2 DEF CreateCovenantForFacility, ReceivesArrayFor, ReceivesFor, Receives,
                ReadFacilityThen, Get, IsGiven, ReadsTyped
  <2>2. ASSUME NEW facility, IsAcbsFacility(facility), Body(r) # <<>>
        PROVE  IsReady(r, "createCovenant", facility)
    <3>1. Body(r)[1] \in Range(Body(r))
      BY <1>1, <2>2, FirstItem, TypedParts DEF ArrayOps
    <3>2. FacilityPartReady(r, pc[r], local[r])
      BY <1>2, TypedParts DEF IsReady
    <3>3. Body(r)[1] \in CreateFacilityCovenantRequestItem
      BY <1>2, <3>1, <3>2 DEF FacilityPartReady
    <3>4. FacilityPartReady(r, "createCovenant", facility)
      BY <1>1, <2>2, <3>3 DEF FacilityPartReady
    <3> QED BY <3>4 DEF IsReady, PartyReady, DealReady, FacilityReady, LoanReady
  <2> QED BY <2>1, <2>2, ReadsTypedStep
<1>3. CASE pc[r] = "createCovenant"
  <2> DEFINE exists == FacilityExists(facilityIdentifier)
             covenant == CovenantToCreateInAcbs(local[r].FacilityTypeCode,
                                                local[r].BorrowerPartyIdentifier, Body(r)[1])
             data == Added(r, "FacilityCovenant", facilityIdentifier, covenant)
             result == IfFacilityExists(facilityIdentifier, "FacilityNotFound", Ok(data))
             body == [facilityIdentifier |-> facilityIdentifier]
  <2>1. Body(r)[1] \in CreateFacilityCovenantRequestItem /\ IsAcbsFacility(local[r])
    BY <1>3, TypedParts DEF IsReady, FacilityPartReady
  <2>2. AnswersIf(exists, result, data, "FacilityNotFound")
    BY DEF AnswersIf, IfFacilityExists, FacilityExists
  <2>3. TypedStore(data)
    <3>1. local[r].FacilityTypeCode \in Range(FACILITY_TYPE_IDS)
          /\ local[r].BorrowerPartyIdentifier \in Texts
      BY <2>1, FacilityFields
    <3>2. IsDto("FacilityCovenant", covenant)
      BY <2>1, <3>1, CovenantSent DEF IsDto
    <3> HIDE DEF covenant
    <3> QED BY <3>2, AddsTyped
  <2>4. Reply(r, 201, body) => TypedLands(r)
    BY <1>1, AnswersFacility DEF FacilityAnswered
  <2>5. WritesTyped(r, result)
    <3> HIDE DEF data
    <3>1. PICK outcome \in WriteOutcomes(result) :
            /\ acbs' = outcome[2]
            /\ faults' = faults + outcome[3]
            /\ IF outcome[1].status = 200 THEN Reply(r, 201, body)
               ELSE Throw(r, WrapAcbsHttpPostOrPutError({"FacilityNotFound"}, outcome[1]))
      BY <1>3 DEF CreateCovenantForFacility, ReceivesArrayFor, ReceivesFor, Receives,
                  AcbsCreateCovenantForFacility, Write, WriteOr, AnswerFacility, data
    <3> QED BY <2>4, <3>1 DEF WritesTyped
  <2> HIDE DEF exists, data, result
  <2> QED BY <2>2, <2>3, <2>5, WritesIfTyped
<1> QED BY <1>1, <1>2, <1>3

LEMMA CreateFacilityGuaranteeTyped ==
  ASSUME NEW r, Typed(r), pc[r] = "createFacilityGuarantee", CreateGuaranteeForFacility(r)
  PROVE  TypedStep(r)
<1> DEFINE facilityIdentifier == FacilityIdentifier(r)
           exists == FacilityExists(facilityIdentifier)
           guarantee == GuaranteeToCreateInAcbs(Body(r)[1])
           data == Added(r, "FacilityGuarantee", facilityIdentifier, guarantee)
           result == IfFacilityExists(facilityIdentifier, "FacilityNotFound", Ok(data))
           body == [facilityIdentifier |-> facilityIdentifier]
<1>1. /\ Op(r) = "POST/facilities/<facilityIdentifier>/guarantees"
      /\ facilityIdentifier \in Identifiers
      /\ Body(r)[1] \in CreateFacilityGuaranteeRequestItem
  BY FacilityPartCourses, TypedParts DEF IsReady, FacilityPartReady
<1>2. AnswersIf(exists, result, data, "FacilityNotFound")
  BY DEF AnswersIf, IfFacilityExists, FacilityExists
<1>3. TypedStore(data)
  <2>1. IsDto("FacilityGuarantee", guarantee)
    BY <1>1, FacilityGuaranteeSent DEF IsDto
  <2> HIDE DEF guarantee
  <2> QED BY <2>1, AddsTyped
<1>4. Reply(r, 201, body) => TypedLands(r)
  BY <1>1, AnswersFacility DEF FacilityAnswered
<1>5. WritesTyped(r, result)
  <2> HIDE DEF data
  <2>1. PICK outcome \in WriteOutcomes(result) :
          /\ acbs' = outcome[2]
          /\ faults' = faults + outcome[3]
          /\ IF outcome[1].status = 200 THEN Reply(r, 201, body)
             ELSE Throw(r, WrapAcbsHttpPostOrPutError({"FacilityNotFound"}, outcome[1]))
    BY DEF CreateGuaranteeForFacility, ReceivesItemFor, Receives, AcbsCreateGuaranteeForFacility,
           Write, WriteOr, AnswerFacility, data
  <2> QED BY <1>4, <2>1 DEF WritesTyped
<1> HIDE DEF exists, data, result
<1> QED BY <1>2, <1>3, <1>5, WritesIfTyped

LEMMA CreateFacilityInvestorTyped ==
  ASSUME NEW r, Typed(r), pc[r] = "createFacilityInvestor", CreateInvestorForFacility(r)
  PROVE  TypedStep(r)
<1> DEFINE facilityIdentifier == FacilityIdentifier(r)
           exists == FacilityExists(facilityIdentifier)
           party == FacilityPartyToCreateInAcbs(Body(r)[1])
           data == Added(r, "FacilityParty", facilityIdentifier, party)
           result == IfFacilityExists(facilityIdentifier, "FacilityNotFound", Ok(data))
           body == [facilityIdentifier |-> facilityIdentifier]
<1>1. /\ Op(r) = "POST/facilities/<facilityIdentifier>/investors"
      /\ facilityIdentifier \in Identifiers
      /\ Body(r)[1] \in CreateFacilityInvestorRequestItem
  BY FacilityPartCourses, TypedParts DEF IsReady, FacilityPartReady
<1>2. AnswersIf(exists, result, data, "FacilityNotFound")
  BY DEF AnswersIf, IfFacilityExists, FacilityExists
<1>3. TypedStore(data)
  <2>1. IsDto("FacilityParty", party)
    BY <1>1, FacilityPartySent DEF IsDto
  <2> HIDE DEF party
  <2> QED BY <2>1, AddsTyped
<1>4. Reply(r, 201, body) => TypedLands(r)
  BY <1>1, AnswersFacility DEF FacilityAnswered
<1>5. WritesTyped(r, result)
  <2> HIDE DEF data
  <2>1. PICK outcome \in WriteOutcomes(result) :
          /\ acbs' = outcome[2]
          /\ faults' = faults + outcome[3]
          /\ IF outcome[1].status = 200 THEN Reply(r, 201, body)
             ELSE Throw(r, WrapAcbsHttpPostOrPutError({"FacilityNotFound"}, outcome[1]))
    BY DEF CreateInvestorForFacility, ReceivesItemFor, Receives, AcbsCreatePartyForFacility,
           Write, WriteOr, AnswerFacility, data
  <2> QED BY <1>4, <2>1 DEF WritesTyped
<1> HIDE DEF exists, data, result
<1> QED BY <1>2, <1>3, <1>5, WritesIfTyped

\* The GET of all that a facility has of a kind, and its answer.
LEMMA ShowsTyped ==
  ASSUME NEW r, Typed(r), Op(r) \in Lists, NEW call, IsCall(call), NEW parts,
         \A data : call.result = Ok(data) => data = parts,
         NEW read, \A k \in DOMAIN read : read[k] \in ResponseDto(Op(r)),
         NEW outcome \in GetOutcomes(call), UNCHANGED acbs, faults' = faults + outcome[2],
         IF IsGiven(outcome[1])
         THEN outcome[1].data = parts => Reply(r, 200, read)
         ELSE Throw(r, GetException(call, outcome[1]))
  PROVE  TypedStep(r)
<1>1. ASSUME IsGiven(outcome[1])  PROVE TypedLands(r)
  <2>1. Reply(r, 200, read)
    BY <1>1, GetEnds
  <2>2. IsAnswer(Op(r), read)
    BY ListAnswer
  <2> QED BY <2>1, <2>2, RepliesTyped
<1>2. GetsTyped(r, call)
  BY <1>1 DEF GetsTyped
<1> QED BY <1>2, GetsTypedStep

LEMMA GetCovenantsTyped ==
  ASSUME NEW r, Typed(r), pc[r] = "getCovenants", GetCovenantsForFacility(r)
  PROVE  TypedStep(r)
<1> DEFINE facilityIdentifier == FacilityIdentifier(r)
           call == AcbsGetCovenantsForFacility(facilityIdentifier)
           parts == DataOf("FacilityCovenant", facilityIdentifier)
           Read(covenants) == [k \in DOMAIN covenants |->
                                 CovenantOfAcbs(facilityIdentifier, covenants[k])]
           read == Read(parts)
<1>1. /\ Op(r) = "GET/facilities/<facilityIdentifier>/covenants"
      /\ facilityIdentifier \in Identifiers
  BY FacilityPartCourses, TypedParts DEF IsReady, FacilityPartReady
<1>2. PICK outcome \in GetOutcomes(call) :
        /\ UNCHANGED acbs
        /\ faults' = faults + outcome[2]
        /\ IF IsGiven(outcome[1]) THEN Reply(r, 200, Read(outcome[1].data))
           ELSE Throw(r, GetException(call, outcome[1]))
  BY DEF GetCovenantsForFacility, ReceivesFor, Receives, Get, IsGiven, ReplyEach
<1>3. IsCall(call) /\ \A data : call.result = Ok(data) => data = parts
  BY GetsCovenants
<1>4. ASSUME NEW k \in DOMAIN read  PROVE read[k] \in ResponseDto(Op(r))
  <2> HIDE DEF facilityIdentifier
  <2>1. k \in DOMAIN parts /\ read[k] = CovenantOfAcbs(facilityIdentifier, parts[k])
    BY <1>4
  <2>2. IsDto("FacilityCovenant", parts[k])
    BY <2>1, PartsTyped
  <2>3. read[k] \in GetFacilityCovenantsResponseDto
    BY <1>1, <2>1, <2>2, CovenantRead DEF IsDto
  <2> QED BY <1>1, <2>3 DEF ResponseDto
<1>5. IF IsGiven(outcome[1])
      THEN outcome[1].data = parts => Reply(r, 200, read)
      ELSE Throw(r, GetException(call, outcome[1]))
  <2> HIDE DEF call, parts
  <2> QED BY <1>2
<1>6. Op(r) \in Lists
  BY <1>1 DEF Lists
<1> HIDE DEF call, parts, read
<1> QED BY <1>2, <1>3, <1>4, <1>5, <1>6, ShowsTyped

LEMMA GetFacilityGuaranteesTyped ==
  ASSUME NEW r, Typed(r), pc[r] = "getFacilityGuarantees", GetGuaranteesForFacility(r)
  PROVE  TypedStep(r)
<1> DEFINE facilityIdentifier == FacilityIdentifier(r)
           call == AcbsGetGuaranteesForFacility(facilityIdentifier)
           parts == DataOf("FacilityGuarantee", facilityIdentifier)
           Read(guarantees) == [k \in DOMAIN guarantees |->
                                  GuaranteeOfAcbs(facilityIdentifier, guarantees[k])]
           read == Read(parts)
<1>1. /\ Op(r) = "GET/facilities/<facilityIdentifier>/guarantees"
      /\ facilityIdentifier \in Identifiers
  BY FacilityPartCourses, TypedParts DEF IsReady, FacilityPartReady
<1>2. PICK outcome \in GetOutcomes(call) :
        /\ UNCHANGED acbs
        /\ faults' = faults + outcome[2]
        /\ IF IsGiven(outcome[1]) THEN Reply(r, 200, Read(outcome[1].data))
           ELSE Throw(r, GetException(call, outcome[1]))
  BY DEF GetGuaranteesForFacility, ReceivesFor, Receives, Get, IsGiven, ReplyEach
<1>3. IsCall(call) /\ \A data : call.result = Ok(data) => data = parts
  BY <1>1, GetsGuarantees, TypedParts
<1>4. ASSUME NEW k \in DOMAIN read  PROVE read[k] \in ResponseDto(Op(r))
  <2> HIDE DEF facilityIdentifier
  <2>1. k \in DOMAIN parts /\ read[k] = GuaranteeOfAcbs(facilityIdentifier, parts[k])
    BY <1>4
  <2>2. IsDto("FacilityGuarantee", parts[k])
    BY <2>1, PartsTyped
  <2>3. read[k] \in GetFacilityGuaranteesResponseItem
    BY <1>1, <2>1, <2>2, FacilityGuaranteeRead DEF IsDto
  <2> QED BY <1>1, <2>3 DEF ResponseDto
<1>5. IF IsGiven(outcome[1])
      THEN outcome[1].data = parts => Reply(r, 200, read)
      ELSE Throw(r, GetException(call, outcome[1]))
  <2> HIDE DEF call, parts
  <2> QED BY <1>2
<1>6. Op(r) \in Lists
  BY <1>1 DEF Lists
<1> HIDE DEF call, parts, read
<1> QED BY <1>2, <1>3, <1>4, <1>5, <1>6, ShowsTyped

\* The GET of the parties of a facility, which is wrapped as a write.
LEMMA GetsInvestors ==
  ASSUME NEW facilityIdentifier
  PROVE  LET call == AcbsGetFacilityPartiesForFacility(facilityIdentifier)
         IN  /\ IsCall(call)
             /\ \A data : call.result = Ok(data) =>
                              data = DataOf("FacilityParty", facilityIdentifier)
<1> DEFINE data == DataOf("FacilityParty", facilityIdentifier)
           result == IF FacilityExists(facilityIdentifier) THEN Ok(data) ELSE Null
           call == [GetCall({}, result) EXCEPT !.ofWrite = TRUE]
<1>1. result = Ok(data) \/ result = Null
  OBVIOUS
<1>2. AcbsGetFacilityPartiesForFacility(facilityIdentifier) = call
  BY DEF AcbsGetFacilityPartiesForFacility
<1> HIDE DEF data, result
<1>3. IsResult(result) /\ \A other : result = Ok(other) => other = data
  BY <1>1, OkOrNull
<1>4. call = [known |-> {}, result |-> result, ofWrite |-> TRUE]
  BY CallOfWrite
<1>5. /\ call.known = {} /\ call.result = result
      /\ call = [known |-> call.known, result |-> call.result, ofWrite |-> call.ofWrite]
  BY <1>4
<1> HIDE DEF call
<1>6. IsCall(call)
  BY <1>3, <1>5 DEF IsCall
<1> QED BY <1>2, <1>3, <1>5, <1>6 DEF data

LEMMA GetFacilityInvestorsTyped ==
  ASSUME NEW r, Typed(r), pc[r] = "getFacilityInvestors", GetInvestorsForFacility(r)
  PROVE  TypedStep(r)
<1> DEFINE facilityIdentifier == FacilityIdentifier(r)
           call == AcbsGetFacilityPartiesForFacility(facilityIdentifier)
           parts == DataOf("FacilityParty", facilityIdentifier)
           Read(investors) == [k \in DOMAIN investors |->
                                 FacilityInvestorOfAcbs(facilityIdentifier, investors[k])]
           read == Read(parts)
<1>1. /\ Op(r) = "GET/facilities/<facilityIdentifier>/investors"
      /\ facilityIdentifier \in Identifiers
  BY FacilityPartCourses, TypedParts DEF IsReady, FacilityPartReady
<1>2. PICK outcome \in GetOutcomes(call) :
        /\ UNCHANGED acbs
        /\ faults' = faults + outcome[2]
        /\ IF IsGiven(outcome[1]) THEN Reply(r, 200, Read(outcome[1].data))
           ELSE Throw(r, GetException(call, outcome[1]))
  BY DEF GetInvestorsForFacility, ReceivesFor, Receives, Get, IsGiven, ReplyEach
<1>3. IsCall(call) /\ \A data : call.result = Ok(data) => data = parts
  BY GetsInvestors
<1>4. ASSUME NEW k \in DOMAIN read  PROVE read[k] \in ResponseDto(Op(r))
  <2> HIDE DEF facilityIdentifier
  <2>1. k \in DOMAIN parts /\ read[k] = FacilityInvestorOfAcbs(facilityIdentifier, parts[k])
    BY <1>4
  <2>2. IsDto("FacilityParty", parts[k])
    BY <2>1, PartsTyped
  <2>3. read[k] \in GetFacilityInvestorResponseItem
    BY <1>1, <2>1, <2>2, FacilityPartyRead DEF IsDto
  <2> QED BY <1>1, <2>3 DEF ResponseDto
<1>5. IF IsGiven(outcome[1])
      THEN outcome[1].data = parts => Reply(r, 200, read)
      ELSE Throw(r, GetException(call, outcome[1]))
  <2> HIDE DEF call, parts
  <2> QED BY <1>2
<1>6. Op(r) \in Lists
  BY <1>1 DEF Lists
<1> HIDE DEF call, parts, read
<1> QED BY <1>2, <1>3, <1>4, <1>5, <1>6, ShowsTyped

\* A PATCH goes on with what is left, or answers.
LEMMA PutNextTyped ==
  ASSUME NEW r, Typed(r), NEW label, label \notin {"received", "done"}, NEW parts,
         PutNext(r, label, parts), IsReady(r, label, parts),
         FacilityIdentifier(r) \in Identifiers, Op(r) \in FacilityAnswered
  PROVE  TypedLands(r)
<1>1. CASE parts = <<>>
  <2>1. Reply(r, 200, [facilityIdentifier |-> FacilityIdentifier(r)])
    BY <1>1 DEF PutNext, AnswerFacility
  <2> QED BY <2>1, AnswersFacility
<1>2. CASE parts # <<>>
  BY <1>2, GoesTyped DEF PutNext
<1> QED BY <1>1, <1>2

\* It reads what it will put back, and puts back the first of it.
LEMMA GetsPartsTyped ==
  ASSUME NEW r, Typed(r), NEW call, IsCall(call), NEW parts,
         \A data : call.result = Ok(data) => data = parts,
         NEW label, label \notin {"received", "done"}, IsReady(r, label, parts),
         FacilityIdentifier(r) \in Identifiers, Op(r) \in FacilityAnswered,
         NEW outcome \in GetOutcomes(call), UNCHANGED acbs, faults' = faults + outcome[2],
         IF IsGiven(outcome[1]) THEN PutNext(r, label, outcome[1].data)
         ELSE Throw(r, GetException(call, outcome[1]))
  PROVE  TypedStep(r)
<1>1. ASSUME IsGiven(outcome[1])  PROVE TypedLands(r)
  <2>1. outcome[1].data = parts
    BY <1>1, GetEnds
  <2>2. PutNext(r, label, parts)
    BY <1>1, <2>1
  <2> QED BY <2>2, PutNextTyped
<1>2. GetsTyped(r, call)
  BY <1>1 DEF GetsTyped
<1> QED BY <1>2, GetsTypedStep

\* It puts one back, and goes on when that was done.
PutsPart(r, result, label, parts) ==
    \E outcome \in WriteOutcomes(result) :
        /\ acbs' = outcome[2]
        /\ faults' = faults + outcome[3]
        /\ IF outcome[1].status = 200 THEN PutNext(r, label, parts)
           ELSE \E exception : Throw(r, exception)

LEMMA PutsPartTyped ==
  ASSUME NEW r, Typed(r), NEW found, NEW written, found # {} => TypedStore(written),
         NEW label, label \notin {"received", "done"}, NEW parts, IsReady(r, label, parts),
         FacilityIdentifier(r) \in Identifiers, Op(r) \in FacilityAnswered,
         NEW result, result = IF found = {} THEN Refusal("FacilityNotFound") ELSE Ok(written),
         PutsPart(r, result, label, parts)
  PROVE  TypedStep(r)
<1> DEFINE exists == found # {}
<1>1. AnswersIf(exists, result, written, "FacilityNotFound")
  BY DEF AnswersIf
<1>2. PICK outcome \in WriteOutcomes(result) :
        /\ acbs' = outcome[2]
        /\ faults' = faults + outcome[3]
        /\ IF outcome[1].status = 200 THEN PutNext(r, label, parts)
           ELSE \E exception : Throw(r, exception)
  BY DEF PutsPart
<1>3. outcome[1].status = 200 => TypedLands(r)
  BY <1>2, PutNextTyped
<1>4. WritesTyped(r, result)
  BY <1>2, <1>3 DEF WritesTyped
<1> HIDE DEF exists
<1>5. exists => TypedStore(written)
  BY DEF exists
<1> QED BY <1>1, <1>4, <1>5, WritesIfTyped

LEMMA PatchCovenantsTyped ==
  ASSUME NEW r, Typed(r), pc[r] # "received", UpdateCovenantsForFacility(r)
  PROVE  TypedStep(r)
<1> DEFINE facilityIdentifier == FacilityIdentifier(r)
<1>1. /\ pc[r] \in {"getCovenantsToUpdate", "putCovenant"}
      /\ Op(r) = "PATCH/facilities/<facilityIdentifier>/covenants"
      /\ FacilityPartReady(r, pc[r], local[r])
  <2>1. pc[r] \in {"getCovenantsToUpdate", "putCovenant"}
    BY DEF UpdateCovenantsForFacility, ReceivesFor, Receives
  <2> QED BY <2>1, FacilityPartCourses, TypedParts DEF IsReady
<1>2. /\ facilityIdentifier \in Identifiers /\ Body(r) \in UpdateFacilityCovenantsRequestDto
      /\ Op(r) \in FacilityAnswered
  BY <1>1 DEF FacilityPartReady, FacilityAnswered
<1>3. ASSUME NEW parts, \A k \in DOMAIN parts : parts[k] \in AcbsCreateFacilityCovenantRequestDto
      PROVE  IsReady(r, "putCovenant", parts)
  <2>1. FacilityPartReady(r, "putCovenant", parts)
    BY <1>2, <1>3 DEF FacilityPartReady
  <2> QED BY <2>1 DEF IsReady, PartyReady, DealReady, FacilityReady, LoanReady
<1>4. CASE pc[r] = "getCovenantsToUpdate"
  <2> DEFINE call == AcbsGetCovenantsForFacility(facilityIdentifier)
             parts == DataOf("FacilityCovenant", facilityIdentifier)
  <2>1. PICK outcome \in GetOutcomes(call) :
          /\ UNCHANGED acbs
          /\ faults' = faults + outcome[2]
          /\ IF IsGiven(outcome[1]) THEN PutNext(r, "putCovenant", outcome[1].data)
             ELSE Throw(r, GetException(call, outcome[1]))
    BY <1>4 DEF UpdateCovenantsForFacility, ReceivesFor, Receives, Get, IsGiven
  <2>2. IsCall(call) /\ \A data : call.result = Ok(data) => data = parts
    BY GetsCovenants
  <2>3. ASSUME NEW k \in DOMAIN parts  PROVE parts[k] \in AcbsCreateFacilityCovenantRequestDto
    <3>1. IsDto("FacilityCovenant", parts[k])
      BY PartsTyped
    <3> QED BY <3>1 DEF IsDto
  <2> HIDE DEF call, parts
  <2>4. IsReady(r, "putCovenant", parts)
    BY <1>3, <2>3
  <2> QED BY <1>2, <2>1, <2>2, <2>4, GetsPartsTyped
<1>5. CASE pc[r] = "putCovenant"
  <2> DEFINE head == Head(local[r])
             parts == Tail(local[r])
             covenant == CovenantFieldsToUpdate(Body(r), head)
             found == {i \in Indexes("FacilityCovenant", facilityIdentifier) :
                          acbs[i].data.CovenantIdentifier = covenant.CovenantIdentifier}
             index == CHOOSE i \in found : TRUE
             written == Replaced(r, index, covenant)
             result == IF found = {} THEN Refusal("FacilityNotFound") ELSE Ok(written)
  <2>1. local[r] \in Seq(Range(local[r])) /\ local[r] # <<>>
    BY <1>5, CourseKnows, TypedParts DEF Knows, KnowsParts, Calls
  <2>2. /\ \A k \in DOMAIN parts : \E n \in DOMAIN local[r] : parts[k] = local[r][n]
        /\ \E n \in DOMAIN local[r] : head = local[r][n]
    BY <2>1, TailOfParts
  <2>3. \A k \in DOMAIN local[r] : local[r][k] \in AcbsCreateFacilityCovenantRequestDto
    BY <1>1, <1>5 DEF FacilityPartReady
  <2>4. PICK outcome \in WriteOutcomes(result) :
          /\ acbs' = outcome[2]
          /\ faults' = faults + outcome[3]
          /\ IF outcome[1].status = 200 THEN PutNext(r, "putCovenant", parts)
             ELSE Throw(r, WrapAcbsHttpPostOrPutError({"FacilityNotFound"}, outcome[1]))
    BY <1>5 DEF UpdateCovenantsForFacility, ReceivesFor, Receives,
                AcbsReplaceCovenantForFacility, AcbsReplace, Write, WriteOr
  <2> HIDE DEF head, parts
  <2>5. IsReady(r, "putCovenant", parts)
    BY <1>3, <2>2, <2>3
  <2>6. covenant \in AcbsCreateFacilityCovenantRequestDto
    BY <1>2, <2>2, <2>3, CovenantPut
  <2> HIDE DEF covenant
  <2>7. found # {} => TypedStore(written)
    <3>1. ASSUME found # {}  PROVE TypedStore(written)
      <4>1. index \in DOMAIN acbs /\ acbs[index].kind = "FacilityCovenant"
        BY <3>1 DEF Indexes
      <4> HIDE DEF index
      <4>2. IsDto(acbs[index].kind, covenant)
        BY <2>6, <4>1 DEF IsDto
      <4> QED BY <4>1, <4>2, ReplacesTyped
    <3> QED BY <3>1
  <2>8. result = IF found = {} THEN Refusal("FacilityNotFound") ELSE Ok(written)
    OBVIOUS
  <2> HIDE DEF found, written, result
  <2>9. PutsPart(r, result, "putCovenant", parts)
    BY <2>4 DEF PutsPart
  <2>10. FacilityIdentifier(r) \in Identifiers /\ Op(r) \in FacilityAnswered
    BY <1>2
  <2> QED BY <2>5, <2>7, <2>8, <2>9, <2>10, PutsPartTyped
<1> QED BY <1>1, <1>4, <1>5

LEMMA PatchGuaranteesTyped ==
  ASSUME NEW r, Typed(r), pc[r] # "received", UpdateGuaranteesForFacility(r)
  PROVE  TypedStep(r)
<1> DEFINE facilityIdentifier == FacilityIdentifier(r)
<1>1. /\ pc[r] \in {"getGuaranteesToUpdate", "putGuarantee"}
      /\ Op(r) = "PATCH/facilities/<facilityIdentifier>/guarantees"
      /\ FacilityPartReady(r, pc[r], local[r])
  <2>1. pc[r] \in {"getGuaranteesToUpdate", "putGuarantee"}
    BY DEF UpdateGuaranteesForFacility, ReceivesFor, Receives
  <2> QED BY <2>1, FacilityPartCourses, TypedParts DEF IsReady
<1>2. /\ facilityIdentifier \in Identifiers /\ Body(r) \in UpdateFacilityGuaranteesRequestDto
      /\ Op(r) \in FacilityAnswered
  BY <1>1 DEF FacilityPartReady, FacilityAnswered
<1>3. ASSUME NEW parts, \A k \in DOMAIN parts : parts[k] \in AcbsBaseFacilityGuarantee
      PROVE  IsReady(r, "putGuarantee", parts)
  <2>1. FacilityPartReady(r, "putGuarantee", parts)
    BY <1>2, <1>3 DEF FacilityPartReady
  <2> QED BY <2>1 DEF IsReady, PartyReady, DealReady, FacilityReady, LoanReady
<1>4. CASE pc[r] = "getGuaranteesToUpdate"
  <2> DEFINE call == AcbsGetGuaranteesForFacility(facilityIdentifier)
             parts == DataOf("FacilityGuarantee", facilityIdentifier)
  <2>1. PICK outcome \in GetOutcomes(call) :
          /\ UNCHANGED acbs
          /\ faults' = faults + outcome[2]
          /\ IF IsGiven(outcome[1]) THEN PutNext(r, "putGuarantee", outcome[1].data)
             ELSE Throw(r, GetException(call, outcome[1]))
    BY <1>4 DEF UpdateGuaranteesForFacility, ReceivesFor, Receives, Get, IsGiven
  <2>2. IsCall(call) /\ \A data : call.result = Ok(data) => data = parts
    BY <1>1, GetsGuarantees, TypedParts
  <2>3. ASSUME NEW k \in DOMAIN parts  PROVE parts[k] \in AcbsBaseFacilityGuarantee
    <3>1. IsDto("FacilityGuarantee", parts[k])
      BY PartsTyped
    <3> QED BY <3>1 DEF IsDto
  <2> HIDE DEF call, parts
  <2>4. IsReady(r, "putGuarantee", parts)
    BY <1>3, <2>3
  <2> QED BY <1>2, <2>1, <2>2, <2>4, GetsPartsTyped
<1>5. CASE pc[r] = "putGuarantee"
  <2> DEFINE head == Head(local[r])
             parts == Tail(local[r])
             guarantee == GuaranteeFieldsToUpdate(Body(r), head)
             found == {i \in Indexes("FacilityGuarantee", facilityIdentifier) :
                         /\ acbs[i].data.GuaranteeTypeCode = guarantee.GuaranteeTypeCode
                         /\ acbs[i].data.GuarantorPartyIdentifier =
                              guarantee.GuarantorPartyIdentifier}
             index == CHOOSE i \in found : TRUE
             written == Replaced(r, index, guarantee)
             result == IF found = {} THEN Refusal("FacilityNotFound") ELSE Ok(written)
  <2>1. local[r] \in Seq(Range(local[r])) /\ local[r] # <<>>
    BY <1>5, CourseKnows, TypedParts DEF Knows, KnowsParts, Calls
  <2>2. /\ \A k \in DOMAIN parts : \E n \in DOMAIN local[r] : parts[k] = local[r][n]
        /\ \E n \in DOMAIN local[r] : head = local[r][n]
    BY <2>1, TailOfParts
  <2>3. \A k \in DOMAIN local[r] : local[r][k] \in AcbsBaseFacilityGuarantee
    BY <1>1, <1>5 DEF FacilityPartReady
  <2>4. PICK outcome \in WriteOutcomes(result) :
          /\ acbs' = outcome[2]
          /\ faults' = faults + outcome[3]
          /\ IF outcome[1].status = 200 THEN PutNext(r, "putGuarantee", parts)
             ELSE Throw(r, WrapAcbsHttpPostOrPutError({"FacilityNotFound"}, outcome[1]))
    BY <1>5 DEF UpdateGuaranteesForFacility, ReceivesFor, Receives,
                AcbsReplaceGuaranteeForFacility, AcbsReplace, Write, WriteOr
  <2> HIDE DEF head, parts
  <2>5. IsReady(r, "putGuarantee", parts)
    BY <1>3, <2>2, <2>3
  <2>6. guarantee \in AcbsBaseFacilityGuarantee
    BY <1>2, <2>2, <2>3, FacilityGuaranteePut
  <2> HIDE DEF guarantee
  <2>7. found # {} => TypedStore(written)
    <3>1. ASSUME found # {}  PROVE TypedStore(written)
      <4>1. index \in DOMAIN acbs /\ acbs[index].kind = "FacilityGuarantee"
        BY <3>1 DEF Indexes
      <4> HIDE DEF index
      <4>2. IsDto(acbs[index].kind, guarantee)
        BY <2>6, <4>1 DEF IsDto
      <4> QED BY <4>1, <4>2, ReplacesTyped
    <3> QED BY <3>1
  <2>8. result = IF found = {} THEN Refusal("FacilityNotFound") ELSE Ok(written)
    OBVIOUS
  <2> HIDE DEF found, written, result
  <2>9. PutsPart(r, result, "putGuarantee", parts)
    BY <2>4 DEF PutsPart
  <2>10. FacilityIdentifier(r) \in Identifiers /\ Op(r) \in FacilityAnswered
    BY <1>2
  <2> QED BY <2>5, <2>7, <2>8, <2>9, <2>10, PutsPartTyped
<1> QED BY <1>1, <1>4, <1>5

LEMMA FacilityPartTyped ==
  ASSUME NEW r, Typed(r), FacilityPartHandler(r)
  PROVE  TypedStep(r)
<1>1. CASE pc[r] = "received"
  BY <1>1, FacilityPartBeginsTyped
<1>2. CASE pc[r] # "received"
  <2>1. \/ CreateCovenantForFacility(r)
        \/ pc[r] = "getCovenants" /\ GetCovenantsForFacility(r)
        \/ UpdateCovenantsForFacility(r)
        \/ pc[r] = "createFacilityGuarantee" /\ CreateGuaranteeForFacility(r)
        \/ pc[r] = "getFacilityGuarantees" /\ GetGuaranteesForFacility(r)
        \/ UpdateGuaranteesForFacility(r)
        \/ pc[r] = "createFacilityInvestor" /\ CreateInvestorForFacility(r)
        \/ pc[r] = "getFacilityInvestors" /\ GetInvestorsForFacility(r)
    BY <1>2 DEF FacilityPartHandler, GetCovenantsForFacility, CreateGuaranteeForFacility,
                GetGuaranteesForFacility, CreateInvestorForFacility, GetInvestorsForFacility,
                ReceivesFor, ReceivesItemFor, Receives
  <2> QED BY <1>2, <2>1, CreateCovenantTyped, GetCovenantsTyped, PatchCovenantsTyped,
             CreateFacilityGuaranteeTyped, GetFacilityGuaranteesTyped, PatchGuaranteesTyped,
             CreateFacilityInvestorTyped, GetFacilityInvestorsTyped
<1> QED BY <1>1, <1>2

-----------------------------------------------------------------------------
(* Activations, fees and loans.                                            *)

\* The labels at which a request for one of these begins.
LoanLabels ==
    {"getFacilityToActivate", "getActivation", "getFacilityOfFee", "getFees", "amendFees",
     "getLoans", "createLoan", "getLoanTransaction", "amendLoan", "getLoanToUpdate"}

LEMMA LoanLabelsReady ==
  ASSUME NEW r, NEW label \in LoanLabels, LoanReady(r, label, None)
  PROVE  IsReady(r, label, None) /\ label \notin {"received", "done"}
BY DEF IsReady, PartyReady, DealReady, FacilityReady, FacilityPartReady, LoanLabels

\* A request for a bundle, or for all that a facility has, needs its parameters only.
LEMMA LoanGetsBegin ==
  ASSUME NEW r, Typed(r), pc[r] = "received",
         \/ GetActivationTransactionByBundleIdentifier(r)
         \/ GetLoanTransactionByBundleIdentifier(r)
         \/ GetFixedFeesForFacility(r)
         \/ GetLoansForFacility(r)
  PROVE  TypedStep(r)
<1> DEFINE isIdentifier == FacilityIdentifier(r) \in Identifiers
           ofBundle == isIdentifier /\ Params(r).bundleIdentifier \in BundleIdentifiers
<1>1. \/ BeginsTyped(r,
             "GET/facilities/<facilityIdentifier>/activation-transactions/<bundleIdentifier>",
             "getActivation", ofBundle)
      \/ BeginsTyped(r,
             "GET/facilities/<facilityIdentifier>/loan-transactions/<bundleIdentifier>",
             "getLoanTransaction", ofBundle)
      \/ BeginsTyped(r, "GET/facilities/<facilityIdentifier>/fixed-fees", "getFees",
                     isIdentifier)
      \/ BeginsTyped(r, "GET/facilities/<facilityIdentifier>/loans", "getLoans", isIdentifier)
  BY DEF GetActivationTransactionByBundleIdentifier, GetLoanTransactionByBundleIdentifier,
         GetFixedFeesForFacility, GetLoansForFacility, ReceivesFor, Validated, Receives,
         BeginsTyped
<1>2. isIdentifier => /\ IsReady(r, "getActivation", None)
                      /\ IsReady(r, "getLoanTransaction", None)
                      /\ IsReady(r, "getFees", None)
                      /\ IsReady(r, "getLoans", None)
  BY LoanLabelsReady DEF LoanReady, LoanLabels
<1>3. ofBundle => isIdentifier
  OBVIOUS
<1> HIDE DEF isIdentifier, ofBundle
<1>4. CASE BeginsTyped(r,
             "GET/facilities/<facilityIdentifier>/activation-transactions/<bundleIdentifier>",
             "getActivation", ofBundle)
  BY <1>2, <1>3, <1>4, BeginsTypedStep
<1>5. CASE BeginsTyped(r,
             "GET/facilities/<facilityIdentifier>/loan-transactions/<bundleIdentifier>",
             "getLoanTransaction", ofBundle)
  BY <1>2, <1>3, <1>5, BeginsTypedStep
<1>6. CASE BeginsTyped(r, "GET/facilities/<facilityIdentifier>/fixed-fees", "getFees",
                       isIdentifier)
  BY <1>2, <1>6, BeginsTypedStep
<1>7. CASE BeginsTyped(r, "GET/facilities/<facilityIdentifier>/loans", "getLoans", isIdentifier)
  BY <1>2, <1>7, BeginsTypedStep
<1> QED BY <1>1, <1>4, <1>5, <1>6, <1>7

\* A request for an activation or a fee has its items validated, and the facility read.
LEMMA LoanReadsBegin ==
  ASSUME NEW r, Typed(r), pc[r] = "received",
         CreateActivationTransactionForFacility(r) \/ CreateFixedFeeForFacility(r)
  PROVE  TypedStep(r)
<1> DEFINE isIdentifier == FacilityIdentifier(r) \in Identifiers
           activations == \A item \in Range(Body(r)) :
                              item \in CreateFacilityActivationTransactionRequestItem
           fees == \A item \in Range(Body(r)) : item \in CreateFacilityFixedFeeRequestItem
           activates == isIdentifier /\ activations
           charges == isIdentifier /\ fees
<1>1. \/ BeginsTyped(r, "POST/facilities/<facilityIdentifier>/activation-transactions",
                     "getFacilityToActivate", activates)
      \/ BeginsTyped(r, "POST/facilities/<facilityIdentifier>/fixed-fees", "getFacilityOfFee",
                     charges)
  <2> HIDE DEF isIdentifier, activations, fees
  <2>1. CASE CreateActivationTransactionForFacility(r)
    BY <2>1 DEF CreateActivationTransactionForFacility, ReceivesArrayFor, ReceivesFor, Validated,
                Receives, BeginsTyped, isIdentifier, activations
  <2>2. CASE CreateFixedFeeForFacility(r)
    BY <2>2 DEF CreateFixedFeeForFacility, ReceivesArrayFor, ReceivesFor, Validated,
                Receives, BeginsTyped, isIdentifier, fees
  <2> QED BY <2>1, <2>2
<1>2. activates => IsReady(r, "getFacilityToActivate", None)
  BY LoanLabelsReady DEF LoanReady, LoanLabels
<1>3. charges => IsReady(r, "getFacilityOfFee", None)
  BY LoanLabelsReady DEF LoanReady, LoanLabels
<1> HIDE DEF activates, charges
<1>4. CASE BeginsTyped(r, "POST/facilities/<facilityIdentifier>/activation-transactions",
                       "getFacilityToActivate", activates)
  BY <1>2, <1>4, BeginsTypedStep
<1>5. CASE BeginsTyped(r, "POST/facilities/<facilityIdentifier>/fixed-fees",
                       "getFacilityOfFee", charges)
  BY <1>3, <1>5, BeginsTypedStep
<1> QED BY <1>1, <1>4, <1>5

\* A request for a loan or for an amendment has its items validated.
LEMMA LoanItemsBegin ==
  ASSUME NEW r, Typed(r), pc[r] = "received",
         CreateLoanForFacility(r) \/ CreateAmountAmendmentForFixedFees(r)
         \/ CreateAmountAmendmentForLoan(r)
  PROVE  TypedStep(r)
<1> DEFINE isIdentifier == FacilityIdentifier(r) \in Identifiers
           isLoan == Params(r).loanIdentifier \in LoanIdentifiers
           loans == \A item \in Range(Body(r)) : IsCreateFacilityLoanRequestItem(item)
           creates == isIdentifier /\ loans /\ Body(r) # <<>>
           amendsFees == isIdentifier /\ ItemsValid(r, CreateFixedFeeAmountAmendmentRequestItem)
           amendsLoan == /\ isIdentifier /\ isLoan
                         /\ ItemsValid(r, CreateLoanAmountAmendmentRequestItem)
<1>1. \/ BeginsTyped(r, "POST/facilities/<facilityIdentifier>/loans", "createLoan", creates)
      \/ BeginsTyped(r, "POST/facilities/<facilityIdentifier>/fixed-fees/amendments/amount",
                     "amendFees", amendsFees)
      \/ BeginsTyped(r,
             "POST/facilities/<facilityIdentifier>/loans/<loanIdentifier>/amendments/amount",
             "amendLoan", amendsLoan)
  <2> HIDE DEF isIdentifier, isLoan, loans
  <2>1. CASE CreateLoanForFacility(r)
    BY <2>1 DEF CreateLoanForFacility, ValidatedItems, Validated, Receives, BeginsTyped,
                isIdentifier, loans
  <2>2. CASE CreateAmountAmendmentForFixedFees(r)
    BY <2>2 DEF CreateAmountAmendmentForFixedFees, ReceivesItemFor, ValidatedItem,
                ValidatedItems, Validated, Receives, BeginsTyped, ItemsValid, isIdentifier
  <2>3. CASE CreateAmountAmendmentForLoan(r)
    BY <2>3 DEF CreateAmountAmendmentForLoan, ValidatedItem, ValidatedItems, Validated,
                Receives, BeginsTyped, ItemsValid, isIdentifier, isLoan
  <2> QED BY <2>1, <2>2, <2>3
<1>2. ASSUME Op(r) \in ArrayOps, creates  PROVE IsReady(r, "createLoan", None)
  <2>1. Body(r)[1] \in Range(Body(r))
    BY <1>2, FirstItem, TypedParts
  <2>2. IsCreateFacilityLoanRequestItem(Body(r)[1])
    BY <1>2, <2>1
  <2> QED BY <1>2, <2>2, LoanLabelsReady DEF LoanReady, LoanLabels
<1>3. amendsFees => IsReady(r, "amendFees", None)
  BY LoanLabelsReady DEF LoanReady, LoanLabels, ItemsValid
<1>4. ASSUME Op(r) \in ArrayOps, amendsLoan  PROVE IsReady(r, "amendLoan", None)
  <2>1. Body(r)[1] \in CreateLoanAmountAmendmentRequestItem
    BY <1>4, FirstIsValid
  <2> QED BY <1>4, <2>1, LoanLabelsReady DEF LoanReady, LoanLabels
<1> HIDE DEF creates, amendsFees, amendsLoan
<1>5. CASE BeginsTyped(r, "POST/facilities/<facilityIdentifier>/loans", "createLoan", creates)
  <2>1. Op(r) \in ArrayOps
    BY <1>5 DEF BeginsTyped, ArrayOps
  <2> QED BY <1>2, <1>5, <2>1, BeginsTypedStep
<1>6. CASE BeginsTyped(r, "POST/facilities/<facilityIdentifier>/fixed-fees/amendments/amount",
                       "amendFees", amendsFees)
  BY <1>3, <1>6, BeginsTypedStep
<1>7. CASE BeginsTyped(r,
             "POST/facilities/<facilityIdentifier>/loans/<loanIdentifier>/amendments/amount",
             "amendLoan", amendsLoan)
  <2>1. Op(r) \in ArrayOps
    BY <1>7 DEF BeginsTyped, ArrayOps
  <2> QED BY <1>4, <1>7, <2>1, BeginsTypedStep
<1> QED BY <1>1, <1>5, <1>6, <1>7

LEMMA UpdateLoanBeginsTyped ==
  ASSUME NEW r, Typed(r), pc[r] = "received", UpdateLoanExpiryDate(r)
  PROVE  TypedStep(r)
<1> DEFINE op == "PATCH/facilities/<facilityIdentifier>/loans/<loanIdentifier>"
           valid == /\ FacilityIdentifier(r) \in Identifiers
                    /\ Params(r).loanIdentifier \in LoanIdentifiers
                    /\ Body(r).expiryDate \in Dates
<1>1. BeginsTyped(r, op, "getLoanToUpdate", valid)
  BY DEF UpdateLoanExpiryDate, ReceivesFor, Validated, Receives, BeginsTyped
<1>2. valid => IsReady(r, "getLoanToUpdate", None)
  BY LoanLabelsReady DEF LoanReady, LoanLabels
<1> HIDE DEF valid
<1> QED BY <1>1, <1>2, BeginsTypedStep

LEMMA LoanBeginsTyped ==
  ASSUME NEW r, Typed(r), pc[r] = "received", LoanHandler(r)
  PROVE  TypedStep(r)
BY LoanGetsBegin, LoanReadsBegin, LoanItemsBegin, UpdateLoanBeginsTyped DEF LoanHandler

\* The bundles that handlers ask for are of their DTO.
LEMMA CreateActivationTyped ==
  ASSUME NEW r, Typed(r), pc[r] # "received", CreateActivationTransactionForFacility(r)
  PROVE  TypedStep(r)
<1> DEFINE facilityIdentifier == FacilityIdentifier(r)
<1>1. /\ pc[r] \in {"getFacilityToActivate", "createActivation"}
      /\ Op(r) = "POST/facilities/<facilityIdentifier>/activation-transactions"
      /\ facilityIdentifier \in Identifiers
      /\ LoanReady(r, pc[r], local[r])
  <2>1. pc[r] \in {"getFacilityToActivate", "createActivation"}
    BY DEF CreateActivationTransactionForFacility, ReceivesArrayFor, ReceivesFor, Receives
  <2>2. LoanReady(r, pc[r], local[r])
    BY <2>1, TypedParts DEF IsReady
  <2> QED BY <2>1, <2>2, LoanCourses, TypedParts DEF LoanReady
<1>2. CASE pc[r] = "getFacilityToActivate"
  <2>1. ReadsTyped(r, "createActivation")
    BY <1>2 DEF CreateActivationTransactionForFacility, ReceivesArrayFor, ReceivesFor, Receives,
                ReadFacilityThen, Get, IsGiven, ReadsTyped
  <2>2. ASSUME NEW facility, IsAcbsFacility(facility), Body(r) # <<>>
        PROVE  IsReady(r, "createActivation", facility)
    <3>1. Body(r)[1] \in Range(Body(r))
      BY <1>1, <2>2, FirstItem, TypedParts DEF ArrayOps
    <3>2. Body(r)[1] \in CreateFacilityActivationTransactionRequestItem
      BY <1>1, <1>2, <3>1 DEF LoanReady
    <3>3. LoanReady(r, "createActivation", facility)
      BY <1>1, <2>2, <3>2 DEF LoanReady
    <3> QED BY <3>3 DEF IsReady, PartyReady, DealReady, FacilityReady, FacilityPartReady
  <2> QED BY <2>1, <2>2, ReadsTypedStep
<1>3. CASE pc[r] = "createActivation"
  <2> DEFINE message == ActivationTransaction(facilityIdentifier, local[r], Body(r)[1])
             code == Body(r)[1].initialBundleStatusCode
             messages == <<message>>
  <2>1. CreateBundleInformation(r, 201, BundleInformation(code, None, messages))
    BY <1>3 DEF CreateActivationTransactionForFacility, ReceivesArrayFor, ReceivesFor, Receives
  <2>2. Body(r)[1] \in CreateFacilityActivationTransactionRequestItem /\ IsAcbsFacility(local[r])
    BY <1>1, <1>3 DEF LoanReady
  <2>3. code \in InitialBundleStatusCodes
    BY <2>2 DEF CreateFacilityActivationTransactionRequestItem
  <2>4. message \in FacilityCodeValueTransaction
    BY <1>1, <2>2, ActivationMessage
  <2>5. message.type = "FacilityCodeValueTransaction"
    BY DEF ActivationTransaction
  <2> HIDE DEF message
  <2>6. message \in BundleAction
    BY <2>4 DEF BundleAction
  <2>7. messages \in Seq(BundleAction) /\ ~IsNewLoanRequest(messages[1])
    BY <2>5, <2>6 DEF IsNewLoanRequest
  <2> HIDE DEF code, messages
  <2>8. IsDto("BundleInformation", BundleInformation(code, None, messages))
    BY <2>3, <2>7, BundleSent DEF Maybe
  <2> QED BY <1>1, <2>1, <2>8, BundleTyped DEF BundleAnswered
<1> QED BY <1>1, <1>2, <1>3

LEMMA AmendFeesTyped ==
  ASSUME NEW r, Typed(r), pc[r] = "amendFees", CreateAmountAmendmentForFixedFees(r)
  PROVE  TypedStep(r)
<1> DEFINE facilityIdentifier == FacilityIdentifier(r)
           n == Len(Body(r))
           messages == [i \in DOMAIN Body(r) |->
                          FeeAmountAmendmentMessage(facilityIdentifier, Body(r)[i])]
<1>1. /\ Op(r) = "POST/facilities/<facilityIdentifier>/fixed-fees/amendments/amount"
      /\ facilityIdentifier \in Identifiers
      /\ \A item \in Range(Body(r)) : item \in CreateFixedFeeAmountAmendmentRequestItem
  BY LoanCourses, TypedParts DEF IsReady, LoanReady
<1>2. CreateBundleInformation(r, 201, BundleInformation(SUBMIT_FOR_POSTING, None, messages))
  BY DEF CreateAmountAmendmentForFixedFees, ReceivesItemFor, Receives
<1>3. Body(r) \in Seq(Range(Body(r)))
  BY <1>1, ParamsAre, TypedParts DEF ArrayOps
<1>4. ASSUME NEW i \in DOMAIN Body(r)
      PROVE  /\ FeeAmountAmendmentMessage(facilityIdentifier, Body(r)[i]) \in BundleAction
             /\ FeeAmountAmendmentMessage(facilityIdentifier, Body(r)[i]).type =
                  "FacilityFeeAmountTransaction"
  <2>1. Body(r)[i] \in CreateFixedFeeAmountAmendmentRequestItem
    BY <1>1, <1>4 DEF Range
  <2>2. FeeAmountAmendmentMessage(facilityIdentifier, Body(r)[i])
          \in FacilityFeeAmountTransaction
    BY <1>1, <2>1, FeeMessage
  <2> QED BY <2>2 DEF BundleAction, FeeAmountAmendmentMessage
<1>5. 1 \in DOMAIN Body(r)
  <2>1. Calls(r)
    BY DEF Calls
  <2> QED BY <2>1, CourseKnows, TypedParts DEF Knows, KnowsLoan
<1>6. n \in Nat /\ DOMAIN Body(r) = 1..n
  BY <1>3
<1>7. messages \in Seq(BundleAction)
  <2> HIDE DEF facilityIdentifier, n
  <2>1. messages \in [1..n -> BundleAction]
    BY <1>4, <1>6
  <2> HIDE DEF messages
  <2> QED BY <1>6, <2>1, SeqDef
<1>8. ~IsNewLoanRequest(messages[1])
  <2>1. messages[1] = FeeAmountAmendmentMessage(facilityIdentifier, Body(r)[1])
    BY <1>5
  <2> HIDE DEF messages
  <2> QED BY <1>4, <1>5, <2>1 DEF IsNewLoanRequest
<1>9. SUBMIT_FOR_POSTING \in InitialBundleStatusCodes
  BY DEF SUBMIT_FOR_POSTING, InitialBundleStatusCodes
<1> HIDE DEF messages
<1>10. IsDto("BundleInformation", BundleInformation(SUBMIT_FOR_POSTING, None, messages))
  BY <1>7, <1>8, <1>9, BundleSent DEF Maybe
<1> QED BY <1>1, <1>2, <1>10, BundleTyped DEF BundleAnswered

LEMMA CreateLoanTyped ==
  ASSUME NEW r, Typed(r), pc[r] = "createLoan", CreateLoanForFacility(r)
  PROVE  TypedStep(r)
<1> DEFINE loan == Body(r)[1]
           message == NewLoanMessage(FacilityIdentifier(r), loan)
           date == AddTime(loan.postingDate)
           code == FACILITY_LOAN.initialBundleStatusCode
           messages == <<message>>
<1>1. /\ Op(r) = "POST/facilities/<facilityIdentifier>/loans"
      /\ FacilityIdentifier(r) \in Identifiers /\ IsCreateFacilityLoanRequestItem(loan)
  BY LoanCourses, TypedParts DEF IsReady, LoanReady
<1>2. CreateBundleInformation(r, 201, BundleInformation(code, date, messages))
  BY DEF CreateLoanForFacility, Receives
<1>3. date \in DateTimes
  BY <1>1, DatesSent DEF IsCreateFacilityLoanRequestItem, CreateFacilityLoanRequestItem
<1>4. date \in Maybe(DateTimes) /\ date # None
  <2>1. PICK day \in Dates : date = <<day, "T00:00:00Z">>
    BY <1>3 DEF DateTimes
  <2> HIDE DEF date
  <2> QED BY <1>3, <2>1, AcbsHttpAssumption DEF Maybe
<1>5. message \in NewLoanRequest
  BY <1>1, NewLoanSent
<1> HIDE DEF message
<1>6. messages \in Seq(BundleAction)
  <2>1. message \in BundleAction
    BY <1>5 DEF BundleAction
  <2> QED BY <2>1
<1>7. code \in InitialBundleStatusCodes
  BY DEF FACILITY_LOAN, SUBMIT_FOR_POSTING, InitialBundleStatusCodes
<1> HIDE DEF date, code, messages
<1>8. IsDto("BundleInformation", BundleInformation(code, date, messages))
  BY <1>4, <1>6, <1>7, BundleSent
<1> QED BY <1>1, <1>2, <1>8, BundleTyped DEF BundleAnswered

LEMMA AmendLoanTyped ==
  ASSUME NEW r, Typed(r), pc[r] = "amendLoan", CreateAmountAmendmentForLoan(r)
  PROVE  TypedStep(r)
<1> DEFINE message == LoanAdvance(Params(r).loanIdentifier, Body(r)[1])
           messages == <<message>>
<1>1. /\ Op(r) =
           "POST/facilities/<facilityIdentifier>/loans/<loanIdentifier>/amendments/amount"
      /\ Body(r)[1] \in CreateLoanAmountAmendmentRequestItem
      /\ Params(r).loanIdentifier \in LoanIdentifiers
  BY LoanCourses, TypedParts DEF IsReady, LoanReady
<1>2. CreateBundleInformation(r, 201, BundleInformation(SUBMIT_FOR_POSTING, None, messages))
  BY DEF CreateAmountAmendmentForLoan, Receives
<1>3. message \in LoanAdvanceTransaction
  BY <1>1, AdvanceMessage
<1>4. message.type = "LoanAdvanceTransaction"
  BY DEF LoanAdvance
<1> HIDE DEF message
<1>5. messages \in Seq(BundleAction) /\ ~IsNewLoanRequest(messages[1])
  <2>1. message \in BundleAction
    BY <1>3 DEF BundleAction
  <2> QED BY <1>4, <2>1 DEF IsNewLoanRequest
<1>6. SUBMIT_FOR_POSTING \in InitialBundleStatusCodes
  BY DEF SUBMIT_FOR_POSTING, InitialBundleStatusCodes
<1> HIDE DEF messages
<1>7. IsDto("BundleInformation", BundleInformation(SUBMIT_FOR_POSTING, None, messages))
  BY <1>5, <1>6, BundleSent DEF Maybe
<1> QED BY <1>1, <1>2, <1>7, BundleTyped DEF BundleAnswered

\* A bundle that a GET gives is of its DTO, and so is the message that is shown of it.
LEMMA BundleGiven ==
  ASSUME NEW r, Typed(r), NEW bundleIdentifier,
         NEW outcome \in GetOutcomes(GetBundleInformationByIdentifier(bundleIdentifier)),
         IsGiven(outcome[1])
  PROVE  /\ IsDto("BundleInformation", outcome[1].data)
         /\ outcome[1].data.BundleMessageList[1] \in BundleAction
<1> DEFINE exists == /\ bundleIdentifier \in DOMAIN acbs
                     /\ acbs[bundleIdentifier].kind = "BundleInformation"
           data == acbs[bundleIdentifier].data
           result == IF exists THEN Ok(data) ELSE Refusal("BundleInformationNotFound")
           known == {"BundleInformationNotFound"}
<1>1. AnswersIf(exists, result, data, "BundleInformationNotFound")
  BY DEF AnswersIf
<1>2. outcome \in GetOutcomes(GetCall(known, result))
  BY DEF GetBundleInformationByIdentifier
<1>3. known \subseteq DOMAIN KnownErrors
  BY KnownTexts
<1>4. exists => IsDto("BundleInformation", data)
  BY FoundTyped
<1>5. exists => 1 \in DOMAIN data.BundleMessageList
  BY TypedParts DEF StoreOK, IsStore, IsPossible
<1>6. exists => data \in AcbsBundleInformation
  BY <1>4 DEF IsDto
<1> HIDE DEF data
<1>7. exists => data.BundleMessageList[1] \in BundleAction
  <2>1. ASSUME exists  PROVE data.BundleMessageList[1] \in BundleAction
    <3>1. data.BundleMessageList \in Seq(BundleAction)
      BY <1>6, <2>1 DEF AcbsBundleInformation
    <3> HIDE DEF exists
    <3> QED BY <1>5, <2>1, <3>1
  <2> QED BY <2>1
<1> HIDE DEF exists, result, known
<1>8. exists /\ outcome[1].data = data
  BY <1>1, <1>2, <1>3, GivenIf
<1> QED BY <1>4, <1>7, <1>8

LEMMA ActionTypes ==
  ASSUME NEW action \in BundleAction
  PROVE  /\ IsFacilityCodeValueTransaction(action) => action \in FacilityCodeValueTransaction
         /\ IsNewLoanRequest(action) => action \in NewLoanRequest
BY DEF BundleAction, IsFacilityCodeValueTransaction, IsNewLoanRequest,
       FacilityAmountTransaction, FacilityCodeValueTransaction, FacilityFeeAmountTransaction,
       LoanAdvanceTransaction, NewLoanRequest

LEMMA GetActivationTyped ==
  ASSUME NEW r, Typed(r), pc[r] = "getActivation", GetActivationTransactionByBundleIdentifier(r)
  PROVE  TypedStep(r)
<1> DEFINE call == GetBundleInformationByIdentifier(Params(r).bundleIdentifier)
<1>1. Op(r) =
        "GET/facilities/<facilityIdentifier>/activation-transactions/<bundleIdentifier>"
  BY LoanCourses, TypedParts
<1>2. PICK outcome \in GetOutcomes(call) :
        /\ UNCHANGED acbs
        /\ faults' = faults + outcome[2]
        /\ IF IsGiven(outcome[1])
           THEN LET action == outcome[1].data.BundleMessageList[1]
                IN  ReplyIfOfKind(r, IsFacilityCodeValueTransaction(action),
                                  MapActivationTransaction(outcome[1].data, action))
           ELSE Throw(r, GetException(call, outcome[1]))
  BY DEF GetActivationTransactionByBundleIdentifier, ReceivesFor, Receives, Get, IsGiven
<1>3. ASSUME IsGiven(outcome[1])  PROVE TypedLands(r)
  <2> DEFINE bundle == outcome[1].data
             action == bundle.BundleMessageList[1]
             body == MapActivationTransaction(bundle, action)
  <2>1. bundle \in AcbsBundleInformation /\ action \in BundleAction
    BY <1>3, BundleGiven DEF IsDto
  <2>2. ReplyIfOfKind(r, IsFacilityCodeValueTransaction(action), body)
    BY <1>2, <1>3
  <2>3. CASE IsFacilityCodeValueTransaction(action) /\ Reply(r, 200, body)
    <3>1. body \in GetFacilityActivationTransactionResponseDto
      BY <2>1, <2>3, ActionTypes, ActivationRead
    <3> HIDE DEF body
    <3>2. body \in ResponseDto(Op(r))
      BY <1>1, <3>1 DEF ResponseDto
    <3>3. IsAnswer(Op(r), body)
      BY <1>1, <3>2, ItemAnswer DEF Lists
    <3> QED BY <2>3, <3>3, RepliesTyped
  <2> HIDE DEF body, action, bundle
  <2> QED BY <2>2, <2>3, ThrowsTyped DEF ReplyIfOfKind
<1> HIDE DEF call
<1>4. GetsTyped(r, call)
  BY <1>2, <1>3 DEF GetsTyped
<1> QED BY <1>4, GetsTypedStep

LEMMA GetLoanTransactionTyped ==
  ASSUME NEW r, Typed(r), pc[r] = "getLoanTransaction", GetLoanTransactionByBundleIdentifier(r)
  PROVE  TypedStep(r)
<1> DEFINE call == GetBundleInformationByIdentifier(Params(r).bundleIdentifier)
<1>1. Op(r) = "GET/facilities/<facilityIdentifier>/loan-transactions/<bundleIdentifier>"
  BY LoanCourses, TypedParts
<1>2. PICK outcome \in GetOutcomes(call) :
        /\ UNCHANGED acbs
        /\ faults' = faults + outcome[2]
        /\ IF IsGiven(outcome[1])
           THEN LET action == outcome[1].data.BundleMessageList[1]
                IN  ReplyIfOfKind(r, IsNewLoanRequest(action),
                                  MapLoanTransaction(outcome[1].data, action))
           ELSE Throw(r, GetException(call, outcome[1]))
  BY DEF GetLoanTransactionByBundleIdentifier, ReceivesFor, Receives, Get, IsGiven
<1>3. ASSUME IsGiven(outcome[1])  PROVE TypedLands(r)
  <2> DEFINE bundle == outcome[1].data
             action == bundle.BundleMessageList[1]
             body == MapLoanTransaction(bundle, action)
  <2>1. /\ bundle \in AcbsBundleInformation /\ action \in BundleAction
        /\ IsNewLoanRequest(action) => bundle.PostingDate # None
    BY <1>3, BundleGiven DEF IsDto
  <2>2. ReplyIfOfKind(r, IsNewLoanRequest(action), body)
    BY <1>2, <1>3
  <2>3. CASE IsNewLoanRequest(action) /\ Reply(r, 200, body)
    <3>1. body \in GetFacilityLoanTransactionResponseDto
      BY <2>1, <2>3, ActionTypes, LoanTransactionRead
    <3> HIDE DEF body
    <3>2. body \in ResponseDto(Op(r))
      BY <1>1, <3>1 DEF ResponseDto
    <3>3. IsAnswer(Op(r), body)
      BY <1>1, <3>2, ItemAnswer DEF Lists
    <3> QED BY <2>3, <3>3, RepliesTyped
  <2> HIDE DEF body, action, bundle
  <2> QED BY <2>2, <2>3, ThrowsTyped DEF ReplyIfOfKind
<1> HIDE DEF call
<1>4. GetsTyped(r, call)
  BY <1>2, <1>3 DEF GetsTyped
<1> QED BY <1>4, GetsTypedStep

LEMMA GetFeesTyped ==
  ASSUME NEW r, Typed(r), pc[r] = "getFees", GetFixedFeesForFacility(r)
  PROVE  TypedStep(r)
<1> DEFINE facilityIdentifier == FacilityIdentifier(r)
           parts == DataOf("FixedFee", facilityIdentifier)
           known == {}
           result == Ok(parts)
           call == GetCall(known, result)
           Read(fees) == [k \in DOMAIN fees |-> FixedFeeOfAcbs(facilityIdentifier, fees[k])]
           read == Read(parts)
<1>1. /\ Op(r) = "GET/facilities/<facilityIdentifier>/fixed-fees"
      /\ facilityIdentifier \in Identifiers
  BY LoanCourses, TypedParts DEF IsReady, LoanReady
<1>2. PICK outcome \in GetOutcomes(call) :
        /\ UNCHANGED acbs
        /\ faults' = faults + outcome[2]
        /\ IF IsGiven(outcome[1]) THEN Reply(r, 200, Read(outcome[1].data))
           ELSE Throw(r, GetException(call, outcome[1]))
  BY DEF GetFixedFeesForFacility, ReceivesFor, Receives, Get, IsGiven, ReplyEach,
         AcbsGetFixedFeesForFacility
<1>3. IsCall(call) /\ \A data : call.result = Ok(data) => data = parts
  <2> HIDE DEF parts
  <2>1. IsResult(result) /\ \A data : result = Ok(data) => data = parts
    BY OkOrNull
  <2>2. known \subseteq DOMAIN KnownErrors
    OBVIOUS
  <2> HIDE DEF known, result
  <2> QED BY <2>1, <2>2, GetCalls
<1>4. ASSUME NEW k \in DOMAIN read  PROVE read[k] \in ResponseDto(Op(r))
  <2> HIDE DEF facilityIdentifier
  <2>1. k \in DOMAIN parts /\ read[k] = FixedFeeOfAcbs(facilityIdentifier, parts[k])
    BY <1>4
  <2>2. IsDto("FixedFee", parts[k])
    BY <2>1, PartsTyped
  <2>3. read[k] \in GetFacilityFixedFeeResponseItem
    BY <1>1, <2>1, <2>2, FeeRead DEF IsDto
  <2> QED BY <1>1, <2>3 DEF ResponseDto
<1>5. IF IsGiven(outcome[1])
      THEN outcome[1].data = parts => Reply(r, 200, read)
      ELSE Throw(r, GetException(call, outcome[1]))
  <2> HIDE DEF call, parts
  <2> QED BY <1>2
<1>6. Op(r) \in Lists
  BY <1>1 DEF Lists
<1> HIDE DEF call, parts, read
<1> QED BY <1>2, <1>3, <1>4, <1>5, <1>6, ShowsTyped

LEMMA GetLoansTyped ==
  ASSUME NEW r, Typed(r), pc[r] = "getLoans", GetLoansForFacility(r)
  PROVE  TypedStep(r)
<1> DEFINE facilityIdentifier == FacilityIdentifier(r)
           exists == FacilityExists(facilityIdentifier)
           parts == DataOf("Loan", facilityIdentifier)
           known == {"FacilityNotFound"}
           result == IfFacilityExists(facilityIdentifier, "FacilityNotFound", Ok(parts))
           call == GetCall(known, result)
           Read(loans) == [k \in DOMAIN loans |-> MapLoan(loans[k])]
           read == Read(parts)
<1>1. Op(r) = "GET/facilities/<facilityIdentifier>/loans"
  BY LoanCourses, TypedParts
<1>2. PICK outcome \in GetOutcomes(call) :
        /\ UNCHANGED acbs
        /\ faults' = faults + outcome[2]
        /\ IF IsGiven(outcome[1]) THEN Reply(r, 200, Read(outcome[1].data))
           ELSE Throw(r, GetException(call, outcome[1]))
  BY DEF GetLoansForFacility, ReceivesFor, Receives, Get, IsGiven, AcbsGetLoansForFacility
<1>3. IsCall(call) /\ \A data : call.result = Ok(data) => data = parts
  <2>1. AnswersIf(exists, result, parts, "FacilityNotFound")
    BY DEF AnswersIf, IfFacilityExists, FacilityExists
  <2>2. known \subseteq DOMAIN KnownErrors
    BY KnownTexts
  <2> HIDE DEF exists, parts, known, result
  <2>3. IsResult(result) /\ \A data : result = Ok(data) => exists /\ data = parts
    BY <2>1, OkIf
  <2> QED BY <2>2, <2>3, GetCalls
<1>4. ASSUME NEW k \in DOMAIN read  PROVE read[k] \in ResponseDto(Op(r))
  <2> HIDE DEF facilityIdentifier
  <2>1. k \in DOMAIN parts /\ read[k] = MapLoan(parts[k])
    BY <1>4
  <2>2. IsDto("Loan", parts[k])
    BY <2>1, PartsTyped
  <2>3. read[k] \in GetFacilityLoanResponseItem
    BY <2>1, <2>2, LoanRead
  <2> QED BY <1>1, <2>3 DEF ResponseDto
<1>5. IF IsGiven(outcome[1])
      THEN outcome[1].data = parts => Reply(r, 200, read)
      ELSE Throw(r, GetException(call, outcome[1]))
  <2> HIDE DEF call, parts
  <2> QED BY <1>2
<1>6. Op(r) \in Lists
  BY <1>1 DEF Lists
<1> HIDE DEF call, parts, read
<1> QED BY <1>2, <1>3, <1>4, <1>5, <1>6, ShowsTyped

LEMMA CreateFeeTyped ==
  ASSUME NEW r, Typed(r), pc[r] # "received", CreateFixedFeeForFacility(r)
  PROVE  TypedStep(r)
<1> DEFINE facilityIdentifier == FacilityIdentifier(r)
<1>1. /\ pc[r] \in {"getFacilityOfFee", "createFee"}
      /\ Op(r) = "POST/facilities/<facilityIdentifier>/fixed-fees"
      /\ facilityIdentifier \in Identifiers
      /\ LoanReady(r, pc[r], local[r])
  <2>1. pc[r] \in {"getFacilityOfFee", "createFee"}
    BY DEF CreateFixedFeeForFacility, ReceivesArrayFor, ReceivesFor, Receives
  <2>2. LoanReady(r, pc[r], local[r])
    BY <2>1, TypedParts DEF IsReady
  <2> QED BY <2>1, <2>2, LoanCourses, TypedParts DEF LoanReady
<1>2. CASE pc[r] = "getFacilityOfFee"
  <2>1. ReadsTyped(r, "createFee")
    BY <1>2 DEF CreateFixedFeeForFacility, ReceivesArrayFor, ReceivesFor, Receives, Get, IsGiven,
                ReadsTyped
  <2>2. ASSUME NEW facility, IsAcbsFacility(facility), Body(r) # <<>>
        PROVE  IsReady(r, "createFee", facility)
    <3>1. Body(r)[1] \in Range(Body(r))
      BY <1>1, <2>2, FirstItem, TypedParts DEF ArrayOps
    <3>2. Body(r)[1] \in CreateFacilityFixedFeeRequestItem
      BY <1>1, <1>2, <3>1 DEF LoanReady
    <3>3. LoanReady(r, "createFee", facility)
      BY <1>1, <2>2, <3>2 DEF LoanReady
    <3> QED BY <3>3 DEF IsReady, PartyReady, DealReady, FacilityReady, FacilityPartReady
  <2> QED BY <2>1, <2>2, ReadsTypedStep
<1>3. CASE pc[r] = "createFee"
  <2> DEFINE fee == FixedFeeToCreateInAcbs(local[r], Body(r)[1])
             identified == [FacilityIdentifier |-> facilityIdentifier,
                            SegmentIdentifier |-> fee.SegmentIdentifier,
                            LenderTypeCode |-> fee.LenderTypeCode]
             isNew == FeeIndexes(acbs, identified) = {}
             data == Added(r, "FixedFee", facilityIdentifier, fee)
             known == {"InvalidPortfolioIdAndFacilityId", "FixedFeeExists"}
             result == IF FeeIndexes(acbs, identified) # {} THEN Refusal("FixedFeeExists")
                       ELSE IfFacilityExists(facilityIdentifier,
                                             "InvalidPortfolioIdAndFacilityId", Ok(data))
             body == [facilityIdentifier |-> facilityIdentifier]
  <2>1. FacilityExists(facilityIdentifier)
    <3>1. Calls(r)
      BY <1>3 DEF Calls
    <3> QED BY <1>3, <3>1, CourseKnows, TypedParts DEF Knows, KnowsFacility
  <2>2. AnswersIf(isNew, result, data, "FixedFeeExists")
    BY <2>1 DEF AnswersIf, IfFacilityExists
  <2>3. TypedStore(data)
    <3>1. Body(r)[1] \in CreateFacilityFixedFeeRequestItem /\ IsAcbsFacility(local[r])
      BY <1>1, <1>3 DEF LoanReady
    <3>2. IsDto("FixedFee", fee)
      BY <3>1, FeeSent DEF IsDto
    <3> HIDE DEF fee
    <3> QED BY <3>2, AddsTyped
  <2>4. Reply(r, 201, body) => TypedLands(r)
    BY <1>1, AnswersFacility DEF FacilityAnswered
  <2>5. WritesTyped(r, result)
    <3>1. PICK outcome \in WriteOutcomes(result) :
            /\ acbs' = outcome[2]
            /\ faults' = faults + outcome[3]
            /\ IF outcome[1].status = 200 THEN Reply(r, 201, body)
               ELSE Throw(r, WrapAcbsHttpPostOrPutError(known, outcome[1]))
      BY <1>3 DEF CreateFixedFeeForFacility, ReceivesArrayFor, ReceivesFor, Receives,
                  AcbsCreateFixedFeeForFacility, Write, WriteOr, AnswerFacility
    <3> HIDE DEF data, result, known, body
    <3> QED BY <2>4, <3>1 DEF WritesTyped
  <2> HIDE DEF isNew, data, result
  <2> QED BY <2>2, <2>3, <2>5, WritesIfTyped
<1> QED BY <1>1, <1>2, <1>3

LEMMA GetLoanToUpdateTyped ==
  ASSUME NEW r, Typed(r), pc[r] = "getLoanToUpdate", UpdateLoanExpiryDate(r)
  PROVE  TypedStep(r)
<1> DEFINE loanIdentifier == Params(r).loanIdentifier
           exists == LoanExists(loanIdentifier)
           data == acbs[loanIdentifier].data
           known == {"LoanNotFound"}
           result == IF exists THEN Ok(data) ELSE Refusal("LoanNotFound")
           call == GetCall(known, result)
<1>1. /\ FacilityIdentifier(r) \in Identifiers /\ loanIdentifier \in LoanIdentifiers
      /\ Body(r).expiryDate \in Dates
  BY TypedParts DEF IsReady, LoanReady
<1>2. AnswersIf(exists, result, data, "LoanNotFound")
  BY DEF AnswersIf, LoanExists
<1>3. PICK outcome \in GetOutcomes(call) :
        /\ UNCHANGED acbs
        /\ faults' = faults + outcome[2]
        /\ IF IsGiven(outcome[1]) THEN Goto(r, "putLoan", outcome[1].data)
           ELSE Throw(r, GetException(call, outcome[1]))
  BY DEF UpdateLoanExpiryDate, ReceivesFor, Receives, Get, IsGiven, AcbsGetLoanByIdentifier
<1>4. exists => IsDto("Loan", data)
  BY FoundTyped DEF LoanExists
<1>5. known \subseteq DOMAIN KnownErrors
  BY KnownTexts
<1>6. ASSUME IsGiven(outcome[1])  PROVE TypedLands(r)
  <2> HIDE DEF exists, data, known, result
  <2>1. exists /\ outcome[1].data = data
    BY <1>2, <1>5, <1>6, GivenIf
  <2>2. LoanReady(r, "putLoan", outcome[1].data)
    BY <1>1, <1>4, <2>1 DEF LoanReady
  <2>3. IsReady(r, "putLoan", outcome[1].data)
    BY <2>2 DEF IsReady, PartyReady, DealReady, FacilityReady, FacilityPartReady
  <2> QED BY <1>3, <1>6, <2>3, GoesTyped
<1> HIDE DEF call
<1>7. GetsTyped(r, call)
  BY <1>3, <1>6 DEF GetsTyped
<1> QED BY <1>7, GetsTypedStep

LEMMA PutLoanTyped ==
  ASSUME NEW r, Typed(r), pc[r] = "putLoan", UpdateLoanExpiryDate(r)
  PROVE  TypedStep(r)
<1> DEFINE loanIdentifier == Params(r).loanIdentifier
           loan == LoanWithExpiryDate(local[r], Body(r).expiryDate)
           exists == LoanExists(loanIdentifier)
           data == Replaced(r, loanIdentifier, loan)
           result == IF exists THEN Ok(data) ELSE Refusal("LoanNotFound")
           body == [loanIdentifier |-> loanIdentifier]
<1>1. /\ Op(r) = "PATCH/facilities/<facilityIdentifier>/loans/<loanIdentifier>"
      /\ loanIdentifier \in LoanIdentifiers
      /\ Body(r).expiryDate \in Dates /\ IsDto("Loan", local[r])
  BY LoanCourses, TypedParts DEF IsReady, LoanReady
<1>2. AnswersIf(exists, result, data, "LoanNotFound")
  BY DEF AnswersIf, LoanExists
<1>3. ASSUME exists  PROVE TypedStore(data)
  <2>1. IsDto("Loan", loan)
    BY <1>1, LoanMoves
  <2>2. loanIdentifier \in DOMAIN acbs /\ acbs[loanIdentifier].kind = "Loan"
    BY <1>3 DEF LoanExists
  <2> HIDE DEF loan, loanIdentifier
  <2> QED BY <2>1, <2>2, ReplacesTyped
<1>4. Reply(r, 200, body) => TypedLands(r)
  <2>1. body \in ResponseDto(Op(r))
    BY <1>1 DEF ResponseDto
  <2> HIDE DEF body
  <2>2. IsAnswer(Op(r), body)
    BY <1>1, <2>1, ItemAnswer DEF Lists
  <2> QED BY <2>2, RepliesTyped
<1>5. WritesTyped(r, result)
  <2>1. PICK outcome \in WriteOutcomes(result) :
          /\ acbs' = outcome[2]
          /\ faults' = faults + outcome[3]
          /\ IF outcome[1].status = 200 THEN Reply(r, 200, body)
             ELSE Throw(r, WrapAcbsHttpPostOrPutError({"LoanNotFound"}, outcome[1]))
    BY DEF UpdateLoanExpiryDate, ReceivesFor, Receives, AcbsUpdateLoanByIdentifier, Write, WriteOr
  <2> HIDE DEF data, result, body
  <2> QED BY <1>4, <2>1 DEF WritesTyped
<1> HIDE DEF exists, data, result
<1> QED BY <1>2, <1>3, <1>5, WritesIfTyped

LEMMA LoanTyped ==
  ASSUME NEW r, Typed(r), LoanHandler(r)
  PROVE  TypedStep(r)
<1>1. CASE pc[r] = "received"
  BY <1>1, LoanBeginsTyped
<1>2. CASE pc[r] # "received"
  <2>1. CASE UpdateLoanExpiryDate(r)
    <3>1. pc[r] \in {"getLoanToUpdate", "putLoan"}
      BY <1>2, <2>1 DEF UpdateLoanExpiryDate, ReceivesFor, Receives
    <3> QED BY <2>1, <3>1, GetLoanToUpdateTyped, PutLoanTyped
  <2>2. CASE \/ GetActivationTransactionByBundleIdentifier(r)
             \/ GetLoanTransactionByBundleIdentifier(r)
             \/ GetFixedFeesForFacility(r)
             \/ GetLoansForFacility(r)
    <3>1. \/ pc[r] = "getActivation" /\ GetActivationTransactionByBundleIdentifier(r)
          \/ pc[r] = "getLoanTransaction" /\ GetLoanTransactionByBundleIdentifier(r)
          \/ pc[r] = "getFees" /\ GetFixedFeesForFacility(r)
          \/ pc[r] = "getLoans" /\ GetLoansForFacility(r)
      BY <1>2, <2>2 DEF GetActivationTransactionByBundleIdentifier,
             GetLoanTransactionByBundleIdentifier, GetFixedFeesForFacility, GetLoansForFacility,
             ReceivesFor, Receives
    <3> QED BY <3>1, GetActivationTyped, GetLoanTransactionTyped, GetFeesTyped, GetLoansTyped
  <2>3. CASE \/ CreateAmountAmendmentForFixedFees(r)
             \/ CreateLoanForFacility(r)
             \/ CreateAmountAmendmentForLoan(r)
    <3>1. \/ pc[r] = "amendFees" /\ CreateAmountAmendmentForFixedFees(r)
          \/ pc[r] = "createLoan" /\ CreateLoanForFacility(r)
          \/ pc[r] = "amendLoan" /\ CreateAmountAmendmentForLoan(r)
      BY <1>2, <2>3 DEF CreateAmountAmendmentForFixedFees, CreateLoanForFacility,
             CreateAmountAmendmentForLoan, ReceivesItemFor, Receives
    <3> QED BY <3>1, AmendFeesTyped, CreateLoanTyped, AmendLoanTyped
  <2> QED BY <1>2, <2>1, <2>2, <2>3, CreateActivationTyped, CreateFeeTyped DEF LoanHandler
<1> QED BY <1>1, <1>2

-----------------------------------------------------------------------------
(* Parties and their ratings.                                              *)

LEMMA PartyIsReady ==
  ASSUME NEW r, NEW loc,
         NEW label \in {"searchForParties", "getParty", "getExternalRatings", "searchForParty",
                        "createParty", "getRatings", "findCustomers", "createRating"},
         PartyReady(r, label, loc)
  PROVE  IsReady(r, label, loc) /\ label \notin {"received", "done"}
BY DEF IsReady, DealReady, FacilityReady, FacilityPartReady, LoanReady

LEMMA PartyBeginsTyped ==
  ASSUME NEW r, Typed(r), pc[r] = "received", PartyHandler(r)
  PROVE  TypedStep(r)
<1> DEFINE isSearched == Params(r).searchText \in Identifiers
           isIdentifier == Params(r).partyIdentifier \in PartyIdentifiers
           creates == ItemsValid(r, CreatePartyRequestItem)
<1>1. \/ BeginsTyped(r, "GET/parties", "searchForParties", isSearched)
      \/ BeginsTyped(r, "GET/parties/<partyIdentifier>", "getParty", isIdentifier)
      \/ Goto(r, "getExternalRatings", None) /\ WithoutAcbs
      \/ BeginsTyped(r, "POST/parties", "searchForParty", creates)
  <2> HIDE DEF isSearched, isIdentifier
  <2>1. CASE GetPartiesBySearchText(r)
    BY <2>1 DEF GetPartiesBySearchText, Validated, Receives, BeginsTyped, isSearched
  <2>2. CASE GetPartyByIdentifier(r)
    BY <2>2 DEF GetPartyByIdentifier, Validated, Receives, BeginsTyped, isIdentifier
  <2>3. CASE GetExternalRatingsForParty(r)
    BY <2>3 DEF GetExternalRatingsForParty
  <2>4. CASE PostParties(r)
    BY <2>4 DEF PostParties, ReceiveParty, SearchForParty, CreateParty, GetRatingsOfParty,
                FindCustomerType, CreateRating, ValidatedItem, ValidatedItems, Validated,
                Receives, BeginsTyped, ItemsValid
  <2> QED BY <2>1, <2>2, <2>3, <2>4 DEF PartyHandler
<1>2. /\ IsReady(r, "searchForParties", None)
      /\ IsReady(r, "getParty", None)
      /\ IsReady(r, "getExternalRatings", None)
  BY PartyIsReady DEF PartyReady
<1>3. ASSUME Op(r) \in ArrayOps, creates  PROVE IsReady(r, "searchForParty", None)
  <2>1. Body(r)[1] \in CreatePartyRequestItem
    BY <1>3, FirstIsValid
  <2> QED BY <2>1, PartyIsReady DEF PartyReady
<1> HIDE DEF isSearched, isIdentifier, creates
<1>4. CASE BeginsTyped(r, "GET/parties", "searchForParties", isSearched)
  BY <1>2, <1>4, BeginsTypedStep
<1>5. CASE BeginsTyped(r, "GET/parties/<partyIdentifier>", "getParty", isIdentifier)
  BY <1>2, <1>5, BeginsTypedStep
<1>6. CASE Goto(r, "getExternalRatings", None) /\ WithoutAcbs
  BY <1>2, <1>6, GoesTypedStep
<1>7. CASE BeginsTyped(r, "POST/parties", "searchForParty", creates)
  <2>1. Op(r) \in ArrayOps
    BY <1>7 DEF BeginsTyped, ArrayOps
  <2> QED BY <1>3, <1>7, <2>1, BeginsTypedStep
<1> QED BY <1>1, <1>4, <1>5, <1>6, <1>7

\* A search finds parties, of their DTO.
LEMMA PartiesFound ==
  ASSUME NEW r, Typed(r), NEW searchText, NEW k \in DOMAIN SetToSeq(PartiesOf(searchText))
  PROVE  LET i == SetToSeq(PartiesOf(searchText))[k]
         IN  i \in DOMAIN acbs /\ acbs[i].data \in AcbsCreatePartyRequestDto
<1> DEFINE S == PartiesOf(searchText)
           found == SetToSeq(S)
<1>1. DOMAIN acbs = 1..Len(acbs) /\ Len(acbs) \in Nat
  BY IsASequence, TypedParts DEF StoreOK, IsStore
<1>2. IsFiniteSet(DOMAIN acbs) /\ S \in SUBSET DOMAIN acbs
  BY <1>1, FS_Interval DEF PartiesOf
<1>3. IsFiniteSet(S)
  BY <1>2, FS_Subset
<1> HIDE DEF S
<1>4. found \in Seq(S)
  BY <1>3, SetAsASequence
<1>5. k \in DOMAIN found
  BY DEF S
<1> HIDE DEF found
<1>6. found[k] \in S
  BY <1>4, <1>5
<1>7. found[k] \in DOMAIN acbs /\ acbs[found[k]].kind = "Party"
  BY <1>6 DEF S, PartiesOf, IsParty
<1>8. IsDto("Party", acbs[found[k]].data)
  BY <1>7, FoundTyped
<1> QED BY <1>7, <1>8 DEF IsDto, found, S

LEMMA GetPartiesTyped ==
  ASSUME NEW r, Typed(r), pc[r] = "searchForParties", GetPartiesBySearchText(r)
  PROVE  TypedStep(r)
<1> DEFINE searchText == Params(r).searchText
           call == AcbsGetPartyBySearchText(searchText)
           parts == SetToSeq(PartiesOf(searchText))
           Read(parties) == [k \in DOMAIN parties |-> PartyOfAcbs(acbs[parties[k]].data)]
           read == Read(parts)
<1>1. Op(r) = "GET/parties"
  BY PartyCourses, TypedParts
<1>2. PICK outcome \in GetOutcomes(call) :
        /\ UNCHANGED acbs
        /\ faults' = faults + outcome[2]
        /\ IF IsGiven(outcome[1]) THEN Reply(r, 200, Read(outcome[1].data))
           ELSE Throw(r, GetException(call, outcome[1]))
  BY DEF GetPartiesBySearchText, Receives, Get, IsGiven
<1>3. IsCall(call) /\ \A data : call.result = Ok(data) => data = parts
  BY SearchFinds, TypedParts
<1>4. ASSUME NEW k \in DOMAIN read  PROVE read[k] \in ResponseDto(Op(r))
  <2> HIDE DEF searchText
  <2>1. k \in DOMAIN parts /\ read[k] = PartyOfAcbs(acbs[parts[k]].data)
    BY <1>4
  <2>2. acbs[parts[k]].data \in AcbsCreatePartyRequestDto
    BY <2>1, PartiesFound
  <2>3. read[k] \in GetPartiesBySearchTextResponseItem
    BY <2>1, <2>2, PartyRead
  <2> QED BY <1>1, <2>3 DEF ResponseDto
<1>5. IF IsGiven(outcome[1])
      THEN outcome[1].data = parts => Reply(r, 200, read)
      ELSE Throw(r, GetException(call, outcome[1]))
  <2> HIDE DEF call, parts
  <2> QED BY <1>2
<1>6. Op(r) \in Lists
  BY <1>1 DEF Lists
<1> HIDE DEF call, parts, read
<1> QED BY <1>2, <1>3, <1>4, <1>5, <1>6, ShowsTyped

LEMMA GetPartyTyped ==
  ASSUME NEW r, Typed(r), pc[r] = "getParty", GetPartyByIdentifier(r)
  PROVE  TypedStep(r)
<1> DEFINE party == Params(r).partyIdentifier
           exists == IsParty(party)
           data == acbs[party].data
           known == {"PartyNotFound"}
           result == IF exists THEN Ok(data) ELSE Refusal("PartyNotFound")
           call == GetCall(known, result)
<1>1. Op(r) = "GET/parties/<partyIdentifier>"
  BY PartyCourses, TypedParts
<1>2. AnswersIf(exists, result, data, "PartyNotFound")
  BY DEF AnswersIf, IsParty
<1>3. PICK outcome \in GetOutcomes(call) :
        /\ UNCHANGED acbs
        /\ faults' = faults + outcome[2]
        /\ IF IsGiven(outcome[1]) THEN Reply(r, 200, PartyOfAcbs(outcome[1].data))
           ELSE Throw(r, GetException(call, outcome[1]))
  BY DEF GetPartyByIdentifier, Receives, Get, IsGiven, AcbsGetPartyByIdentifier
<1>4. exists => data \in AcbsCreatePartyRequestDto
  <2>1. exists => IsDto("Party", data)
    BY FoundTyped DEF IsParty
  <2> HIDE DEF data
  <2> QED BY <2>1 DEF IsDto
<1>5. known \subseteq DOMAIN KnownErrors
  BY KnownTexts
<1>6. ASSUME IsGiven(outcome[1])  PROVE TypedLands(r)
  <2> DEFINE body == PartyOfAcbs(outcome[1].data)
  <2> HIDE DEF exists, data, known, result
  <2>1. exists /\ outcome[1].data = data
    BY <1>2, <1>5, <1>6, GivenIf
  <2>2. body \in ResponseDto(Op(r))
    BY <1>1, <1>4, <2>1, PartyRead DEF ResponseDto
  <2>3. Reply(r, 200, body)
    BY <1>3, <1>6
  <2> HIDE DEF body
  <2>4. IsAnswer(Op(r), body)
    BY <1>1, <2>2, ItemAnswer DEF Lists
  <2> QED BY <2>3, <2>4, RepliesTyped
<1> HIDE DEF call
<1>7. GetsTyped(r, call)
  BY <1>3, <1>6 DEF GetsTyped
<1> QED BY <1>7, GetsTypedStep

LEMMA GetExternalRatingsTyped ==
  ASSUME NEW r, Typed(r), pc[r] = "getExternalRatings", GetExternalRatingsForParty(r)
  PROVE  TypedStep(r)
<1> DEFINE party == Params(r).partyIdentifier
           exists == IsParty(party)
           parts == DataOf("PartyExternalRating", party)
           known == {"PartyNotFound"}
           result == IF exists THEN Ok(parts) ELSE Refusal("PartyNotFound")
           call == GetCall(known, result)
           Read(ratings) == [k \in DOMAIN ratings |-> RatingOfAcbs(ratings[k])]
           read == Read(parts)
<1>1. Op(r) = "GET/parties/<partyIdentifier>/external-ratings"
  BY PartyCourses, TypedParts
<1>2. PICK outcome \in GetOutcomes(call) :
        /\ UNCHANGED acbs
        /\ faults' = faults + outcome[2]
        /\ IF IsGiven(outcome[1]) THEN Reply(r, 200, Read(outcome[1].data))
           ELSE Throw(r, GetException(call, outcome[1]))
  BY DEF GetExternalRatingsForParty, Receives, Get, IsGiven, AcbsGetExternalRatingsForParty
<1>3. IsCall(call) /\ \A data : call.result = Ok(data) => data = parts
  <2>1. AnswersIf(exists, result, parts, "PartyNotFound")
    BY DEF AnswersIf, IsParty
  <2>2. known \subseteq DOMAIN KnownErrors
    BY KnownTexts
  <2> HIDE DEF exists, parts, known, result
  <2>3. IsResult(result) /\ \A data : result = Ok(data) => exists /\ data = parts
    BY <2>1, OkIf
  <2> QED BY <2>2, <2>3, GetCalls
<1>4. ASSUME NEW k \in DOMAIN read  PROVE read[k] \in ResponseDto(Op(r))
  <2> HIDE DEF party
  <2>1. k \in DOMAIN parts /\ read[k] = RatingOfAcbs(parts[k])
    BY <1>4
  <2>2. IsDto("PartyExternalRating", parts[k])
    BY <2>1, PartsTyped
  <2>3. read[k] \in GetPartyExternalRatingsResponseItem
    BY <2>1, <2>2, RatingRead DEF IsDto
  <2> QED BY <1>1, <2>3 DEF ResponseDto
<1>5. IF IsGiven(outcome[1])
      THEN outcome[1].data = parts => Reply(r, 200, read)
      ELSE Throw(r, GetException(call, outcome[1]))
  <2> HIDE DEF call, parts
  <2> QED BY <1>2
<1>6. Op(r) \in Lists
  BY <1>1 DEF Lists
<1> HIDE DEF call, parts, read
<1> QED BY <1>2, <1>3, <1>4, <1>5, <1>6, ShowsTyped

\* POST /parties goes on with a body that was validated.
LEMMA PartyGoesOn ==
  ASSUME NEW r, Typed(r), Body(r)[1] \in CreatePartyRequestItem,
         NEW label \in {"createParty", "getRatings", "findCustomers"}, NEW loc,
         Goto(r, label, loc)
  PROVE  TypedLands(r)
<1>1. IsReady(r, label, loc) /\ label \notin {"received", "done"}
  BY PartyIsReady DEF PartyReady
<1> QED BY <1>1, GoesTyped

LEMMA PartyIsValid ==
  ASSUME NEW r, Typed(r), pc[r] \in {"searchForParty", "createParty", "getRatings",
                                     "findCustomers", "createRating"}
  PROVE  Body(r)[1] \in CreatePartyRequestItem /\ Op(r) = "POST/parties"
BY TypedParts, PartyCourses DEF IsReady, PartyReady

LEMMA SearchForPartyTyped ==
  ASSUME NEW r, Typed(r), SearchForParty(r)
  PROVE  TypedStep(r)
<1> DEFINE call == AcbsGetPartyBySearchText(PartyToCreate(r).alternateIdentifier)
           Found(party) == [partyIdentifier |-> party, status |-> 200]
<1>1. Body(r)[1] \in CreatePartyRequestItem
  BY PartyIsValid DEF SearchForParty
<1>2. PICK outcome \in GetOutcomes(call) :
        /\ UNCHANGED acbs
        /\ faults' = faults + outcome[2]
        /\ IF IsGiven(outcome[1])
           THEN IF outcome[1].data = <<>> THEN Goto(r, "createParty", None)
                ELSE Goto(r, "getRatings", Found(outcome[1].data[1]))
           ELSE Throw(r, GetException(call, outcome[1]))
  BY DEF SearchForParty, Get, IsGiven
<1> HIDE DEF call
<1>3. ASSUME IsGiven(outcome[1])  PROVE TypedLands(r)
  <2>1. \/ Goto(r, "createParty", None)
        \/ Goto(r, "getRatings", Found(outcome[1].data[1]))
    BY <1>2, <1>3
  <2> HIDE DEF Found
  <2> QED BY <1>1, <2>1, PartyGoesOn
<1>4. GetsTyped(r, call)
  BY <1>2, <1>3 DEF GetsTyped
<1> QED BY <1>4, GetsTypedStep

LEMMA CreatePartyTyped ==
  ASSUME NEW r, Typed(r), CreateParty(r)
  PROVE  TypedStep(r)
<1> DEFINE party == BuildAcbsCreatePartyRequest(PartyToCreate(r))
           known == {}
           data == Added(r, "Party", None, party)
           result == Ok(data)
           loc == [partyIdentifier |-> Len(acbs) + 1, status |-> 201]
<1>1. Body(r)[1] \in CreatePartyRequestItem
  BY PartyIsValid DEF CreateParty
<1>2. PICK outcome \in WriteOutcomes(result) :
        /\ acbs' = outcome[2]
        /\ faults' = faults + outcome[3]
        /\ IF outcome[1].status = 200 THEN Goto(r, "getRatings", loc)
           ELSE Throw(r, WrapAcbsHttpPostOrPutError(known, outcome[1]))
  BY DEF CreateParty, AcbsCreateParty, Write, WriteOr
<1>3. TypedStore(data)
  <2>1. IsDto("Party", party)
    BY <1>1, PartySent DEF PartyToCreate, IsDto
  <2> HIDE DEF party
  <2> QED BY <2>1, AddsTyped
<1> HIDE DEF data, known, loc
<1>4. WritesTyped(r, result)
  <2>1. Goto(r, "getRatings", loc) => TypedLands(r)
    BY <1>1, PartyGoesOn
  <2> HIDE DEF result
  <2> QED BY <1>2, <2>1 DEF WritesTyped
<1>5. IsResult(result) /\ result # Null /\ \A other : result = Ok(other) => other = data
  BY OkOrNull
<1> HIDE DEF result
<1> QED BY <1>3, <1>4, <1>5, WritesTypedStep

\* POST /parties answers with a party that it knows.
LEMMA AnswersPartyTyped ==
  ASSUME NEW r, Typed(r), pc[r] \in {"getRatings", "createRating"}, AnswerParty(r)
  PROVE  TypedLands(r)
<1> DEFINE body == [partyIdentifier |-> local[r].partyIdentifier]
<1>1. Op(r) = "POST/parties" /\ Calls(r)
  BY PartyIsValid DEF Calls
<1>2. IsParty(local[r].partyIdentifier) /\ local[r].status \in {200, 201}
  <2>1. KnowsParty(r)
    BY <1>1, TypedParts, CourseKnows DEF Knows
  <2> QED BY <2>1 DEF KnowsParty
<1>3. DOMAIN acbs = 1..Len(acbs) /\ Len(acbs) \in Nat
  BY IsASequence, TypedParts DEF StoreOK, IsStore
<1>4. local[r].partyIdentifier \in PartyIdentifiers
  BY <1>2, <1>3 DEF IsParty, PartyIdentifiers
<1>5. body \in CreatePartyResponse
  BY <1>4 DEF CreatePartyResponse
<1>6. Reply(r, local[r].status, body)
  BY DEF AnswerParty
<1> HIDE DEF body
<1>7. IsAnswer(Op(r), body)
  BY <1>1, <1>5, ItemAnswer DEF Lists, ResponseDto
<1> QED BY <1>2, <1>6, <1>7, RepliesTyped

LEMMA GetRatingsTyped ==
  ASSUME NEW r, Typed(r), GetRatingsOfParty(r)
  PROVE  TypedStep(r)
<1> DEFINE call == AcbsGetExternalRatingsForParty(local[r].partyIdentifier)
<1>1. Body(r)[1] \in CreatePartyRequestItem /\ pc[r] = "getRatings"
  BY PartyIsValid DEF GetRatingsOfParty
<1>2. PICK outcome \in GetOutcomes(call) :
        /\ UNCHANGED acbs
        /\ faults' = faults + outcome[2]
        /\ IF IsGiven(outcome[1])
           THEN IF outcome[1].data = <<>> THEN Goto(r, "findCustomers", local[r])
                ELSE AnswerParty(r)
           ELSE Throw(r, GetException(call, outcome[1]))
  BY DEF GetRatingsOfParty, Get, IsGiven
<1> HIDE DEF call
<1>3. ASSUME IsGiven(outcome[1])  PROVE TypedLands(r)
  <2>1. Goto(r, "findCustomers", local[r]) \/ AnswerParty(r)
    BY <1>2, <1>3
  <2> QED BY <1>1, <2>1, PartyGoesOn, AnswersPartyTyped
<1>4. GetsTyped(r, call)
  BY <1>2, <1>3 DEF GetsTyped
<1> QED BY <1>4, GetsTypedStep

LEMMA FindCustomerTypeTyped ==
  ASSUME NEW r, Typed(r), FindCustomerType(r)
  PROVE  TypedStep(r)
<1> DEFINE loc(types) ==
             [partyIdentifier |-> local[r].partyIdentifier, status |-> local[r].status,
              assignedRatingCode |-> AssignedRatingCode(GetPartyCustomerType(types))]
<1>1. Body(r)[1] \in CreatePartyRequestItem
  BY PartyIsValid DEF FindCustomerType
<1>2. PICK found \in FindCustomersByPartyUrn(PartyToCreate(r).alternateIdentifier) :
        /\ faults' = faults + found.faults
        /\ Throw(r, "MdmException") \/ Goto(r, "createRating", loc(found.types))
  BY DEF FindCustomerType
<1>3. found.faults = 0 \/ (found.faults = 1 /\ FaultsLeft # {})
  BY DEF FindCustomersByPartyUrn
<1>4. faults' \in 0..MaxFaults
  BY <1>2, <1>3, FaultsCount, TypedParts
<1>5. TypedStore(acbs')
  BY TypedParts DEF FindCustomerType
<1>6. ASSUME Goto(r, "createRating", loc(found.types))  PROVE TypedLands(r)
  <2>1. loc(found.types).assignedRatingCode \in Range(ASSIGNED_RATING_CODES)
    BY DEF AssignedRatingCode, ASSIGNED_RATING_CODES, Range
  <2> HIDE DEF loc
  <2>2. IsReady(r, "createRating", loc(found.types))
    BY <1>1, <2>1, PartyIsReady DEF PartyReady
  <2> QED BY <1>6, <2>2, GoesTyped
<1>7. TypedLands(r)
  <2> HIDE DEF loc
  <2> QED BY <1>2, <1>6, ThrowsTyped
<1> QED BY <1>4, <1>5, <1>7 DEF TypedStep

LEMMA CreateRatingTyped ==
  ASSUME NEW r, Typed(r), CreateRating(r)
  PROVE  TypedStep(r)
<1> DEFINE party == local[r].partyIdentifier
           rating == BuildAcbsCreateExternalRating(party, local[r].assignedRatingCode,
                                                   PartyToCreate(r).officerRiskDate)
           known == {"PartyIdentifierIsNotValid"}
           data == Added(r, "PartyExternalRating", party, rating)
           result == Ok(data)
<1>1. /\ Body(r)[1] \in CreatePartyRequestItem
      /\ pc[r] = "createRating"
      /\ local[r].assignedRatingCode \in Range(ASSIGNED_RATING_CODES)
  BY PartyIsValid, TypedParts DEF CreateRating, IsReady, PartyReady
<1>2. IsParty(party) /\ party \in PartyIdentifiers
  <2>1. KnowsParty(r)
    BY <1>1, TypedParts, CourseKnows DEF Knows, Calls
  <2>2. DOMAIN acbs = 1..Len(acbs) /\ Len(acbs) \in Nat
    BY IsASequence, TypedParts DEF StoreOK, IsStore
  <2> QED BY <1>1, <2>1, <2>2 DEF KnowsParty, IsParty, PartyIdentifiers
<1>3. rating.PartyIdentifier = party
  BY DEF BuildAcbsCreateExternalRating
<1>4. rating \in AcbsCreatePartyExternalRatingRequestDto
  <2>1. PartyToCreate(r).officerRiskDate \in Dates
    BY <1>1 DEF PartyToCreate, CreatePartyRequestItem
  <2> QED BY <1>1, <1>2, <2>1, RatingSent
<1>5. PICK outcome \in WriteOutcomes(result) :
        /\ acbs' = outcome[2]
        /\ faults' = faults + outcome[3]
        /\ IF outcome[1].status = 200 THEN AnswerParty(r)
           ELSE Throw(r, WrapAcbsHttpPostOrPutError(known, outcome[1]))
  <2> HIDE DEF rating
  <2> QED BY <1>2, <1>3
          DEF CreateRating, AcbsCreateExternalRatingForParty, Write, WriteOr, rating
<1> HIDE DEF rating
<1>6. TypedStore(data)
  <2>1. IsDto("PartyExternalRating", rating)
    BY <1>4 DEF IsDto
  <2> QED BY <2>1, AddsTyped
<1> HIDE DEF data, known
<1>7. IsResult(result) /\ result # Null /\ \A other : result = Ok(other) => other = data
  BY OkOrNull
<1> HIDE DEF result
<1>8. WritesTyped(r, result)
  <2>1. AnswerParty(r) => TypedLands(r)
    BY <1>1, AnswersPartyTyped
  <2> QED BY <1>5, <2>1 DEF WritesTyped
<1> QED BY <1>6, <1>7, <1>8, WritesTypedStep

LEMMA PartyTyped ==
  ASSUME NEW r, Typed(r), PartyHandler(r)
  PROVE  TypedStep(r)
<1>1. CASE pc[r] = "received"
  BY <1>1, PartyBeginsTyped
<1>2. CASE pc[r] # "received"
  <2>1. CASE GetPartiesBySearchText(r)
    <3>1. pc[r] = "searchForParties"
      BY <1>2, <2>1 DEF GetPartiesBySearchText, Receives
    <3> QED BY <2>1, <3>1, GetPartiesTyped
  <2>2. CASE GetPartyByIdentifier(r)
    <3>1. pc[r] = "getParty"
      BY <1>2, <2>2 DEF GetPartyByIdentifier, Receives
    <3> QED BY <2>2, <3>1, GetPartyTyped
  <2>3. CASE GetExternalRatingsForParty(r)
    <3>1. pc[r] = "getExternalRatings"
      BY <1>2, <2>3 DEF GetExternalRatingsForParty, Receives
    <3> QED BY <2>3, <3>1, GetExternalRatingsTyped
  <2>4. CASE PostParties(r)
    <3>1. ~ReceiveParty(r)
      BY <1>2 DEF ReceiveParty, Receives
    <3> QED BY <2>4, <3>1, SearchForPartyTyped, CreatePartyTyped, GetRatingsTyped,
               FindCustomerTypeTyped, CreateRatingTyped DEF PostParties
  <2> QED BY <2>1, <2>2, <2>3, <2>4 DEF PartyHandler
<1> QED BY <1>1, <1>2

-----------------------------------------------------------------------------
(* ACBS posts a bundle.                                                    *)

\* A message changes an amount by an integer.
LEMMA ChangeIsInt ==
  ASSUME NEW message \in BundleAction, NEW i
  PROVE  Change(message, i) \in Int
<1>1. CASE message.type = "FacilityAmountTransaction"
  <2>1. message.TransactionAmount \in Nat
    BY <1>1 DEF BundleAction, FacilityAmountTransaction, FacilityCodeValueTransaction,
                FacilityFeeAmountTransaction, LoanAdvanceTransaction, NewLoanRequest
  <2>2. \/ Change(message, i) = 0
        \/ Change(message, i) = message.TransactionAmount
        \/ Change(message, i) = -message.TransactionAmount
    BY <1>1 DEF Change, Signed
  <2> QED BY <2>1, <2>2
<1>2. CASE message.type = "FacilityFeeAmountTransaction"
  <2>1. message.TransactionAmount \in Nat
    BY <1>2 DEF BundleAction, FacilityAmountTransaction, FacilityCodeValueTransaction,
                FacilityFeeAmountTransaction, LoanAdvanceTransaction, NewLoanRequest
  <2>2. \/ Change(message, i) = 0
        \/ Change(message, i) = message.TransactionAmount
        \/ Change(message, i) = -message.TransactionAmount
    BY <1>2 DEF Change, Signed
  <2> QED BY <2>1, <2>2
<1>3. CASE message.type = "LoanAdvanceTransaction"
  <2>1. message.LoanAdvanceAmount \in Nat
    BY <1>3 DEF BundleAction, FacilityAmountTransaction, FacilityCodeValueTransaction,
                FacilityFeeAmountTransaction, LoanAdvanceTransaction, NewLoanRequest
  <2>2. \/ Change(message, i) = 0
        \/ Change(message, i) = message.LoanAdvanceAmount
        \/ Change(message, i) = -message.LoanAdvanceAmount
    BY <1>3 DEF Change, Signed
  <2> QED BY <2>1, <2>2
<1>4. CASE message.type \notin {"FacilityAmountTransaction", "FacilityFeeAmountTransaction",
                               "LoanAdvanceTransaction"}
  BY <1>4 DEF Change
<1> QED BY <1>1, <1>2, <1>3, <1>4

\* So do all the messages of a bundle.
SumOfChanges(messages, i) ==
    LET ChangeOf(k) == Change(messages[k], i)
    IN  MapThenSumSet(ChangeOf, DOMAIN messages)

LEMMA ChangesAreSummed ==
  ASSUME NEW messages, IsFiniteSet(DOMAIN messages),
         \A k \in DOMAIN messages : messages[k] \in BundleAction, NEW i
  PROVE  \E g : /\ Sums([k \in DOMAIN messages |-> Change(messages[k], i)], g,
                      SUBSET DOMAIN messages)
               /\ SumOfChanges(messages, i) = g[DOMAIN messages]
<1> DEFINE S == DOMAIN messages
           F == [k \in S |-> Change(messages[k], i)]
           IsIt(h) == h = [s \in SUBSET S |-> IF s = {} THEN 0
                            ELSE Change(messages[OneOf(s)], i) + h[s \ {OneOf(s)}]]
           g == CHOOSE h : IsIt(h)
<1>1. \A k \in S : F[k] = Change(messages[k], i)
  OBVIOUS
<1>2. \A s \in SUBSET S : s # {} => OneOf(s) \in S
  BY DEF OneOf
<1>3. PICK f : IsSum(S, F, f)
  <2> HIDE DEF F
  <2> QED BY SumsExist
<1>4. IsIt(f)
  <2>1. f = [s \in SUBSET S |-> IF s = {} THEN 0 ELSE F[OneOf(s)] + f[s \ {OneOf(s)}]]
    BY <1>3 DEF IsSum
  <2> HIDE DEF F, S
  <2> QED BY <1>1, <1>2, <2>1
<1>5. IsIt(g)
  <2> HIDE DEF IsIt
  <2> QED BY <1>4
<1>6. SumOfChanges(messages, i) = g[S]
  BY DEF SumOfChanges, MapThenSumSet, MapThenFoldSet, OneOf
<1> HIDE DEF g
<1>7. Sums(F, g, SUBSET S)
  <2> HIDE DEF F, S
  <2> QED BY <1>1, <1>2, <1>5 DEF Sums
<1> QED BY <1>6, <1>7

LEMMA ChangesAreInt ==
  ASSUME NEW messages, IsFiniteSet(DOMAIN messages),
         \A k \in DOMAIN messages : messages[k] \in BundleAction, NEW i
  PROVE  SumOfChanges(messages, i) \in Int
<1> DEFINE S == DOMAIN messages
           F == [k \in S |-> Change(messages[k], i)]
<1>1. PICK g : Sums(F, g, SUBSET S) /\ SumOfChanges(messages, i) = g[S]
  BY ChangesAreSummed
<1>2. \A k \in S : F[k] \in Int
  BY ChangeIsInt
<1> HIDE DEF F
<1> QED BY <1>1, <1>2, SumsAreInt

\* A facility with another limit, and perhaps active.
LEMMA FacilityAmendedTyped ==
  ASSUME NEW data, IsAcbsFacility(data), "FacilityStatusCode" \in DOMAIN data,
         NEW amount \in Int, NEW status \in Range(FACILITY_STATUSES)
  PROVE  IsAcbsFacility([[data EXCEPT !.LimitAmount = amount] EXCEPT !.FacilityStatusCode = status])
<1> DEFINE limited == [data EXCEPT !.LimitAmount = amount]
           new == [limited EXCEPT !.FacilityStatusCode = status]
<1>1. AcbsBaseFields \cup {"LimitAmount", "FacilityInitialStatusCode"} \subseteq DOMAIN data
      /\ IsAcbsBaseFacilityRequest(data)
      /\ data.FacilityInitialStatusCode = FACILITY.facilityInitialStatusCode
  BY DEF IsAcbsFacility
<1>2. "LimitAmount" \notin AcbsBaseFields /\ "FacilityStatusCode" \notin AcbsBaseFields
  BY DEF AcbsBaseFields
<1>3. /\ DOMAIN limited = DOMAIN data /\ limited.LimitAmount = amount
      /\ \A field \in DOMAIN data \ {"LimitAmount"} : limited[field] = data[field]
  BY <1>1
<1> HIDE DEF limited
<1>4. /\ DOMAIN new = DOMAIN data /\ new.FacilityStatusCode = status
      /\ \A field \in DOMAIN data \ {"FacilityStatusCode"} : new[field] = limited[field]
  BY <1>3
<1> HIDE DEF new
<1>5. \A field \in AcbsBaseFields : new[field] = data[field]
  BY <1>1, <1>2, <1>3, <1>4
<1>6. IsAcbsBaseFacilityRequest(new)
  BY <1>1, <1>5, BaseFieldsKept
<1>7. new.LimitAmount = amount
      /\ new.FacilityInitialStatusCode = FACILITY.facilityInitialStatusCode
  BY <1>1, <1>3, <1>4
<1>8. IsAcbsFacility(new)
  BY <1>1, <1>4, <1>6, <1>7 DEF IsAcbsFacility
<1> QED BY <1>8 DEF new, limited

\* A bundle that is marked as posted, or as failed.
LEMMA BundleMarkedTyped ==
  ASSUME NEW data, IsDto("BundleInformation", data), NEW code \in Range(BundleStatusCodes)
  PROVE  IsDto("BundleInformation", [data EXCEPT !.BundleStatusCode = code])
<1> DEFINE new == [data EXCEPT !.BundleStatusCode = code]
<1>1. data \in AcbsBundleInformation
      /\ (IsNewLoanRequest(data.BundleMessageList[1]) => data.PostingDate # None)
  BY DEF IsDto
<1>2. new \in AcbsBundleInformation
  BY <1>1 DEF AcbsBundleInformation
<1>3. new.BundleMessageList = data.BundleMessageList /\ new.PostingDate = data.PostingDate
  BY <1>1 DEF AcbsBundleInformation
<1> HIDE DEF new
<1>4. IsDto("BundleInformation", new)
  BY <1>1, <1>2, <1>3 DEF IsDto
<1> QED BY <1>4 DEF new

\* An entity whose data changes is of its DTO when the data is.
LEMMA EntityTyped ==
  ASSUME NEW e, IsEntity(e), NEW data, IsDto(e.kind, data)
  PROVE  IsOfItsDto([e EXCEPT !.data = data])
<1> DEFINE new == [kind |-> e.kind, owner |-> e.owner, data |-> data, by |-> e.by]
<1>1. [e EXCEPT !.data = data] = new
  BY EntityExcept
<1>2. IsOfItsDto(new)
  BY DEF IsOfItsDto
<1> QED BY <1>1, <1>2

LEMMA MessagesTyped ==
  ASSUME StoreOK, TypedStore(acbs),
         NEW bundle \in DOMAIN acbs, acbs[bundle].kind = "BundleInformation"
  PROVE  LET messages == acbs[bundle].data.BundleMessageList
         IN  /\ IsFiniteSet(DOMAIN messages) /\ 1 \in DOMAIN messages
             /\ \A k \in DOMAIN messages : messages[k] \in BundleAction
<1> DEFINE messages == acbs[bundle].data.BundleMessageList
<1>1. IsDto("BundleInformation", acbs[bundle].data)
  BY DEF TypedStore, IsOfItsDto
<1>2. messages \in Seq(BundleAction)
  BY <1>1 DEF IsDto, AcbsBundleInformation
<1>3. 1 \in DOMAIN messages
  BY DEF StoreOK, IsStore, IsPossible
<1> HIDE DEF messages
<1>4. DOMAIN messages = 1..Len(messages) /\ Len(messages) \in Nat
      /\ \A k \in DOMAIN messages : messages[k] \in BundleAction
  BY <1>2
<1>5. IsFiniteSet(DOMAIN messages)
  BY <1>4, FS_Interval
<1> QED BY <1>3, <1>4, <1>5 DEF messages

\* Any entity when ACBS posts a bundle.
LEMMA AmendedTyped ==
  ASSUME StoreOK, TypedStore(acbs),
         NEW bundle \in DOMAIN acbs, acbs[bundle].kind = "BundleInformation",
         NEW j \in DOMAIN acbs
  PROVE  IsOfItsDto(Amended(acbs[bundle].data.BundleMessageList, j))
<1> DEFINE e == acbs[j]
           messages == acbs[bundle].data.BundleMessageList
           ChangeOf(k) == Change(messages[k], j)
           change == MapThenSumSet(ChangeOf, DOMAIN messages)
           activations == Activations(messages, j)
           new == Amended(messages, j)
<1>1. IsEntity(e) /\ IsDto(e.kind, e.data)
  BY DEF StoreOK, IsStore, TypedStore, IsOfItsDto
<1>2. /\ IsFiniteSet(DOMAIN messages)
      /\ \A k \in DOMAIN messages : messages[k] \in BundleAction
  BY MessagesTyped
<1>3. change \in Int
  <2>1. change = SumOfChanges(messages, j)
    BY DEF SumOfChanges
  <2> HIDE DEF messages, change
  <2> QED BY <1>2, <2>1, ChangesAreInt
<1>4. CASE e.kind = "Facility"
  <2> DEFINE status == IF activations = {} THEN e.data.FacilityStatusCode
                       ELSE messages[CHOOSE k \in activations : TRUE]
                                .FacilityTransactionCodeValueCode
             amount == e.data.LimitAmount + change
             limited == [e.data EXCEPT !.LimitAmount = amount]
             data == [limited EXCEPT !.FacilityStatusCode = status]
  <2>1. IsAcbsFacility(e.data) /\ "FacilityStatusCode" \in DOMAIN e.data
    BY <1>1, <1>4 DEF IsDto, IsEntity, FieldsOf
  <2>2. status \in Range(FACILITY_STATUSES)
    <3>1. IsPossible(acbs, workload.mdm, acbs[bundle])
      BY DEF StoreOK, IsStore
    <3>2. \A k \in activations : k \in DOMAIN messages
            /\ messages[k].FacilityTransactionCodeValueCode = FACILITY_STATUSES.ACTIVE
      BY <3>1 DEF IsPossible, Activations, IsFacilityCodeValueTransaction
    <3>3. e.data.FacilityStatusCode \in Range(FACILITY_STATUSES)
      BY <2>1 DEF IsAcbsFacility
    <3> HIDE DEF activations
    <3> QED BY <3>2, <3>3, FacilityCodes
  <2>3. amount \in Int
    <3>1. e.data.LimitAmount \in Int
      BY <2>1, FacilityFields
    <3> HIDE DEF change
    <3> QED BY <1>3, <3>1
  <2>4. new = [e EXCEPT !.data = data]
    <3>1. limited.FacilityStatusCode = e.data.FacilityStatusCode
      BY <2>1
    <3>2. new = [e EXCEPT !.data.LimitAmount = @ + change,
                          !.data.FacilityStatusCode =
                              IF activations = {} THEN @
                              ELSE messages[CHOOSE k \in activations : TRUE]
                                       .FacilityTransactionCodeValueCode]
      BY <1>4 DEF Amended
    <3> QED BY <1>1, <3>1, <3>2
  <2> HIDE DEF status, amount
  <2>5. IsDto(e.kind, data)
    <3>1. IsAcbsFacility(data)
      BY <2>1, <2>2, <2>3, FacilityAmendedTyped
    <3> HIDE DEF data
    <3> QED BY <1>4, <3>1 DEF IsDto
  <2> HIDE DEF data
  <2> QED BY <1>1, <2>4, <2>5, EntityTyped
<1>5. CASE e.kind = "FixedFee"
  <2> DEFINE amount == e.data.FixedFeeAmount + change
             data == [e.data EXCEPT !.FixedFeeAmount = amount]
  <2>1. e.data \in AcbsCreateFacilityFixedFeeRequestDto
    BY <1>1, <1>5 DEF IsDto
  <2>2. amount \in Int
    <3>1. e.data.FixedFeeAmount \in Int
      BY <2>1 DEF AcbsCreateFacilityFixedFeeRequestDto
    <3> HIDE DEF change
    <3> QED BY <1>3, <3>1
  <2>3. new = [e EXCEPT !.data.FixedFeeAmount = amount]
    BY <1>5 DEF Amended
  <2> HIDE DEF amount
  <2>4. new = [e EXCEPT !.data = data]
    BY <2>3
  <2>5. data \in AcbsCreateFacilityFixedFeeRequestDto
    <3> HIDE DEF e
    <3> QED BY <2>1, <2>2 DEF AcbsCreateFacilityFixedFeeRequestDto
  <2> HIDE DEF data
  <2>6. IsDto(e.kind, data)
    BY <1>5, <2>5 DEF IsDto
  <2> QED BY <1>1, <2>4, <2>6, EntityTyped
<1>6. CASE e.kind = "Loan"
  <2> DEFINE balance == e.data.PrincipalBalance + change
             data == [e.data EXCEPT !.PrincipalBalance = balance]
  <2>1. IsDto("Loan", e.data)
    BY <1>1, <1>6
  <2>2. balance \in Int
    <3>1. e.data.PrincipalBalance \in Int
      BY <2>1, LoanIs
    <3> HIDE DEF change
    <3> QED BY <1>3, <3>1
  <2>3. new = [e EXCEPT !.data.PrincipalBalance = balance]
    BY <1>6 DEF Amended
  <2> HIDE DEF balance
  <2>4. new = [e EXCEPT !.data = data]
    BY <2>3
  <2>5. IsDto(e.kind, data)
    BY <1>6, <2>1, <2>2, LoanBalance
  <2> HIDE DEF data
  <2> QED BY <1>1, <2>4, <2>5, EntityTyped
<1>7. CASE e.kind \notin {"Facility", "FixedFee", "Loan"}
  <2>1. new = e
    BY <1>7 DEF Amended
  <2> QED BY <1>1, <2>1 DEF IsOfItsDto
<1> QED BY <1>4, <1>5, <1>6, <1>7

\* The loan that a posted bundle adds.
LEMMA NewLoansTyped ==
  ASSUME StoreOK, TypedStore(acbs),
         NEW i \in DOMAIN acbs, acbs[i].kind = "BundleInformation"
  PROVE  NewLoans(acbs[i]) = <<>> \/ \E loan : NewLoans(acbs[i]) = <<loan>> /\ IsOfItsDto(loan)
<1> DEFINE message == acbs[i].data.BundleMessageList[1]
           data == [PrincipalBalance |-> message.LoanAmount] ++ message
           loan == [kind |-> "Loan", owner |-> message.FacilityIdentifier, data |-> data,
                    by |-> acbs[i].by]
<1>1. message \in BundleAction
  BY MessagesTyped
<1>2. CASE IsNewLoanRequest(message)
  <2>1. message \in NewLoanRequest
    <3> HIDE DEF message
    <3> QED BY <1>1, <1>2 DEF BundleAction, IsNewLoanRequest, FacilityAmountTransaction,
               FacilityCodeValueTransaction, FacilityFeeAmountTransaction, LoanAdvanceTransaction
  <2>2. NewLoans(acbs[i]) = <<loan>>
    BY <1>2 DEF NewLoans
  <2> HIDE DEF message
  <2>3. IsDto("Loan", data)
    BY <2>1, LoanPosted
  <2> HIDE DEF data
  <2>4. IsOfItsDto(loan)
    BY <2>3 DEF IsOfItsDto
  <2> HIDE DEF loan
  <2> QED BY <2>2, <2>4
<1>3. CASE ~IsNewLoanRequest(message)
  BY <1>3 DEF NewLoans
<1> QED BY <1>2, <1>3

LEMMA PostTyped ==
  ASSUME StoreOK, TypedStore(acbs), faults \in 0..MaxFaults, NEW i \in DOMAIN acbs, PostBundle(i)
  PROVE  TypedStore(acbs') /\ faults' \in 0..MaxFaults
<1> DEFINE Marked(code) == [acbs[i] EXCEPT !.data.BundleStatusCode = code]
           messages == acbs[i].data.BundleMessageList
           marked == Marked(BundleStatusCodes.POSTED)
           amended == [j \in DOMAIN acbs |-> IF j = i THEN marked ELSE Amended(messages, j)]
           failed == Marked(BundleStatusCodes.POSTING_ERROR)
           loans == NewLoans(acbs[i])
<1>1. acbs[i].kind = "BundleInformation"
  BY DEF PostBundle
<1>2. \/ acbs' = amended \o loans /\ UNCHANGED faults
      \/ acbs' = [acbs EXCEPT ![i] = failed] /\ faults < MaxFaults /\ faults' = faults + 1
  BY DEF PostBundle
<1>3. acbs \in Seq(Range(acbs)) /\ Len(acbs) \in Nat /\ DOMAIN acbs = 1..Len(acbs)
  BY IsASequence DEF StoreOK, IsStore
<1>4. \A code \in Range(BundleStatusCodes) : IsOfItsDto(Marked(code))
  <2> SUFFICES ASSUME NEW code \in Range(BundleStatusCodes)  PROVE IsOfItsDto(Marked(code))
    OBVIOUS
  <2> DEFINE data == [acbs[i].data EXCEPT !.BundleStatusCode = code]
  <2>1. IsEntity(acbs[i]) /\ IsDto("BundleInformation", acbs[i].data)
    BY <1>1 DEF StoreOK, IsStore, TypedStore, IsOfItsDto
  <2>2. Marked(code) = [acbs[i] EXCEPT !.data = data]
    OBVIOUS
  <2>3. IsDto(acbs[i].kind, data)
    BY <1>1, <2>1, BundleMarkedTyped
  <2> HIDE DEF data, Marked
  <2> QED BY <2>1, <2>2, <2>3, EntityTyped
<1> HIDE DEF Marked
<1>5. IsOfItsDto(marked) /\ IsOfItsDto(failed)
  BY <1>4, BundleCodes
<1> HIDE DEF marked, failed
<1>6. CASE acbs' = [acbs EXCEPT ![i] = failed] /\ faults < MaxFaults /\ faults' = faults + 1
  <2>1. TypedStore(acbs')
    BY <1>5, <1>6 DEF TypedStore
  <2>2. faults' \in 0..MaxFaults
    BY <1>6, AcbsHttpAssumption
  <2> QED BY <2>1, <2>2
<1>7. CASE acbs' = amended \o loans /\ UNCHANGED faults
  <2>1. \A j \in DOMAIN acbs : IsOfItsDto(amended[j])
    BY <1>1, <1>5, AmendedTyped
  <2>2. DOMAIN amended = 1..Len(acbs) /\ amended = [j \in 1..Len(acbs) |-> amended[j]]
    BY <1>3
  <2> HIDE DEF amended
  <2>3. amended \in Seq(Range(amended)) /\ Len(amended) = Len(acbs)
    BY <1>3, <2>2, AFunctionIsASequence
  <2>4. CASE loans = <<>>
    <3>1. acbs' = amended
      BY <1>7, <2>3, <2>4, ConcatEmptySeq
    <3> QED BY <1>3, <1>7, <2>1, <2>2, <3>1 DEF TypedStore
  <2>5. ASSUME NEW loan, loans = <<loan>>, IsOfItsDto(loan)
        PROVE  TypedStore(acbs')
    <3> DEFINE S == Range(amended) \cup {loan}
               n == Len(acbs) + 1
    <3>1. amended \in Seq(S) /\ <<loan>> \in Seq(S)
      BY <2>3, SeqMonotonic
    <3>2. /\ acbs' \in Seq(S)
          /\ Len(acbs') = n
          /\ \A j \in 1..n : acbs'[j] =
                IF j <= Len(acbs) THEN amended[j] ELSE <<loan>>[j - Len(acbs)]
      <4>1. acbs' = amended \o <<loan>>
        BY <1>7, <2>5
      <4>2. Len(<<loan>>) = 1
        OBVIOUS
      <4>3. /\ amended \o <<loan>> \in Seq(S)
            /\ Len(amended \o <<loan>>) = Len(amended) + Len(<<loan>>)
            /\ \A j \in 1..Len(amended) + Len(<<loan>>) : (amended \o <<loan>>)[j] =
                  IF j <= Len(amended) THEN amended[j] ELSE <<loan>>[j - Len(amended)]
        <5> HIDE DEF S
        <5> QED BY <3>1, ConcatProperties
      <4> QED BY <2>3, <4>1, <4>2, <4>3
    <3>3. DOMAIN acbs' = DOMAIN acbs \cup {n} /\ acbs'[n] = loan
          /\ \A j \in DOMAIN acbs : acbs'[j] = amended[j]
      <4>1. DOMAIN acbs' = 1..n
        BY <3>2, SeqOfRange
      <4> QED BY <1>3, <3>2, <4>1
    <3> QED BY <2>1, <2>5, <3>3 DEF TypedStore
  <2>6. TypedStore(acbs')
    BY <1>1, <2>4, <2>5, NewLoansTyped
  <2> QED BY <1>7, <2>6
<1> QED BY <1>2, <1>6, <1>7

-----------------------------------------------------------------------------
(* TypeOK.                                                                 *)

LEMMA HandleTyped ==
  ASSUME NEW r, Typed(r), Handle(r)
  PROVE  TypedStep(r)
BY PartyTyped, DealTyped, FacilityTyped, FacilityPartTyped, LoanTyped DEF Handle

\* What a request holds depends on the request only.
LEMMA ReadyStays ==
  ASSUME NEW r, UNCHANGED workload, IsReady(r, pc'[r], local'[r])
  PROVE  IsReady(r, pc[r], local[r])'
<1>1. Body(r)' = Body(r) /\ Params(r)' = Params(r)
  BY DEF Body, Params
<1>2. DealIdentifier(r)' = DealIdentifier(r) /\ FacilityIdentifier(r)' = FacilityIdentifier(r)
  BY <1>1 DEF DealIdentifier, FacilityIdentifier
<1> HIDE DEF Body, Params, DealIdentifier, FacilityIdentifier
<1>3. PartyReady(r, pc[r], local[r])'
  BY <1>1 DEF IsReady, PartyReady
<1>4. DealReady(r, pc[r])'
  BY <1>1, <1>2 DEF IsReady, DealReady
<1>5. FacilityReady(r, pc[r], local[r])'
  BY <1>1, <1>2 DEF IsReady, FacilityReady
<1>6. FacilityPartReady(r, pc[r], local[r])'
  BY <1>1, <1>2 DEF IsReady, FacilityPartReady
<1>7. LoanReady(r, pc[r], local[r])'
  BY <1>1, <1>2 DEF IsReady, LoanReady
<1> QED BY <1>3, <1>4, <1>5, <1>6, <1>7 DEF IsReady

\* The request that takes a step, after it.
LEMMA TypedAfter ==
  ASSUME NEW r, UNCHANGED workload, TypedLands(r), answer[r] = None
  PROVE  TypedRequest(r)'
<1>0. Op(r)' = Op(r)
  BY DEF Op
<1>1. CASE pc'[r] = "done" /\ answer'[r].status \in {200, 201} /\ IsAnswer(Op(r), answer'[r].body)
  <2>1. Created(r)'
    BY <1>1 DEF Created, Answered
  <2>2. IsAnswer(Op(r), answer[r].body)'
    BY <1>0, <1>1 DEF IsAnswer
  <2> QED BY <1>1, <2>1, <2>2 DEF TypedRequest
<1>2. CASE pc'[r] = "done" /\ answer'[r].status \in {400, 404, 500} /\ answer'[r].body = None
  <2>1. ~Created(r)'
    BY <1>2 DEF Created, Answered
  <2> QED BY <1>2, <2>1 DEF TypedRequest
<1>3. CASE pc'[r] \notin {"received", "done"} /\ answer'[r] = answer[r]
           /\ IsReady(r, pc'[r], local'[r])
  <2>1. ~Created(r)'
    BY <1>3 DEF Created, Answered
  <2>2. IsReady(r, pc[r], local[r])'
    BY <1>3, ReadyStays
  <2> QED BY <1>3, <2>1, <2>2 DEF TypedRequest
<1> QED BY <1>1, <1>2, <1>3 DEF TypedLands

\* Any other request, and all of them in a step of none.
LEMMA TypedStays ==
  ASSUME NEW r, UNCHANGED workload, TypedRequest(r),
         pc'[r] = pc[r], local'[r] = local[r], answer'[r] = answer[r]
  PROVE  TypedRequest(r)'
<1>1. Op(r)' = Op(r) /\ (Created(r)' <=> Created(r))
  BY DEF Op, Created, Answered
<1>2. pc[r] \notin {"received", "done"} => IsReady(r, pc[r], local[r])'
  <2>1. pc[r] \notin {"received", "done"} => IsReady(r, pc'[r], local'[r])
    BY DEF TypedRequest
  <2> QED BY <2>1, ReadyStays
<1>3. Created(r) => IsAnswer(Op(r), answer[r].body)'
  <2>1. Created(r) => IsAnswer(Op(r), answer'[r].body)
    BY DEF TypedRequest
  <2> QED BY <1>1, <2>1 DEF IsAnswer
<1> QED BY <1>1, <1>2, <1>3 DEF TypedRequest

LEMMA HandleKeepsTypes ==
  ASSUME IInv, TypesOK, NEW r \in Requests, UNCHANGED workload, Handle(r)
  PROVE  TypesOK'
<1>1. ControlOK /\ StoreOK /\ InCourse(r) /\ pc[r] # "done" /\ Frame(r)
  BY HandlesNotDone, HandleStep DEF IInv, Step
<1>2. TypedStep(r)
  BY <1>1, HandleTyped DEF Typed
<1>3. answer[r] = None
  BY <1>1 DEF TypesOK, TypedRequest
<1>4. TypedRequest(r)'
  BY <1>2, <1>3, TypedAfter DEF TypedStep
<1>5. ASSUME NEW q \in Requests \ {r}  PROVE TypedRequest(q)'
  <2>1. pc'[q] = pc[q] /\ local'[q] = local[q] /\ answer'[q] = answer[q]
    BY <1>1 DEF Frame
  <2> QED BY <2>1, TypedStays DEF TypesOK
<1>6. Requests' = Requests
  BY DEF Requests
<1>7. TypedStore(acbs)' /\ faults' \in 0..MaxFaults
  BY <1>2 DEF TypedStep
<1> QED BY <1>4, <1>5, <1>6, <1>7 DEF TypesOK

LEMMA OthersKeepTypes ==
  ASSUME TypesOK, UNCHANGED <<workload, pc, local, answer>>,
         TypedStore(acbs'), faults' \in 0..MaxFaults
  PROVE  TypesOK'
<1>1. Requests' = Requests
  BY DEF Requests
<1>2. \A r \in Requests : TypedRequest(r)'
  BY TypedStays DEF TypesOK
<1> QED BY <1>1, <1>2 DEF TypesOK

LEMMA NextKeepsTypes == IInv /\ TypesOK /\ [Next]_vars => TypesOK'
<1> SUFFICES ASSUME IInv, TypesOK, [Next]_vars  PROVE TypesOK'
  OBVIOUS
<1>1. CASE UNCHANGED vars
  BY <1>1, OthersKeepTypes DEF vars, TypesOK
<1>2. ASSUME UNCHANGED workload, NEW r \in Requests, Handle(r)  PROVE TypesOK'
  BY <1>2, HandleKeepsTypes
<1>3. ASSUME UNCHANGED workload, NEW i \in DOMAIN acbs, PostBundle(i)  PROVE TypesOK'
  <2>1. TypedStore(acbs') /\ faults' \in 0..MaxFaults
    BY <1>3, PostTyped DEF IInv, TypesOK
  <2>2. UNCHANGED <<pc, local, answer>>
    BY <1>3 DEF PostBundle
  <2> QED BY <1>3, <2>1, <2>2, OthersKeepTypes
<1>4. ASSUME UNCHANGED workload, Finished  PROVE TypesOK'
  BY <1>4, OthersKeepTypes DEF Finished, TypesOK
<1> QED BY <1>1, <1>2, <1>3, <1>4 DEF Next

LEMMA InitTypes == Init => TypesOK
<1> SUFFICES ASSUME Init  PROVE TypesOK
  OBVIOUS
<1>1. workload \in Workloads /\ acbs = workload.acbs
  BY DEF Init
<1>2. TypedStore(acbs)
  BY <1>1, WorkloadAssumption DEF TypedStore
<1>3. faults \in 0..MaxFaults
  BY AcbsHttpAssumption DEF Init
<1>4. ASSUME NEW r \in Requests  PROVE TypedRequest(r)
  <2>1. pc[r] = "received" /\ answer[r] = None
    BY <1>4 DEF Init
  <2> QED BY <2>1 DEF TypedRequest, Created, Answered
<1> QED BY <1>2, <1>3, <1>4 DEF TypesOK

\* Everything that the API sends ACBS is of the DTO of its endpoint, and
\* every answer of the DTO of its handler: for every body that a handler
\* accepts, whatever is left out of it, whatever requests overlap, and
\* whatever ACBS has posted of the limits, fees and loans in between.
THEOREM TypeCorrectness == Spec => []TypeOK
<1>1. Init => TypesOK
  BY InitTypes
<1>2. IInv /\ TypesOK /\ [Next]_vars => TypesOK'
  BY NextKeepsTypes
<1>3. IInv /\ TypesOK => TypeOK
  <2> SUFFICES ASSUME IInv, TypesOK  PROVE TypeOK
    OBVIOUS
  <2>1. DOMAIN pc = Requests /\ DOMAIN local = Requests /\ DOMAIN answer = Requests
    BY DEF IInv, ControlOK
  <2>2. faults \in 0..MaxFaults /\ \A i \in DOMAIN acbs : IsOfItsDto(acbs[i])
    BY DEF TypesOK, TypedStore
  <2>3. ASSUME NEW r \in Requests
        PROVE  /\ pc[r] # "done" => answer[r] = None
               /\ Created(r) => IsAnswer(Op(r), answer[r].body)
               /\ pc[r] = "done" /\ ~Created(r) =>
                    answer[r].status \in {400, 404, 500} /\ answer[r].body = None
    BY <2>3 DEF TypesOK, TypedRequest
  <2>4. ASSUME NEW r \in Requests, Created(r)
        PROVE  \A item \in Items(r) :
                  IF Op(r) = "GET/facilities/<facilityIdentifier>"
                  THEN IsGetFacilityByIdentifierResponse(item)
                  ELSE item \in ResponseDto(Op(r))
    BY <2>3, <2>4 DEF IsAnswer, Items
  <2> QED BY <2>1, <2>2, <2>3, <2>4 DEF TypeOK
<1> QED BY <1>1, <1>2, <1>3, Invariance, PTL DEF Spec

-----------------------------------------------------------------------------
(* What ACBS posts of an amendAmount.                                      *)

PutOp == "PUT/facilities/<facilityIdentifier>"

Pending(i) ==
    /\ acbs[i].kind = "BundleInformation"
    /\ acbs[i].data.BundleStatusCode = BundleStatusCodes.PENDING_POSTING

NonePending == \A i \in DOMAIN acbs : ~Pending(i)

\* What request r has read of its facility is what ACBS has.
HasRead(r) ==
    \E j \in DOMAIN acbs :
        FacilityIndexes(acbs, FacilityIdentifier(r)) = {j} /\ local[r] = acbs[j].data

\* Bundle i is for the difference between the limit that r asks for and the
\* one that its facility has.
AsksFor(r, i) ==
    /\ IsBaseFacilityRequestItem(Body(r))
    /\ \E j \in DOMAIN acbs :
         /\ FacilityIndexes(acbs, FacilityIdentifier(r)) = {j}
         /\ acbs[i].data.BundleMessageList =
              <<BuildAmendFacilityAmountMessage(Body(r), acbs[j].data)>>

\* In a serial workload no request is on its way while a bundle is to be
\* posted, and the bundle of a request is the only one.
LimitInv ==
    workload.serial =>
        /\ \A r \in Requests :
             /\ pc[r] \notin {"received", "done"} => NonePending
             /\ pc[r] = "amendFacility" => HasRead(r)
        /\ \A i \in DOMAIN acbs :
             Pending(i) /\ acbs[i].by \in Requests =>
                 /\ \A j \in DOMAIN acbs : Pending(j) => j = i
                 /\ Op(acbs[i].by) = PutOp => AsksFor(acbs[i].by, i)

LEMMA AppendedAre ==
  ASSUME NEW store, store \in Seq(Range(store)), NEW entity
  PROVE  /\ DOMAIN Append(store, entity) = DOMAIN store \cup {Len(store) + 1}
         /\ Len(store) + 1 \notin DOMAIN store
         /\ Append(store, entity)[Len(store) + 1] = entity
         /\ \A j \in DOMAIN store : Append(store, entity)[j] = store[j]
<1>1. Len(store) \in Nat /\ DOMAIN store = 1..Len(store)
  BY IsASequence
<1> QED BY <1>1

LEMMA NonePendingBefore ==
  ASSUME LimitInv, workload.serial, NEW r \in Requests, Frame(r)
  PROVE  NonePending
BY DEF LimitInv, Frame, MayBegin, NonePending, Pending, BundleStatusCodes

\* Of the bundles a step of a request leaves those there are, and its last
\* step adds one.
LEMMA OneBundle ==
  ASSUME StoreOK, NEW r, acbs' = acbs \/ Wrote(r),
         NEW i \in DOMAIN acbs', acbs'[i].kind = "BundleInformation"
  PROVE  \/ i \in DOMAIN acbs /\ acbs'[i] = acbs[i]
         \/ /\ i = Len(acbs) + 1 /\ i \notin DOMAIN acbs
            /\ acbs' = Append(acbs, acbs'[i])
            /\ acbs'[i].by = r /\ pc'[r] = "done"
<1>1. CASE acbs' = acbs
  BY <1>1
<1>2. ASSUME NEW entity, entity.by = r, acbs' = Append(acbs, entity),
             entity.kind = "BundleInformation" => pc'[r] = "done"
      PROVE  \/ i \in DOMAIN acbs /\ acbs'[i] = acbs[i]
             \/ /\ i = Len(acbs) + 1 /\ i \notin DOMAIN acbs
                /\ acbs' = Append(acbs, acbs'[i])
                /\ acbs'[i].by = r /\ pc'[r] = "done"
  <2>1. acbs \in Seq(Range(acbs))
    BY DEF StoreOK, IsStore
  <2>2. /\ DOMAIN acbs' = DOMAIN acbs \cup {Len(acbs) + 1}
        /\ Len(acbs) + 1 \notin DOMAIN acbs
        /\ acbs'[Len(acbs) + 1] = entity
        /\ \A j \in DOMAIN acbs : acbs'[j] = acbs[j]
    BY <1>2, <2>1, AppendedAre
  <2> QED BY <1>2, <2>2
<1>3. ASSUME NEW entity, NEW k \in DOMAIN acbs, acbs' = [acbs EXCEPT ![k] = entity],
             IsSame(acbs[k], entity), acbs[k].kind # "BundleInformation"
      PROVE  i \in DOMAIN acbs /\ acbs'[i] = acbs[i]
  <2>1. i \in DOMAIN acbs
    BY <1>3
  <2>2. i # k
    BY <1>3 DEF IsSame
  <2> QED BY <1>3, <2>1, <2>2
<1> QED BY <1>1, <1>2, <1>3 DEF Wrote

LEMMA PutHandler ==
  ASSUME NEW r, InCourse(r), Op(r) = PutOp, Handle(r)
  PROVE  \/ ReceiveFacilityUpdate(r)
         \/ GetFacilityToUpdate(r)
         \/ UpdateFacility(r)
         \/ AmendFacilityAmount(r)
<1>1. Op(r) = "PUT/facilities/<facilityIdentifier>"
      /\ pc[r] \in {"received", "done", "getFacilityToUpdate", "putFacility", "amendFacility"}
  BY DEF InCourse, IsCourse, PartyCourse, DealCourse, FacilityCourse, FacilityPartCourse,
         LoanCourse, PutOp
<1>2. ~PartyHandler(r)
  BY <1>1 DEF PartyHandler, GetPartiesBySearchText, GetPartyByIdentifier,
         GetExternalRatingsForParty, PostParties, ReceiveParty, SearchForParty, CreateParty,
         GetRatingsOfParty, FindCustomerType, CreateRating, Receives
<1>3. ~DealHandler(r)
  BY <1>1 DEF DealHandler, GetDeal, ReceiveDeal, CreateDeal, UpdateBorrowingRestrictionForNewDeal,
         CreateGuaranteeForDeal, GetGuaranteesForDeal, CreateInvestorForDeal,
         GetDealInvestors, Receives
<1>4. ~FacilityPartHandler(r)
  BY <1>1 DEF FacilityPartHandler, CreateCovenantForFacility, GetCovenantsForFacility,
         UpdateCovenantsForFacility, CreateGuaranteeForFacility, GetGuaranteesForFacility,
         UpdateGuaranteesForFacility, CreateInvestorForFacility, GetInvestorsForFacility,
         ReceivesFor, ReceivesArrayFor, ReceivesItemFor, Receives
<1>5. ~LoanHandler(r)
  BY <1>1 DEF LoanHandler, CreateActivationTransactionForFacility,
         GetActivationTransactionByBundleIdentifier, CreateFixedFeeForFacility,
         GetFixedFeesForFacility, CreateAmountAmendmentForFixedFees, GetLoansForFacility,
         CreateLoanForFacility, GetLoanTransactionByBundleIdentifier,
         CreateAmountAmendmentForLoan, UpdateLoanExpiryDate,
         ReceivesFor, ReceivesArrayFor, ReceivesItemFor, Receives
<1>6. ~GetFacility(r) /\ ~CreateFacility(r)
  BY <1>1 DEF GetFacility, CreateFacility, Receives
<1> QED BY <1>2, <1>3, <1>4, <1>5, <1>6 DEF Handle, FacilityHandler

\* A request is about to ask for a bundle only when it has just read its
\* facility.
LEMMA JustRead ==
  ASSUME ControlOK, StoreOK, NEW r \in Requests, InCourse(r), UNCHANGED workload,
         Op(r) = PutOp, Handle(r), pc'[r] = "amendFacility"
  PROVE  HasRead(r)'
<1>1. ~ReceiveFacilityUpdate(r)
  BY DEF ControlOK, ReceiveFacilityUpdate, Validated, Throw, Reply, Goto
<1>2. ~UpdateFacility(r)
  BY DEF ControlOK, UpdateFacility, AcbsUpdateFacilityByIdentifier, Write, WriteOr, Throw, Reply
<1>3. ~AmendFacilityAmount(r)
  BY DEF ControlOK, AmendFacilityAmount, CreateBundleInformation, Write, WriteOr, Throw, Reply
<1>4. GetFacilityToUpdate(r)
  BY <1>1, <1>2, <1>3, PutHandler
<1> DEFINE call == AcbsGetFacilityByIdentifier(FacilityIdentifier(r))
           next == IF Params(r).op = "amendAmount" THEN "amendFacility" ELSE "putFacility"
<1>5. PICK outcome \in GetOutcomes(call) :
        /\ UNCHANGED acbs
        /\ IF IsGiven(outcome[1]) THEN Goto(r, next, outcome[1].data)
           ELSE Throw(r, GetException(call, outcome[1]))
  BY <1>4 DEF GetFacilityToUpdate, Get, IsGiven
<1> HIDE DEF call, next
<1>6. IsGiven(outcome[1]) /\ local'[r] = outcome[1].data
  BY <1>5 DEF ControlOK, Throw, Reply, Goto
<1>7. call.result = Ok(outcome[1].data)
  <2>1. IsCall(call)
    BY GetsFacility DEF call
  <2> QED BY <1>6, <2>1, GetEnds
<1>8. PICK i \in DOMAIN acbs :
        FacilityIndexes(acbs, FacilityIdentifier(r)) = {i} /\ acbs[i].data = outcome[1].data
  BY <1>7, FacilityFound DEF call
<1> QED BY <1>5, <1>6, <1>8 DEF HasRead, FacilityIdentifier, Params

\* What ACBS holds after a write.
LEMMA WriteTakes ==
  ASSUME NEW result, IsResult(result), result # Null, NEW outcome \in WriteOutcomes(result)
  PROVE  outcome[2] = acbs \/ result = Ok(outcome[2])
<1> DEFINE known == {}
<1>0. known \subseteq DOMAIN KnownErrors
  OBVIOUS
<1> HIDE DEF known
<1>1. LET status == HttpStatus(WrapAcbsHttpPostOrPutError(known, outcome[1]))
      IN  /\ outcome[2] = acbs \/ result = Ok(outcome[2])
          /\ IF outcome[1].status = 200 THEN result = Ok(outcome[2])
             ELSE /\ status \in {400, 404} => outcome[2] = acbs
                  /\ status = 404 => IsMissing(known, result)
  BY <1>0, WriteEnds
<1> QED BY <1>1

\* The bundle that it then asks for.
LEMMA AddsAmendment ==
  ASSUME ControlOK, StoreOK, NEW r \in Requests, InCourse(r), UNCHANGED workload,
         Op(r) = PutOp, Handle(r), NEW entity, entity.kind = "BundleInformation",
         acbs' = Append(acbs, entity)
  PROVE  /\ pc[r] = "amendFacility"
         /\ entity.data.BundleMessageList =
              <<BuildAmendFacilityAmountMessage(Body(r), local[r])>>
<1>1. /\ DOMAIN acbs' = DOMAIN acbs \cup {Len(acbs) + 1}
      /\ Len(acbs) + 1 \notin DOMAIN acbs
      /\ acbs'[Len(acbs) + 1] = entity
  BY AppendedAre DEF StoreOK, IsStore
<1>2. DOMAIN acbs' # DOMAIN acbs
  BY <1>1
<1>3. ~ReceiveFacilityUpdate(r) /\ ~GetFacilityToUpdate(r)
  BY <1>2 DEF ReceiveFacilityUpdate, Validated, WithoutAcbs, GetFacilityToUpdate, Get
<1>4. ~UpdateFacility(r)
  <2> SUFFICES ASSUME UpdateFacility(r)  PROVE FALSE
    OBVIOUS
  <2> DEFINE facilityIdentifier == FacilityIdentifier(r)
             exists == FacilityExists(facilityIdentifier)
             i == FacilityIndex(facilityIdentifier)
             facility ==
                 [FacilityIdentifier |-> facilityIdentifier,
                  FacilityStatusCode |-> acbs[i].data.FacilityStatusCode]
                 ++ BuildAcbsUpdateFacilityRequest(Body(r), facilityIdentifier, local[r])
             data == Replaced(r, i, facility)
             result == IfFacilityExists(facilityIdentifier, "FacilityNotFound", Ok(data))
  <2>1. AnswersIf(exists, result, data, "FacilityNotFound")
    BY DEF AnswersIf, IfFacilityExists, FacilityExists
  <2>2. PICK outcome \in WriteOutcomes(result) : acbs' = outcome[2]
    BY DEF UpdateFacility, AcbsUpdateFacilityByIdentifier, Write, WriteOr
  <2>3. DOMAIN data = DOMAIN acbs
    BY DEF Replaced
  <2> HIDE DEF exists, result, data
  <2>4. IsResult(result) /\ result # Null /\ (result = Ok(acbs') => acbs' = data)
    BY <2>1, OkIf
  <2>5. acbs' = acbs \/ result = Ok(acbs')
    BY <2>2, <2>4, WriteTakes
  <2> QED BY <1>2, <2>3, <2>4, <2>5
<1>5. AmendFacilityAmount(r)
  BY <1>3, <1>4, PutHandler
<1> DEFINE message == BuildAmendFacilityAmountMessage(Body(r), local[r])
           bundle == BundleInformation(FACILITY_AMOUNT_TRANSACTION.initialBundleStatusCode, None,
                                       <<message>>)
           text == KnownErrorForAction(bundle.BundleMessageList[1])
           refused == \E m \in Range(bundle.BundleMessageList) : Refused(m)
           accepted == ~refused
           data == Added(r, "BundleInformation", None, bundle)
           result == IF refused THEN Refusal(text) ELSE Ok(data)
<1>6. PICK outcome \in WriteOutcomes(result) : acbs' = outcome[2]
  BY <1>5 DEF AmendFacilityAmount, CreateBundleInformation, Write, WriteOr
<1>7. AnswersIf(accepted, result, data, text)
  BY DEF AnswersIf
<1>8. data = Append(acbs, [kind |-> "BundleInformation", owner |-> None, data |-> bundle,
                           by |-> r])
  BY DEF Added
<1>9. bundle.BundleMessageList = <<message>>
  BY DEF BundleInformation
<1> HIDE DEF message, bundle, text, refused, accepted, result, data
<1>10. IsResult(result) /\ result # Null /\ (result = Ok(acbs') => acbs' = data)
  BY <1>7, OkIf
<1>11. acbs' = data
  <2>1. acbs' = acbs \/ result = Ok(acbs')
    BY <1>6, <1>10, WriteTakes
  <2> QED BY <1>2, <1>10, <2>1
<1>12. entity = [kind |-> "BundleInformation", owner |-> None, data |-> bundle, by |-> r]
  BY <1>1, <1>8, <1>11, AppendedAre DEF StoreOK, IsStore
<1> QED BY <1>5, <1>9, <1>12 DEF AmendFacilityAmount, message

LEMMA HandleKeepsLimits ==
  ASSUME IInv, TypesOK, LimitInv, NEW r \in Requests, UNCHANGED workload, Handle(r)
  PROVE  LimitInv'
<1> SUFFICES ASSUME workload.serial  PROVE LimitInv'
  BY DEF LimitInv
<1>1. ControlOK /\ StoreOK /\ Serial /\ InCourse(r) /\ Step(r) /\ Frame(r)
  BY HandleStep DEF IInv, Step
<1>2. NonePending /\ Requests' = Requests
  BY <1>1, NonePendingBefore DEF Requests, NonePending
<1>3. \A q \in Requests \ {r} : pc'[q] = pc[q] /\ pc[q] \in {"received", "done"}
  BY <1>1, AloneInItsCourse DEF Frame
<1>4. ASSUME NEW i \in DOMAIN acbs', Pending(i)'
      PROVE  /\ i = Len(acbs) + 1 /\ i \notin DOMAIN acbs
             /\ acbs' = Append(acbs, acbs'[i]) /\ acbs'[i].kind = "BundleInformation"
             /\ acbs'[i].by = r /\ pc'[r] = "done"
  <2>1. acbs'[i].kind = "BundleInformation"
    BY <1>4 DEF Pending
  <2>2. ~(i \in DOMAIN acbs /\ acbs'[i] = acbs[i])
    BY <1>2, <1>4 DEF NonePending, Pending
  <2> QED BY <1>1, <2>1, <2>2, OneBundle DEF Step
<1>5. ASSUME NEW q \in Requests, pc'[q] \notin {"received", "done"}  PROVE NonePending'
  BY <1>3, <1>4, <1>5 DEF NonePending
<1>6. ASSUME NEW q \in Requests, pc'[q] = "amendFacility"  PROVE HasRead(q)'
  <2>1. q = r
    BY <1>3, <1>6
  <2>2. Op(r) = PutOp
    <3>1. IsCourse(Op(r), "amendFacility")
      BY <1>1, <1>6, <2>1 DEF Step, Lands
    <3> QED BY <3>1 DEF IsCourse, PartyCourse, DealCourse, FacilityCourse, FacilityPartCourse,
                        LoanCourse, PutOp
  <2> QED BY <1>1, <1>6, <2>1, <2>2, JustRead
<1>7. ASSUME NEW i \in DOMAIN acbs', Pending(i)', acbs'[i].by \in Requests
      PROVE  /\ \A j \in DOMAIN acbs' : Pending(j)' => j = i
             /\ Op(acbs'[i].by) = PutOp => AsksFor(acbs[i].by, i)'
  <2>1. \A j \in DOMAIN acbs' : Pending(j)' => j = i
    BY <1>4, <1>7
  <2>2. ASSUME Op(acbs'[i].by) = PutOp  PROVE AsksFor(acbs[i].by, i)'
    <3>1. /\ i = Len(acbs) + 1 /\ i \notin DOMAIN acbs
          /\ acbs' = Append(acbs, acbs'[i]) /\ acbs'[i].kind = "BundleInformation"
          /\ acbs'[i].by = r
      BY <1>4, <1>7
    <3>2. /\ pc[r] = "amendFacility"
          /\ acbs'[i].data.BundleMessageList =
               <<BuildAmendFacilityAmountMessage(Body(r), local[r])>>
      BY <1>1, <2>2, <3>1, AddsAmendment
    <3>3. PICK j \in DOMAIN acbs :
            FacilityIndexes(acbs, FacilityIdentifier(r)) = {j} /\ local[r] = acbs[j].data
      BY <3>2 DEF LimitInv, HasRead
    <3>4. DOMAIN acbs' = DOMAIN acbs \cup {i} /\ \A k \in DOMAIN acbs : acbs'[k] = acbs[k]
      <4> DEFINE entity == acbs'[i]
      <4>1. acbs' = Append(acbs, entity)
        BY <3>1
      <4> HIDE DEF entity
      <4> QED BY <1>1, <3>1, <4>1, AppendedAre DEF StoreOK, IsStore
    <3>5. FacilityIndexes(acbs', FacilityIdentifier(r)) = {j}
      BY <3>1, <3>3, <3>4 DEF FacilityIndexes
    <3>6. IsBaseFacilityRequestItem(Body(r))
      BY <3>2 DEF TypesOK, TypedRequest, IsReady, FacilityReady
    <3>7. /\ Body(r)' = Body(r) /\ FacilityIdentifier(r)' = FacilityIdentifier(r)
          /\ acbs'[i].by = r /\ acbs'[j].data = local[r] /\ j \in DOMAIN acbs'
      BY <3>1, <3>3, <3>4 DEF Body, FacilityIdentifier, Params
    <3>8. AsksFor(r, i)'
      <4>1. IsBaseFacilityRequestItem(Body(r))'
        BY <3>6, <3>7 DEF IsBaseFacilityRequestItem
      <4>2. <<BuildAmendFacilityAmountMessage(Body(r), acbs[j].data)>>' =
              <<BuildAmendFacilityAmountMessage(Body(r), local[r])>>
        BY <3>7 DEF BuildAmendFacilityAmountMessage
      <4> QED BY <3>2, <3>5, <3>7, <4>1, <4>2 DEF AsksFor
    <3> QED BY <3>7, <3>8 DEF AsksFor, Body, FacilityIdentifier, Params
  <2> QED BY <2>1, <2>2
<1>8. \A q \in Requests : Op(q)' = Op(q)
  BY DEF Op
<1> QED BY <1>2, <1>5, <1>6, <1>7, <1>8 DEF LimitInv, Op

\* ACBS changes no other bundle, and the one it posts is no longer pending.
LEMMA OtherBundles ==
  ASSUME StoreOK, UNCHANGED workload, NEW i \in DOMAIN acbs, PostBundle(i),
         NEW j \in DOMAIN acbs', acbs'[j].kind = "BundleInformation"
  PROVE  /\ j \in DOMAIN acbs
         /\ j # i => acbs'[j] = acbs[j]
         /\ j = i => acbs'[j].data.BundleStatusCode # BundleStatusCodes.PENDING_POSTING
<1> DEFINE Marked(code) == [acbs[i] EXCEPT !.data.BundleStatusCode = code]
           messages == acbs[i].data.BundleMessageList
<1>1. j \in DOMAIN acbs /\ acbs[j].kind = "BundleInformation"
  BY PostKeeps DEF Keeps, IsSame
<1>2. Amended(messages, j) = acbs[j]
  BY <1>1 DEF Amended
<1>3. \A code : Marked(code).data.BundleStatusCode = code
  <2>1. acbs[i].kind = "BundleInformation" /\ IsEntity(acbs[i])
    BY DEF PostBundle, StoreOK, IsStore
  <2>2. "data" \in DOMAIN acbs[i] /\ "BundleStatusCode" \in DOMAIN acbs[i].data
    BY <2>1 DEF IsEntity, FieldsOf
  <2> QED BY <2>2
<1> HIDE DEF messages, Marked
<1>4. \/ \A k \in DOMAIN acbs :
            acbs'[k] = IF k = i THEN Marked(BundleStatusCodes.POSTED) ELSE Amended(messages, k)
      \/ acbs' = [acbs EXCEPT ![i] = Marked(BundleStatusCodes.POSTING_ERROR)]
  BY PostOutcome DEF messages, Marked
<1>5. /\ BundleStatusCodes.POSTED # BundleStatusCodes.PENDING_POSTING
      /\ BundleStatusCodes.POSTING_ERROR # BundleStatusCodes.PENDING_POSTING
  BY DEF BundleStatusCodes
<1> QED BY <1>1, <1>2, <1>3, <1>4, <1>5

LEMMA PostKeepsLimits ==
  ASSUME IInv, LimitInv, UNCHANGED workload, NEW i \in DOMAIN acbs, PostBundle(i)
  PROVE  LimitInv'
<1> SUFFICES ASSUME workload.serial  PROVE LimitInv'
  BY DEF LimitInv
<1>1. StoreOK /\ Pending(i) /\ UNCHANGED <<pc, local>> /\ Requests' = Requests
  BY DEF IInv, PostBundle, Pending, Requests
<1>2. \A q \in Requests : pc'[q] \in {"received", "done"}
  BY <1>1 DEF LimitInv, NonePending
<1>3. ASSUME NEW j \in DOMAIN acbs', Pending(j)'
      PROVE  j \in DOMAIN acbs /\ Pending(j) /\ j # i /\ acbs'[j].by = acbs[j].by
  <2>1. acbs'[j].kind = "BundleInformation"
        /\ acbs'[j].data.BundleStatusCode = BundleStatusCodes.PENDING_POSTING
    BY <1>3 DEF Pending
  <2>2. j \in DOMAIN acbs /\ j # i /\ acbs'[j] = acbs[j]
    BY <1>1, <2>1, OtherBundles
  <2> QED BY <2>1, <2>2 DEF Pending
<1>4. ASSUME NEW j \in DOMAIN acbs', Pending(j)', acbs'[j].by \in Requests  PROVE FALSE
  <2>1. j \in DOMAIN acbs /\ Pending(j) /\ j # i /\ acbs[j].by \in Requests
    BY <1>3, <1>4
  <2> QED BY <1>1, <2>1 DEF LimitInv
<1> QED BY <1>1, <1>2, <1>4 DEF LimitInv

LEMMA StutterKeepsLimits ==
  ASSUME LimitInv, UNCHANGED <<workload, pc, local, acbs>>
  PROVE  LimitInv'
<1>1. /\ Requests' = Requests /\ NonePending' = NonePending
      /\ \A i : Pending(i)' = Pending(i)
      /\ \A r : Op(r)' = Op(r) /\ Body(r)' = Body(r)
                /\ FacilityIdentifier(r)' = FacilityIdentifier(r)
  BY DEF Requests, NonePending, Pending, Op, Body, FacilityIdentifier, Params
<1>2. \A r : HasRead(r)' = HasRead(r)
  BY <1>1 DEF HasRead
<1>3. \A r, i : AsksFor(r, i) => AsksFor(r, i)'
  <2> SUFFICES ASSUME NEW r, NEW i, AsksFor(r, i)  PROVE AsksFor(r, i)'
    OBVIOUS
  <2>1. Body(r)' = Body(r) /\ FacilityIdentifier(r)' = FacilityIdentifier(r)
    BY <1>1
  <2>2. IsBaseFacilityRequestItem(Body(r))'
    BY <2>1 DEF AsksFor
  <2> QED BY <2>1, <2>2 DEF AsksFor
<1> QED BY <1>1, <1>2, <1>3 DEF LimitInv

LEMMA NextKeepsLimits == IInv /\ TypesOK /\ LimitInv /\ [Next]_vars => LimitInv'
<1> SUFFICES ASSUME IInv, TypesOK, LimitInv, [Next]_vars  PROVE LimitInv'
  OBVIOUS
<1>1. CASE UNCHANGED vars
  BY <1>1, StutterKeepsLimits DEF vars
<1>2. ASSUME UNCHANGED workload, NEW r \in Requests, Handle(r)  PROVE LimitInv'
  BY <1>2, HandleKeepsLimits
<1>3. ASSUME UNCHANGED workload, NEW i \in DOMAIN acbs, PostBundle(i)  PROVE LimitInv'
  BY <1>3, PostKeepsLimits
<1>4. ASSUME UNCHANGED workload, Finished  PROVE LimitInv'
  BY <1>4, StutterKeepsLimits DEF Finished
<1> QED BY <1>1, <1>2, <1>3, <1>4 DEF Next

LEMMA InitLimits == Init => LimitInv
<1> SUFFICES ASSUME Init  PROVE LimitInv
  OBVIOUS
<1>1. workload \in Workloads /\ acbs = workload.acbs
  BY DEF Init
<1>2. 0 \notin Requests /\ \A i \in DOMAIN acbs : acbs[i].by = 0
  BY <1>1, WorkloadAssumption DEF Requests
<1>3. \A r \in Requests : pc[r] = "received"
  BY DEF Init
<1> QED BY <1>2, <1>3 DEF LimitInv

\* What a bundle of one message changes.
LEMMA SumOfOne ==
  ASSUME NEW message \in BundleAction, NEW i
  PROVE  SumOfChanges(<<message>>, i) = Change(message, i)
<1> DEFINE messages == <<message>>
           S == DOMAIN messages
           F == [k \in S |-> Change(messages[k], i)]
<1>1. S = {1} /\ messages[1] = message
  OBVIOUS
<1>2. IsFiniteSet(S) /\ \A k \in S : messages[k] \in BundleAction
  BY <1>1, FS_Singleton
<1> HIDE DEF messages
<1>3. PICK g : Sums(F, g, SUBSET S) /\ SumOfChanges(messages, i) = g[S]
  BY <1>2, ChangesAreSummed
<1>4. OneOf({1}) = 1 /\ F[1] = Change(message, i)
  BY <1>1 DEF OneOf
<1>5. {1} \in SUBSET S /\ {} \in SUBSET S /\ {1} # {} /\ {1} \ {1} = {}
  BY <1>1
<1>6. Change(message, i) \in Int
  BY ChangeIsInt
<1> HIDE DEF F
<1>7. g[{}] = 0 /\ g[{1}] = F[1] + g[{}]
  BY <1>3, <1>4, <1>5 DEF Sums
<1> QED BY <1>1, <1>3, <1>4, <1>6, <1>7 DEF messages

\* The difference that a request asks for takes the limit to the one it asks
\* for, whichever is the greater.
LEMMA DifferenceReaches ==
  ASSUME NEW facility, NEW existing, IsBaseFacilityRequestItem(facility),
         existing.LimitAmount \in Int, NEW i,
         i \in FacilityIndexes(acbs, existing.FacilityIdentifier)
  PROVE  LET message == BuildAmendFacilityAmountMessage(facility, existing)
         IN  existing.LimitAmount + Change(message, i) = facility.maximumLiability
<1> DEFINE message == BuildAmendFacilityAmountMessage(facility, existing)
           new == facility.maximumLiability
           old == existing.LimitAmount
<1>1. new \in Int /\ old \in Int
  <2>1. new \in Amounts
    BY DEF IsBaseFacilityRequestItem
  <2>2. Amounts \subseteq Nat
    BY AcbsHttpAssumption
  <2> HIDE DEF new
  <2>3. new \in Int
    BY <2>1, <2>2
  <2> QED BY <2>3
<1>2. /\ message.type = "FacilityAmountTransaction"
      /\ message.FacilityIdentifier = existing.FacilityIdentifier
      /\ message.TypeCode = AmendFacilityTypeCode(new, old)
      /\ message.TransactionAmount = UpdatedTransactionAmount(new, old)
  BY DEF BuildAmendFacilityAmountMessage
<1> HIDE DEF message
<1>3. Change(message, i) = Signed(message.TypeCode = FACILITY_TRANSACTION_TYPE_CODES.PLUS,
                                  message.TransactionAmount)
  BY <1>2 DEF Change
<1> HIDE DEF new, old
<1>4. CASE new > old
  <2>1. Change(message, i) = new - old
    BY <1>2, <1>3, <1>4 DEF Signed, AmendFacilityTypeCode, UpdatedTransactionAmount
  <2> QED BY <1>1, <2>1 DEF message, new, old
<1>5. CASE ~(new > old)
  <2>1. AmendFacilityTypeCode(new, old) # FACILITY_TRANSACTION_TYPE_CODES.PLUS
    BY <1>5 DEF AmendFacilityTypeCode, FACILITY_TRANSACTION_TYPE_CODES
  <2>2. Change(message, i) = -(old - new)
    BY <1>2, <1>3, <1>5, <2>1 DEF Signed, UpdatedTransactionAmount
  <2> QED BY <1>1, <2>2 DEF message, new, old
<1> QED BY <1>4, <1>5

\* The limit of a facility when ACBS posts messages.
LEMMA LimitAmended ==
  ASSUME NEW messages, NEW j, IsEntity(acbs[j]), acbs[j].kind = "Facility",
         "LimitAmount" \in DOMAIN acbs[j].data
  PROVE  Amended(messages, j).data.LimitAmount =
             acbs[j].data.LimitAmount + SumOfChanges(messages, j)
<1> DEFINE e == acbs[j]
           ChangeOf(k) == Change(messages[k], j)
           change == MapThenSumSet(ChangeOf, DOMAIN messages)
           activations == Activations(messages, j)
           status == IF activations = {} THEN e.data.FacilityStatusCode
                     ELSE messages[CHOOSE k \in activations : TRUE]
                              .FacilityTransactionCodeValueCode
           amount == e.data.LimitAmount + change
           limited == [e.data EXCEPT !.LimitAmount = amount]
           data == [limited EXCEPT !.FacilityStatusCode = status]
<1>1. change = SumOfChanges(messages, j)
  BY DEF SumOfChanges
<1>2. Amended(messages, j) = [e EXCEPT !.data = data]
  <2>1. limited.FacilityStatusCode = e.data.FacilityStatusCode
    BY DEF IsEntity, FieldsOf
  <2>2. Amended(messages, j) =
          [e EXCEPT !.data.LimitAmount = @ + change,
                    !.data.FacilityStatusCode =
                        IF activations = {} THEN @
                        ELSE messages[CHOOSE k \in activations : TRUE]
                                 .FacilityTransactionCodeValueCode]
    BY DEF Amended
  <2>3. "data" \in DOMAIN e
    BY DEF IsEntity
  <2> HIDE DEF activations, change
  <2> QED BY <2>1, <2>2, <2>3
<1> HIDE DEF status, amount
<1>3. data.LimitAmount = amount
  OBVIOUS
<1> HIDE DEF data
<1>4. [e EXCEPT !.data = data].data = data
  BY DEF IsEntity
<1> QED BY <1>1, <1>2, <1>3, <1>4 DEF amount

\* When ACBS posts the bundle of an amendAmount, the limit of the facility
\* becomes the one that was asked for: in a serial workload nothing comes
\* between what the request read and what is posted, so that the difference
\* is added to the limit that it was taken from.
THEOREM AmendmentsReachTheirLimits == Spec => AmendmentReachesItsLimit
<1> DEFINE Reached ==
        workload.serial =>
          \A i \in DOMAIN acbs :
              LET r == acbs[i].by
              IN  /\ acbs[i].kind = "BundleInformation" /\ ~Posted(i) /\ Posted(i)'
                  /\ r \in Requests
                  /\ Op(r) = "PUT/facilities/<facilityIdentifier>"
                  => acbs'[FacilityIndex(FacilityIdentifier(r))].data.LimitAmount
                       = Body(r).maximumLiability
<1>1. IInv /\ TypesOK /\ LimitInv /\ [Next]_vars => [Reached]_vars
  <2> SUFFICES ASSUME IInv, TypesOK, LimitInv, Next, workload.serial,
                      NEW i \in DOMAIN acbs, acbs[i].kind = "BundleInformation",
                      ~Posted(i), Posted(i)', acbs[i].by \in Requests,
                      Op(acbs[i].by) = PutOp
               PROVE  acbs'[FacilityIndex(FacilityIdentifier(acbs[i].by))].data.LimitAmount
                        = Body(acbs[i].by).maximumLiability
    BY DEF PutOp
  <2>1. /\ acbs'[i].kind = "BundleInformation" /\ acbs'[i] # acbs[i]
        /\ acbs'[i].data.BundleStatusCode = BundleStatusCodes.POSTED
    BY DEF Posted
  <2>2. StoreOK /\ TypedStore(acbs)
    BY DEF IInv, TypesOK
  <2>3. ASSUME UNCHANGED workload, NEW r \in Requests, Handle(r)  PROVE FALSE
    <3>1. StoreOK' /\ Keeps(acbs, acbs') /\ (acbs' = acbs \/ Wrote(r))
      BY <2>2, <2>3, HandleStep, WroteKeeps DEF Step
    <3>2. i \in DOMAIN acbs'
      BY <3>1 DEF Keeps
    <3> QED BY <2>1, <2>2, <3>1, <3>2, OneBundle
  <2>4. ~Finished
    BY <2>1 DEF Finished
  <2>5. PICK k \in DOMAIN acbs : UNCHANGED workload /\ PostBundle(k)
    BY <2>3, <2>4 DEF Next
  <2>6. k = i
    <3>1. i \in DOMAIN acbs'
      BY <2>2, <2>5, PostKeeps DEF Keeps
    <3> QED BY <2>1, <2>2, <2>5, <3>1, OtherBundles
  <2> DEFINE r == acbs[i].by
             messages == acbs[i].data.BundleMessageList
             Marked(code) == [acbs[i] EXCEPT !.data.BundleStatusCode = code]
  <2>7. AsksFor(r, i)
    <3>1. Pending(i)
      BY <2>5, <2>6 DEF PostBundle, Pending
    <3> QED BY <3>1 DEF LimitInv
  <2>8. \A j \in DOMAIN acbs :
          acbs'[j] = IF j = i THEN Marked(BundleStatusCodes.POSTED) ELSE Amended(messages, j)
    <3>1. acbs' # [acbs EXCEPT ![i] = Marked(BundleStatusCodes.POSTING_ERROR)]
      <4>1. "data" \in DOMAIN acbs[i] /\ "BundleStatusCode" \in DOMAIN acbs[i].data
        <5>1. IsEntity(acbs[i])
          BY <2>2 DEF StoreOK, IsStore
        <5> QED BY <5>1 DEF IsEntity, FieldsOf
      <4>2. Marked(BundleStatusCodes.POSTING_ERROR).data.BundleStatusCode # BundleStatusCodes.POSTED
        BY <4>1 DEF BundleStatusCodes
      <4> HIDE DEF Marked
      <4> QED BY <2>1, <4>2
    <3>2. \/ \A j \in DOMAIN acbs :
                acbs'[j] = IF j = i THEN Marked(BundleStatusCodes.POSTED)
                           ELSE Amended(messages, j)
          \/ acbs' = [acbs EXCEPT ![i] = Marked(BundleStatusCodes.POSTING_ERROR)]
      BY <2>2, <2>5, <2>6, PostOutcome
    <3> QED BY <3>1, <3>2
  <2> HIDE DEF Marked
  <2>9. PICK j \in DOMAIN acbs :
          /\ FacilityIndexes(acbs, FacilityIdentifier(r)) = {j}
          /\ messages = <<BuildAmendFacilityAmountMessage(Body(r), acbs[j].data)>>
    BY <2>7 DEF AsksFor
  <2> DEFINE message == BuildAmendFacilityAmountMessage(Body(r), acbs[j].data)
  <2>10. /\ acbs[j].kind = "Facility" /\ j # i
         /\ acbs[j].data.FacilityIdentifier = FacilityIdentifier(r)
         /\ FacilityIndex(FacilityIdentifier(r)) = j
    BY <2>9 DEF FacilityIndexes, FacilityIndex
  <2>11. /\ IsEntity(acbs[j]) /\ "LimitAmount" \in DOMAIN acbs[j].data
         /\ acbs[j].data.LimitAmount \in Int
    BY <2>2, <2>10 DEF StoreOK, IsStore, TypedStore, IsOfItsDto, IsDto, IsAcbsFacility
  <2>12. message \in BundleAction
    <3>1. \A k1 \in DOMAIN messages : messages[k1] \in BundleAction
      BY <2>2, MessagesTyped
    <3>2. messages[1] = message /\ 1 \in DOMAIN messages
      BY <2>9
    <3> QED BY <3>1, <3>2
  <2>13. acbs'[j].data.LimitAmount =
           acbs[j].data.LimitAmount + SumOfChanges(<<message>>, j)
    <3>1. acbs'[j] = Amended(messages, j)
      BY <2>8, <2>10
    <3>2. messages = <<message>>
      BY <2>9
    <3> HIDE DEF messages, message
    <3> QED BY <2>10, <2>11, <3>1, <3>2, LimitAmended
  <2>14. SumOfChanges(<<message>>, j) = Change(message, j)
    BY <2>12, SumOfOne
  <2>15. acbs[j].data.LimitAmount + Change(message, j) = Body(r).maximumLiability
    BY <2>7, <2>9, <2>10, <2>11, DifferenceReaches DEF AsksFor
  <2> QED BY <2>10, <2>13, <2>14, <2>15
<1>2. Init => LimitInv
  BY InitLimits
<1>3. IInv /\ TypesOK /\ LimitInv /\ [Next]_vars => LimitInv'
  BY NextKeepsLimits
<1>4. Init => TypesOK
  BY InitTypes
<1>5. IInv /\ TypesOK /\ [Next]_vars => TypesOK'
  BY NextKeepsTypes
<1> QED BY <1>1, <1>2, <1>3, <1>4, <1>5, Invariance, PTL DEF Spec, AmendmentReachesItsLimit

-----------------------------------------------------------------------------
(* What becomes of the amount of a fee.                                    *)

AsksOfFees(r) == r # 0 /\ Op(r) = AmendFeesOp

\* The bundles of amendments of fees that were posted.
FeeBundles(store) ==
    {b \in DOMAIN store :
        /\ store[b].kind = "BundleInformation"
        /\ store[b].data.BundleStatusCode = BundleStatusCodes.POSTED
        /\ AsksOfFees(store[b].by)}

CreatedWith(store, i) ==
    IF store[i].by = 0 THEN workload.acbs[i].data.FixedFeeAmount
    ELSE Body(store[i].by)[1].amount

Total(store, i, counted) == SumFunction([b \in counted |-> AskedOfFee(store[b].by, store[i])])

\* The fee at i is what FeeAmountsAddUp says of it.
AddsUp(store, i) ==
    LET later == {b \in FeeBundles(store) : b > i}
    IN  /\ CreatedWith(store, i) \in Int
        /\ \E counted \in SUBSET FeeBundles(store) :
             /\ later \subseteq counted
             /\ workload.serial => counted = later
             /\ store[i].data.FixedFeeAmount = CreatedWith(store, i) + Total(store, i, counted)

\* A bundle for fees has the messages that its request asks for, and no other
\* that is to be posted is about a fee.
IsOfItsRequest(bundle) ==
    LET messages == bundle.data.BundleMessageList
    IN  /\ bundle.by \in Requests \cup {0}
        /\ IF AsksOfFees(bundle.by)
           THEN /\ messages = [k \in DOMAIN Body(bundle.by) |->
                       FeeAmountAmendmentMessage(FacilityIdentifier(bundle.by),
                                                 Body(bundle.by)[k])]
                /\ \A k \in DOMAIN messages : Body(bundle.by)[k].amountAmendment \in Int
           ELSE bundle.data.BundleStatusCode = BundleStatusCodes.PENDING_POSTING =>
                    \A k \in DOMAIN messages : messages[k].type # "FacilityFeeAmountTransaction"

FeeInv ==
    /\ \A i \in DOMAIN acbs : acbs[i].kind = "FixedFee" => AddsUp(acbs, i)
    /\ \A b \in DOMAIN acbs : acbs[b].kind = "BundleInformation" => IsOfItsRequest(acbs[b])
    /\ workload.serial =>
         \A i, b \in DOMAIN acbs :
             acbs[i].kind = "FixedFee" /\ Pending(b) /\ AsksOfFees(acbs[b].by) => b > i

LEMMA FeeChange ==
  ASSUME NEW i \in DOMAIN acbs, acbs[i].kind = "FixedFee", NEW facilityIdentifier, NEW item,
         item.amountAmendment \in Int
  PROVE  Change(FeeAmountAmendmentMessage(facilityIdentifier, item), i) =
           IF /\ acbs[i].owner = facilityIdentifier
              /\ item.period = acbs[i].data.SegmentIdentifier
              /\ item.lenderTypeCode = acbs[i].data.LenderTypeCode
           THEN item.amountAmendment ELSE 0
<1> DEFINE message == FeeAmountAmendmentMessage(facilityIdentifier, item)
           amount == item.amountAmendment
<1>1. /\ message.type = "FacilityFeeAmountTransaction"
      /\ message.FacilityIdentifier = facilityIdentifier
      /\ message.SegmentIdentifier = item.period
      /\ message.LenderTypeCode = item.lenderTypeCode
      /\ message.TypeCode = FeeAmountTypeCode(amount)
      /\ message.TransactionAmount = Abs(amount)
  BY DEF FeeAmountAmendmentMessage
<1> HIDE DEF message
<1>2. i \in FeeIndexes(acbs, message) <=>
        /\ acbs[i].owner = facilityIdentifier
        /\ item.period = acbs[i].data.SegmentIdentifier
        /\ item.lenderTypeCode = acbs[i].data.LenderTypeCode
  BY <1>1 DEF FeeIndexes
<1>3. Change(message, i) =
        IF i \in FeeIndexes(acbs, message)
        THEN Signed(message.TypeCode = FACILITY_FEE_AMOUNT_TRANSACTION.increaseTypeCode,
                    message.TransactionAmount)
        ELSE 0
  BY <1>1 DEF Change
<1>4. Signed(message.TypeCode = FACILITY_FEE_AMOUNT_TRANSACTION.increaseTypeCode,
             message.TransactionAmount) = amount
  <2>1. CASE amount < 0
    <3>1. message.TypeCode # FACILITY_FEE_AMOUNT_TRANSACTION.increaseTypeCode
      BY <1>1, <2>1 DEF FeeAmountTypeCode, FACILITY_FEE_AMOUNT_TRANSACTION
    <3>2. message.TransactionAmount = -amount
      BY <1>1, <2>1 DEF Abs
    <3> HIDE DEF amount
    <3> QED BY <3>1, <3>2 DEF Signed, amount
  <2>2. CASE ~(amount < 0)
    <3>1. message.TypeCode = FACILITY_FEE_AMOUNT_TRANSACTION.increaseTypeCode
      BY <1>1, <2>2 DEF FeeAmountTypeCode
    <3>2. message.TransactionAmount = amount
      BY <1>1, <2>2 DEF Abs
    <3> QED BY <3>1, <3>2 DEF Signed
  <2> QED BY <2>1, <2>2
<1> QED BY <1>2, <1>3, <1>4 DEF message

LEMMA NoFeeChange ==
  ASSUME NEW i \in DOMAIN acbs, acbs[i].kind = "FixedFee", NEW message,
         message.type # "FacilityFeeAmountTransaction"
  PROVE  Change(message, i) = 0
<1>1. i \notin FacilityIndexes(acbs, message.FacilityIdentifier) /\ ~LoanExists(i)
  BY DEF FacilityIndexes, LoanExists
<1> QED BY <1>1 DEF Change

\* What a bundle changes of a fee is what was asked of it.
LEMMA AskedIsChanged ==
  ASSUME StoreOK, TypedStore(acbs), NEW b \in DOMAIN acbs, acbs[b].kind = "BundleInformation",
         IsOfItsRequest(acbs[b]), AsksOfFees(acbs[b].by),
         NEW i \in DOMAIN acbs, acbs[i].kind = "FixedFee"
  PROVE  SumOfChanges(acbs[b].data.BundleMessageList, i) = AskedOfFee(acbs[b].by, acbs[i])
<1> DEFINE r == acbs[b].by
           messages == acbs[b].data.BundleMessageList
           S == DOMAIN messages
           F == [k \in S |-> Change(messages[k], i)]
           Asked(k) == IF /\ acbs[i].owner = FacilityIdentifier(r)
                          /\ Body(r)[k].period = acbs[i].data.SegmentIdentifier
                          /\ Body(r)[k].lenderTypeCode = acbs[i].data.LenderTypeCode
                       THEN Body(r)[k].amountAmendment ELSE 0
           f == [k \in DOMAIN Body(r) |-> Asked(k)]
<1>1. IsFiniteSet(S) /\ \A k \in S : messages[k] \in BundleAction
  BY MessagesTyped
<1>2. /\ messages = [k \in DOMAIN Body(r) |->
                       FeeAmountAmendmentMessage(FacilityIdentifier(r), Body(r)[k])]
      /\ \A k \in S : Body(r)[k].amountAmendment \in Int
  BY DEF IsOfItsRequest
<1>3. S = DOMAIN Body(r)
      /\ \A k \in S : messages[k] = FeeAmountAmendmentMessage(FacilityIdentifier(r), Body(r)[k])
  BY <1>2
<1>4. PICK g : Sums(F, g, SUBSET S) /\ SumOfChanges(messages, i) = g[S]
  BY <1>1, ChangesAreSummed
<1>5. DOMAIN f = S
  BY <1>3
<1>6. PICK h : Sums(f, h, SUBSET S) /\ SumFunction(f) = h[S]
  <2> HIDE DEF f, S
  <2> QED BY <1>1, <1>5, SumIs
<1>7. ASSUME NEW k \in S  PROVE F[k] = f[k]
  <2>1. F[k] = Change(messages[k], i) /\ f[k] = Asked(k)
    BY <1>3
  <2>2. Change(FeeAmountAmendmentMessage(FacilityIdentifier(r), Body(r)[k]), i) = Asked(k)
    BY <1>2, FeeChange
  <2> QED BY <1>3, <2>1, <2>2
<1>8. AskedOfFee(r, acbs[i]) = SumFunction(f)
  BY DEF AskedOfFee
<1> HIDE DEF F, f, S
<1> QED BY <1>1, <1>4, <1>6, <1>7, <1>8, SumsAreOne

LEMMA NothingIsChanged ==
  ASSUME StoreOK, TypedStore(acbs), NEW b \in DOMAIN acbs, acbs[b].kind = "BundleInformation",
         Pending(b), IsOfItsRequest(acbs[b]), ~AsksOfFees(acbs[b].by),
         NEW i \in DOMAIN acbs, acbs[i].kind = "FixedFee"
  PROVE  SumOfChanges(acbs[b].data.BundleMessageList, i) = 0
<1> DEFINE messages == acbs[b].data.BundleMessageList
           S == DOMAIN messages
           F == [k \in S |-> Change(messages[k], i)]
           none == [k \in S |-> 0]
<1>1. IsFiniteSet(S) /\ \A k \in S : messages[k] \in BundleAction
  BY MessagesTyped
<1>2. \A k \in S : messages[k].type # "FacilityFeeAmountTransaction"
  BY DEF IsOfItsRequest, Pending
<1>3. PICK g : Sums(F, g, SUBSET S) /\ SumOfChanges(messages, i) = g[S]
  BY <1>1, ChangesAreSummed
<1>4. \A k \in S : F[k] = 0 /\ none[k] = 0
  BY <1>2, NoFeeChange
<1>5. DOMAIN none = S
  OBVIOUS
<1> HIDE DEF F, S, none
<1>6. PICK h : Sums(none, h, SUBSET S) /\ SumFunction(none) = h[S]
  BY <1>1, <1>5, SumIs
<1>7. SumFunction(none) = 0
  BY <1>1, <1>4, <1>5, SumOfNone
<1>8. \A k \in S : F[k] = none[k]
  BY <1>4
<1>9. g[S] = h[S]
  BY <1>1, <1>3, <1>6, <1>8, SumsAreOne
<1> QED BY <1>3, <1>6, <1>7, <1>9

\* What a fee is found by is never changed.
LEMMA AskedOfTheSame ==
  ASSUME NEW r, NEW old, NEW new, new.owner = old.owner,
         new.data.SegmentIdentifier = old.data.SegmentIdentifier,
         new.data.LenderTypeCode = old.data.LenderTypeCode
  PROVE  AskedOfFee(r, new) = AskedOfFee(r, old)
BY DEF AskedOfFee

LEMMA AskedOfFeeIsInt ==
  ASSUME StoreOK, TypedStore(acbs), NEW b \in DOMAIN acbs, acbs[b].kind = "BundleInformation",
         IsOfItsRequest(acbs[b]), AsksOfFees(acbs[b].by), NEW fee
  PROVE  AskedOfFee(acbs[b].by, fee) \in Int
<1> DEFINE r == acbs[b].by
           messages == acbs[b].data.BundleMessageList
           Asked(k) == IF /\ fee.owner = FacilityIdentifier(r)
                          /\ Body(r)[k].period = fee.data.SegmentIdentifier
                          /\ Body(r)[k].lenderTypeCode = fee.data.LenderTypeCode
                       THEN Body(r)[k].amountAmendment ELSE 0
           f == [k \in DOMAIN Body(r) |-> Asked(k)]
<1>1. IsFiniteSet(DOMAIN messages)
  BY MessagesTyped
<1>2. /\ DOMAIN messages = DOMAIN Body(r)
      /\ \A k \in DOMAIN messages : Body(r)[k].amountAmendment \in Int
  BY DEF IsOfItsRequest
<1>3. AskedOfFee(r, fee) = SumFunction(f)
  BY DEF AskedOfFee
<1>4. DOMAIN f = DOMAIN messages /\ \A k \in DOMAIN f : f[k] \in Int
  BY <1>2
<1> HIDE DEF f
<1> QED BY <1>1, <1>3, <1>4, SumIsInt

\* The sum does not depend on anything else of the store.
LEMMA SameTotal ==
  ASSUME NEW old, NEW i, NEW new, NEW j, NEW counted, IsFiniteSet(counted),
         new[j].owner = old[i].owner,
         new[j].data.SegmentIdentifier = old[i].data.SegmentIdentifier,
         new[j].data.LenderTypeCode = old[i].data.LenderTypeCode,
         \A b \in counted : new[b].by = old[b].by
  PROVE  Total(new, j, counted) = Total(old, i, counted)
<1> DEFINE f == [b \in counted |-> AskedOfFee(old[b].by, old[i])]
           h == [b \in counted |-> AskedOfFee(new[b].by, new[j])]
<1>1. DOMAIN f = counted /\ DOMAIN h = counted
  OBVIOUS
<1>2. \A b \in counted : f[b] = h[b]
  BY AskedOfTheSame
<1>3. Total(old, i, counted) = SumFunction(f) /\ Total(new, j, counted) = SumFunction(h)
  BY DEF Total
<1> HIDE DEF f, h
<1> QED BY <1>1, <1>2, <1>3, SameSums

LEMMA TotalOfNone == \A store, i : Total(store, i, {}) = 0
<1> SUFFICES ASSUME NEW store, NEW i  PROVE Total(store, i, {}) = 0
  OBVIOUS
<1> DEFINE f == [b \in {} |-> AskedOfFee(store[b].by, store[i])]
<1>1. DOMAIN f = {} /\ IsFiniteSet({})
  BY FS_EmptySet
<1>2. Total(store, i, {}) = SumFunction(f)
  BY DEF Total
<1> HIDE DEF f
<1> QED BY <1>1, <1>2, SumOfNone

\* One more bundle.
LEMMA TotalOfMore ==
  ASSUME NEW store, NEW i, NEW counted, IsFiniteSet(counted), NEW b, b \notin counted,
         \A k \in counted \cup {b} : AskedOfFee(store[k].by, store[i]) \in Int
  PROVE  Total(store, i, counted \cup {b}) =
           AskedOfFee(store[b].by, store[i]) + Total(store, i, counted)
<1> DEFINE more == counted \cup {b}
           f == [k \in more |-> AskedOfFee(store[k].by, store[i])]
           h == [k \in counted |-> AskedOfFee(store[k].by, store[i])]
<1>1. IsFiniteSet(more)
  BY FS_AddElement
<1>2. DOMAIN f = more /\ DOMAIN h = DOMAIN f \ {b} /\ b \in DOMAIN f
  OBVIOUS
<1>3. /\ \A k \in DOMAIN f : f[k] \in Int
      /\ \A k \in DOMAIN h : h[k] = f[k]
      /\ f[b] = AskedOfFee(store[b].by, store[i])
  OBVIOUS
<1>4. Total(store, i, more) = SumFunction(f) /\ Total(store, i, counted) = SumFunction(h)
  BY DEF Total
<1> HIDE DEF f, h, more
<1>5. SumFunction(f) = f[b] + SumFunction(h)
  BY <1>1, <1>2, <1>3, SumOfMore
<1> QED BY <1>3, <1>4, <1>5 DEF more

\* What a step of a request leaves of the fees and of the bundles, and adds.
LEMMA OnlyAdded ==
  ASSUME StoreOK, NEW r, acbs' = acbs \/ Wrote(r),
         NEW i \in DOMAIN acbs', acbs'[i].kind \in {"BundleInformation", "FixedFee"}
  PROVE  \/ i \in DOMAIN acbs /\ acbs'[i] = acbs[i]
         \/ /\ i = Len(acbs) + 1 /\ i \notin DOMAIN acbs
            /\ acbs'[i].by = r /\ IsAsAsked(r, acbs'[i])
<1>1. CASE acbs' = acbs
  BY <1>1
<1>2. ASSUME NEW entity, entity.by = r, acbs' = Append(acbs, entity), IsAsAsked(r, entity)
      PROVE  \/ i \in DOMAIN acbs /\ acbs'[i] = acbs[i]
             \/ /\ i = Len(acbs) + 1 /\ i \notin DOMAIN acbs
                /\ acbs'[i].by = r /\ IsAsAsked(r, acbs'[i])
  <2>1. acbs \in Seq(Range(acbs))
    BY DEF StoreOK, IsStore
  <2>2. /\ DOMAIN acbs' = DOMAIN acbs \cup {Len(acbs) + 1}
        /\ Len(acbs) + 1 \notin DOMAIN acbs
        /\ acbs'[Len(acbs) + 1] = entity
        /\ \A j \in DOMAIN acbs : acbs'[j] = acbs[j]
    BY <1>2, <2>1, AppendedAre
  <2> QED BY <1>2, <2>2
<1>3. ASSUME NEW entity, NEW k \in DOMAIN acbs, acbs' = [acbs EXCEPT ![k] = entity],
             IsSame(acbs[k], entity), acbs[k].kind \notin {"BundleInformation", "FixedFee"}
      PROVE  i \in DOMAIN acbs /\ acbs'[i] = acbs[i]
  <2>1. i \in DOMAIN acbs
    BY <1>3
  <2>2. i # k
    BY <1>3 DEF IsSame
  <2> QED BY <1>3, <2>1, <2>2
<1> QED BY <1>1, <1>2, <1>3 DEF Wrote

\* The same, said of the fees and the bundles that a store has.
LEMMA WhatIsAdded ==
  ASSUME StoreOK, NEW r \in Nat \ {0}, acbs' = acbs \/ Wrote(r), Keeps(acbs, acbs')
  PROVE  /\ \A i \in DOMAIN acbs :
              acbs[i].kind \in {"BundleInformation", "FixedFee"} => acbs'[i] = acbs[i]
         /\ FeeBundles(acbs') = FeeBundles(acbs)
<1>1. DOMAIN acbs \subseteq DOMAIN acbs' /\ \A i \in DOMAIN acbs : acbs'[i].kind = acbs[i].kind
  BY DEF Keeps, IsSame
<1>2. ASSUME NEW i \in DOMAIN acbs, acbs[i].kind \in {"BundleInformation", "FixedFee"}
      PROVE  acbs'[i] = acbs[i]
  BY <1>1, <1>2, OnlyAdded
<1>3. ASSUME NEW b \in DOMAIN acbs', b \notin DOMAIN acbs, acbs'[b].kind = "BundleInformation"
      PROVE  ~(acbs'[b].data.BundleStatusCode = BundleStatusCodes.POSTED
               /\ AsksOfFees(acbs'[b].by))
  <2>1. acbs'[b].by = r /\ IsAsAsked(r, acbs'[b])
    BY <1>3, OnlyAdded
  <2>2. AsksOfFees(r) => acbs'[b].data.BundleStatusCode = BundleStatusCodes.PENDING_POSTING
    BY <1>3, <2>1 DEF IsAsAsked, AsksOfFees
  <2> QED BY <2>1, <2>2 DEF BundleStatusCodes
<1>4. ASSUME NEW b  PROVE b \in FeeBundles(acbs') <=> b \in FeeBundles(acbs)
  <2>1. CASE b \in DOMAIN acbs
    BY <1>1, <1>2, <2>1 DEF FeeBundles
  <2>2. CASE b \notin DOMAIN acbs
    BY <1>3, <2>2 DEF FeeBundles
  <2> QED BY <2>1, <2>2
<1> QED BY <1>2, <1>4

LEMMA StoreIsFinite ==
  ASSUME StoreOK
  PROVE  Len(acbs) \in Nat /\ DOMAIN acbs = 1..Len(acbs) /\ IsFiniteSet(DOMAIN acbs)
<1>1. Len(acbs) \in Nat /\ DOMAIN acbs = 1..Len(acbs)
  BY IsASequence DEF StoreOK, IsStore
<1> QED BY <1>1, FS_Interval

\* A step of a request leaves the fees as they add up, and one that it adds
\* has the amount it was created with.
LEMMA HandleAddsUp ==
  ASSUME StoreOK, TypedStore(acbs'), NEW r \in Nat \ {0},
         acbs' = acbs \/ Wrote(r), Keeps(acbs, acbs'),
         \A i \in DOMAIN acbs : acbs[i].kind = "FixedFee" => AddsUp(acbs, i),
         NEW i \in DOMAIN acbs', acbs'[i].kind = "FixedFee"
  PROVE  AddsUp(acbs', i)
<1>1. FeeBundles(acbs') = FeeBundles(acbs)
  BY WhatIsAdded
<1>2. CASE i \in DOMAIN acbs
  <2>1. acbs[i].kind = "FixedFee" /\ acbs'[i] = acbs[i]
    BY <1>2, WhatIsAdded DEF Keeps, IsSame
  <2>2. CreatedWith(acbs', i) = CreatedWith(acbs, i) /\ CreatedWith(acbs, i) \in Int
    BY <1>2, <2>1 DEF CreatedWith, AddsUp
  <2>3. PICK counted \in SUBSET FeeBundles(acbs) :
          /\ {b \in FeeBundles(acbs) : b > i} \subseteq counted
          /\ workload.serial => counted = {b \in FeeBundles(acbs) : b > i}
          /\ acbs[i].data.FixedFeeAmount = CreatedWith(acbs, i) + Total(acbs, i, counted)
    BY <1>2, <2>1 DEF AddsUp
  <2>4. Total(acbs', i, counted) = Total(acbs, i, counted)
    <3>1. IsFiniteSet(counted)
      BY StoreIsFinite, FS_Subset DEF FeeBundles
    <3>2. \A b \in counted : acbs'[b].by = acbs[b].by
      BY WhatIsAdded DEF FeeBundles
    <3> QED BY <2>1, <3>1, <3>2, SameTotal
  <2> QED BY <1>1, <2>1, <2>2, <2>3, <2>4 DEF AddsUp
<1>3. CASE i \notin DOMAIN acbs
  <2>1. i = Len(acbs) + 1 /\ acbs'[i].by = r /\ IsAsAsked(r, acbs'[i])
    BY <1>3, OnlyAdded
  <2>2. acbs'[i].data.FixedFeeAmount = CreatedWith(acbs', i)
    BY <2>1 DEF IsAsAsked, CreatedWith
  <2>3. acbs'[i].data.FixedFeeAmount \in Int
    BY DEF TypedStore, IsOfItsDto, IsDto, AcbsCreateFacilityFixedFeeRequestDto
  <2>4. {b \in FeeBundles(acbs') : b > i} = {}
    BY <1>1, <2>1, StoreIsFinite DEF FeeBundles
  <2>5. Total(acbs', i, {}) = 0
    BY TotalOfNone
  <2> QED BY <2>2, <2>3, <2>4, <2>5 DEF AddsUp
<1> QED BY <1>2, <1>3

\* A fee when ACBS posts messages.
LEMMA FeeAmountAmended ==
  ASSUME NEW messages, NEW i, IsEntity(acbs[i]), acbs[i].kind = "FixedFee",
         acbs[i].data \in AcbsCreateFacilityFixedFeeRequestDto
  PROVE  LET old == acbs[i]
             new == Amended(messages, i)
         IN  /\ new.owner = old.owner /\ new.by = old.by
             /\ new.data.SegmentIdentifier = old.data.SegmentIdentifier
             /\ new.data.LenderTypeCode = old.data.LenderTypeCode
             /\ new.data.FixedFeeAmount = old.data.FixedFeeAmount + SumOfChanges(messages, i)
<1> DEFINE e == acbs[i]
           ChangeOf(k) == Change(messages[k], i)
           change == MapThenSumSet(ChangeOf, DOMAIN messages)
           amount == e.data.FixedFeeAmount + change
           data == [e.data EXCEPT !.FixedFeeAmount = amount]
           new == [kind |-> e.kind, owner |-> e.owner, data |-> data, by |-> e.by]
<1>1. change = SumOfChanges(messages, i)
  BY DEF SumOfChanges
<1>2. Amended(messages, i) = [e EXCEPT !.data = data]
  <2>1. Amended(messages, i) = [e EXCEPT !.data.FixedFeeAmount = amount]
    BY DEF Amended
  <2> HIDE DEF amount
  <2> QED BY <2>1
<1> HIDE DEF amount
<1>3. /\ data.FixedFeeAmount = amount
      /\ data.SegmentIdentifier = e.data.SegmentIdentifier
      /\ data.LenderTypeCode = e.data.LenderTypeCode
  BY DEF AcbsCreateFacilityFixedFeeRequestDto
<1> HIDE DEF data
<1>4. [e EXCEPT !.data = data] = new
  BY EntityExcept
<1> QED BY <1>1, <1>2, <1>3, <1>4 DEF amount

\* What becomes of the bundles when one is posted or fails.
LEMMA BundlesPosted ==
  ASSUME StoreOK, UNCHANGED workload, NEW b \in DOMAIN acbs, PostBundle(b),
         NEW j \in DOMAIN acbs', acbs'[j].kind = "BundleInformation"
  PROVE  /\ j \in DOMAIN acbs /\ acbs[j].kind = "BundleInformation"
         /\ acbs'[j].by = acbs[j].by
         /\ acbs'[j].data.BundleMessageList = acbs[j].data.BundleMessageList
         /\ j # b => acbs'[j] = acbs[j]
         /\ Pending(b) /\ ~Pending(b)'
<1> DEFINE Marked(code) == [acbs[b] EXCEPT !.data.BundleStatusCode = code]
           messages == acbs[b].data.BundleMessageList
<1>1. j \in DOMAIN acbs /\ acbs[j].kind = "BundleInformation"
  BY PostKeeps DEF Keeps, IsSame
<1>2. j # b => acbs'[j] = acbs[j]
  BY OtherBundles
<1>3. acbs[b].kind = "BundleInformation" /\ IsEntity(acbs[b]) /\ Pending(b)
  BY DEF PostBundle, Pending, StoreOK, IsStore
<1>4. \A code : /\ Marked(code).by = acbs[b].by
               /\ Marked(code).data.BundleMessageList = messages
  <2>1. /\ "data" \in DOMAIN acbs[b] /\ "BundleStatusCode" \in DOMAIN acbs[b].data
        /\ "BundleMessageList" \in DOMAIN acbs[b].data /\ "by" \in DOMAIN acbs[b]
    BY <1>3 DEF IsEntity, FieldsOf
  <2> QED BY <2>1
<1> HIDE DEF messages, Marked
<1>5. acbs'[b] \in {Marked(BundleStatusCodes.POSTED), Marked(BundleStatusCodes.POSTING_ERROR)}
  <2>1. \/ \A k \in DOMAIN acbs :
              acbs'[k] = IF k = b THEN Marked(BundleStatusCodes.POSTED) ELSE Amended(messages, k)
        \/ acbs' = [acbs EXCEPT ![b] = Marked(BundleStatusCodes.POSTING_ERROR)]
    BY PostOutcome DEF messages, Marked
  <2> QED BY <2>1
<1>6. ~Pending(b)'
  <2>1. b \in DOMAIN acbs' /\ acbs'[b].kind = "BundleInformation"
    BY <1>3, PostKeeps DEF Keeps, IsSame
  <2>2. acbs'[b].data.BundleStatusCode # BundleStatusCodes.PENDING_POSTING
    BY <2>1, OtherBundles
  <2> QED BY <2>2 DEF Pending
<1>7. CASE j = b
  BY <1>1, <1>3, <1>4, <1>5, <1>6, <1>7 DEF messages
<1>8. CASE j # b
  BY <1>1, <1>2, <1>3, <1>6, <1>8
<1> QED BY <1>7, <1>8

\* What becomes of a fee: nothing, or what the bundle asks for.
LEMMA FeePosted ==
  ASSUME StoreOK, TypedStore(acbs), UNCHANGED workload, NEW b \in DOMAIN acbs, PostBundle(b),
         NEW i \in DOMAIN acbs, acbs[i].kind = "FixedFee"
  PROVE  /\ acbs'[i].owner = acbs[i].owner /\ acbs'[i].by = acbs[i].by
         /\ acbs'[i].data.SegmentIdentifier = acbs[i].data.SegmentIdentifier
         /\ acbs'[i].data.LenderTypeCode = acbs[i].data.LenderTypeCode
         /\ \/ /\ acbs'[b].data.BundleStatusCode = BundleStatusCodes.POSTED
               /\ acbs'[i].data.FixedFeeAmount =
                    acbs[i].data.FixedFeeAmount
                    + SumOfChanges(acbs[b].data.BundleMessageList, i)
            \/ /\ acbs'[b].data.BundleStatusCode # BundleStatusCodes.POSTED
               /\ acbs'[i] = acbs[i]
<1> DEFINE Marked(code) == [acbs[b] EXCEPT !.data.BundleStatusCode = code]
           messages == acbs[b].data.BundleMessageList
<1>1. acbs[b].kind = "BundleInformation" /\ b # i
      /\ IsEntity(acbs[b]) /\ IsEntity(acbs[i])
  BY DEF PostBundle, StoreOK, IsStore
<1>2. acbs[i].data \in AcbsCreateFacilityFixedFeeRequestDto
  BY DEF TypedStore, IsOfItsDto, IsDto
<1>3. \A code : Marked(code).data.BundleStatusCode = code
  <2>1. "data" \in DOMAIN acbs[b] /\ "BundleStatusCode" \in DOMAIN acbs[b].data
    BY <1>1 DEF IsEntity, FieldsOf
  <2> QED BY <2>1
<1> HIDE DEF messages, Marked
<1>4. \/ \A k \in DOMAIN acbs :
            acbs'[k] = IF k = b THEN Marked(BundleStatusCodes.POSTED) ELSE Amended(messages, k)
      \/ acbs' = [acbs EXCEPT ![b] = Marked(BundleStatusCodes.POSTING_ERROR)]
  BY PostOutcome DEF messages, Marked
<1>5. ASSUME \A k \in DOMAIN acbs :
               acbs'[k] = IF k = b THEN Marked(BundleStatusCodes.POSTED) ELSE Amended(messages, k)
      PROVE  /\ acbs'[b].data.BundleStatusCode = BundleStatusCodes.POSTED
             /\ acbs'[i] = Amended(messages, i)
  BY <1>1, <1>3, <1>5
<1>6. ASSUME acbs' = [acbs EXCEPT ![b] = Marked(BundleStatusCodes.POSTING_ERROR)]
      PROVE  /\ acbs'[b].data.BundleStatusCode # BundleStatusCodes.POSTED
             /\ acbs'[i] = acbs[i]
  <2>1. acbs'[b] = Marked(BundleStatusCodes.POSTING_ERROR) /\ acbs'[i] = acbs[i]
    BY <1>1, <1>6
  <2>2. BundleStatusCodes.POSTING_ERROR # BundleStatusCodes.POSTED
    BY DEF BundleStatusCodes
  <2> QED BY <1>3, <2>1, <2>2
<1> QED BY <1>1, <1>2, <1>4, <1>5, <1>6, FeeAmountAmended DEF messages

LEMMA PostAddsUp ==
  ASSUME StoreOK, TypedStore(acbs), FeeInv, workload.serial \in BOOLEAN, 0 \notin Requests,
         UNCHANGED workload, NEW b \in DOMAIN acbs, PostBundle(b),
         NEW i \in DOMAIN acbs, acbs[i].kind = "FixedFee"
  PROVE  AddsUp(acbs', i)
<1> DEFINE r == acbs[b].by
           asks == AsksOfFees(r)
           Later(store) == {k \in FeeBundles(store) : k > i}
<1>1. /\ acbs[b].kind = "BundleInformation" /\ Pending(b)
      /\ b \in DOMAIN acbs' /\ acbs'[b].kind = "BundleInformation"
      /\ DOMAIN acbs \subseteq DOMAIN acbs'
  BY PostKeeps DEF PostBundle, Pending, Keeps, IsSame
<1>2. IsOfItsRequest(acbs[b])
  BY <1>1 DEF FeeInv
<1>3. /\ acbs'[i].owner = acbs[i].owner /\ acbs'[i].by = acbs[i].by
      /\ acbs'[i].data.SegmentIdentifier = acbs[i].data.SegmentIdentifier
      /\ acbs'[i].data.LenderTypeCode = acbs[i].data.LenderTypeCode
      /\ \/ /\ acbs'[b].data.BundleStatusCode = BundleStatusCodes.POSTED
            /\ acbs'[i].data.FixedFeeAmount =
                 acbs[i].data.FixedFeeAmount
                 + SumOfChanges(acbs[b].data.BundleMessageList, i)
         \/ /\ acbs'[b].data.BundleStatusCode # BundleStatusCodes.POSTED
            /\ acbs'[i] = acbs[i]
  BY FeePosted
<1> DEFINE posted == acbs'[b].data.BundleStatusCode = BundleStatusCodes.POSTED
<1>4. ASSUME NEW j \in DOMAIN acbs', acbs'[j].kind = "BundleInformation"
      PROVE  /\ j \in DOMAIN acbs /\ acbs[j].kind = "BundleInformation"
             /\ acbs'[j].by = acbs[j].by /\ (j # b => acbs'[j] = acbs[j])
  BY <1>4, BundlesPosted
<1>5. \A j \in DOMAIN acbs : acbs[j].kind = "BundleInformation" =>
          j \in DOMAIN acbs' /\ acbs'[j].kind = "BundleInformation"
  BY PostKeeps DEF Keeps, IsSame
<1>6. b \notin FeeBundles(acbs)
  BY <1>1 DEF FeeBundles, Pending, BundleStatusCodes
<1>7. FeeBundles(acbs') = IF posted /\ asks THEN FeeBundles(acbs) \cup {b} ELSE FeeBundles(acbs)
  <2>1. ASSUME NEW j, j # b  PROVE j \in FeeBundles(acbs') <=> j \in FeeBundles(acbs)
    BY <1>4, <1>5, <2>1 DEF FeeBundles
  <2>2. b \in FeeBundles(acbs') <=> posted /\ asks
    <3>1. acbs'[b].by = r
      BY <1>1, <1>4
    <3> QED BY <1>1, <3>1 DEF FeeBundles
  <2> HIDE DEF posted, asks
  <2> QED BY <1>6, <2>1, <2>2
<1>8. CreatedWith(acbs, i) \in Int /\ CreatedWith(acbs', i) = CreatedWith(acbs, i)
  BY <1>3 DEF FeeInv, AddsUp, CreatedWith
<1>9. PICK counted \in SUBSET FeeBundles(acbs) :
        /\ Later(acbs) \subseteq counted
        /\ workload.serial => counted = Later(acbs)
        /\ acbs[i].data.FixedFeeAmount = CreatedWith(acbs, i) + Total(acbs, i, counted)
  BY DEF FeeInv, AddsUp
<1>10. IsFiniteSet(counted) /\ counted \subseteq DOMAIN acbs
  BY StoreIsFinite, FS_Subset DEF FeeBundles
<1>11. \A k \in counted \cup {b} : acbs'[k].by = acbs[k].by
  <2>1. \A k \in counted \cup {b} : k \in DOMAIN acbs /\ acbs[k].kind = "BundleInformation"
    BY <1>1 DEF FeeBundles
  <2> QED BY <1>4, <1>5, <2>1
<1>12. Total(acbs', i, counted) = Total(acbs, i, counted)
  BY <1>3, <1>10, <1>11, SameTotal
<1>13. CASE ~(posted /\ asks)
  <2>1. FeeBundles(acbs') = FeeBundles(acbs)
    BY <1>7, <1>13
  <2>2. acbs'[i].data.FixedFeeAmount = acbs[i].data.FixedFeeAmount
    <3>1. CASE ~posted
      BY <1>3, <3>1
    <3>2. CASE ~asks
      <4>1. SumOfChanges(acbs[b].data.BundleMessageList, i) = 0
        BY <1>1, <1>2, <3>2, NothingIsChanged
      <4>2. acbs[i].data.FixedFeeAmount \in Int
        BY DEF TypedStore, IsOfItsDto, IsDto, AcbsCreateFacilityFixedFeeRequestDto
      <4> QED BY <1>3, <4>1, <4>2
    <3> QED BY <1>13, <3>1, <3>2
  <2> QED BY <1>8, <1>9, <1>12, <2>1, <2>2 DEF AddsUp
<1>14. CASE posted /\ asks
  <2> DEFINE more == counted \cup {b}
  <2>1. FeeBundles(acbs') = FeeBundles(acbs) \cup {b} /\ more \in SUBSET FeeBundles(acbs')
    BY <1>7, <1>14
  <2>2. Later(acbs') \subseteq more
    BY <1>9, <2>1
  <2>3. workload.serial => more = Later(acbs')
    <3>1. workload.serial => b > i
      BY <1>1, <1>14 DEF FeeInv
    <3> QED BY <1>9, <2>1, <3>1
  <2>4. acbs'[i].data.FixedFeeAmount =
          acbs[i].data.FixedFeeAmount + AskedOfFee(r, acbs[i])
    BY <1>1, <1>2, <1>3, <1>14, AskedIsChanged
  <2>5. \A k \in more : AskedOfFee(acbs[k].by, acbs[i]) \in Int
    <3>1. \A k \in more : /\ k \in DOMAIN acbs /\ acbs[k].kind = "BundleInformation"
                          /\ AsksOfFees(acbs[k].by)
      BY <1>1, <1>14 DEF FeeBundles
    <3>2. \A k \in more : IsOfItsRequest(acbs[k])
      BY <3>1 DEF FeeInv
    <3> HIDE DEF more
    <3> QED BY <3>1, <3>2, AskedOfFeeIsInt
  <2>6. Total(acbs, i, more) = AskedOfFee(r, acbs[i]) + Total(acbs, i, counted)
    BY <1>6, <1>10, <2>5, TotalOfMore
  <2>7. Total(acbs', i, more) = Total(acbs, i, more)
    <3>1. IsFiniteSet(more)
      BY <1>10, FS_AddElement
    <3> QED BY <1>3, <1>11, <3>1, SameTotal
  <2>8. Total(acbs, i, counted) \in Int
    <3> DEFINE f == [k \in counted |-> AskedOfFee(acbs[k].by, acbs[i])]
    <3>1. DOMAIN f = counted /\ \A k \in counted : f[k] \in Int
      BY <2>5
    <3>2. Total(acbs, i, counted) = SumFunction(f)
      BY DEF Total
    <3> HIDE DEF f
    <3> QED BY <1>10, <3>1, <3>2, SumIsInt
  <2>9. AskedOfFee(r, acbs[i]) \in Int
    BY <2>5
  <2> DEFINE created == CreatedWith(acbs, i)
             asked == AskedOfFee(r, acbs[i])
             total == Total(acbs, i, counted)
  <2>10. acbs'[i].data.FixedFeeAmount = CreatedWith(acbs', i) + Total(acbs', i, more)
    <3>1. acbs'[i].data.FixedFeeAmount = (created + total) + asked
      BY <1>9, <2>4
    <3>2. Total(acbs', i, more) = asked + total /\ CreatedWith(acbs', i) = created
      BY <1>8, <2>6, <2>7
    <3>3. created \in Int /\ asked \in Int /\ total \in Int
      BY <1>8, <2>8, <2>9
    <3> HIDE DEF created, asked, total
    <3> QED BY <3>1, <3>2, <3>3
  <2> HIDE DEF more
  <2> QED BY <1>8, <2>1, <2>2, <2>3, <2>10 DEF AddsUp
<1> QED BY <1>13, <1>14

LEMMA AddsUpNext ==
  ASSUME UNCHANGED workload, NEW i, AddsUp(acbs', i)
  PROVE  AddsUp(acbs, i)'
<1>1. \A r : Op(r)' = Op(r) /\ Body(r)' = Body(r)
            /\ FacilityIdentifier(r)' = FacilityIdentifier(r)
  BY DEF Op, Body, FacilityIdentifier, Params
<1>2. FeeBundles(acbs)' = FeeBundles(acbs')
  BY <1>1 DEF FeeBundles, AsksOfFees
<1>3. CreatedWith(acbs, i)' = CreatedWith(acbs', i)
  BY <1>1 DEF CreatedWith
<1>4. \A counted : Total(acbs, i, counted)' = Total(acbs', i, counted)
  BY DEF Total, AskedOfFee, Body, FacilityIdentifier, Params
<1> QED BY <1>2, <1>3, <1>4 DEF AddsUp

LEMMA RequestNext ==
  ASSUME UNCHANGED workload, NEW b, IsOfItsRequest(acbs'[b])
  PROVE  IsOfItsRequest(acbs[b])'
BY DEF IsOfItsRequest, AsksOfFees, Requests, Op, Body, FacilityIdentifier, Params

LEMMA HandleKeepsFees ==
  ASSUME IInv, TypesOK', LimitInv, FeeInv, NEW r \in Requests, UNCHANGED workload, Handle(r)
  PROVE  FeeInv'
<1>1. StoreOK /\ ControlOK /\ Step(r) /\ TypedStore(acbs')
  <2>1. TypedStore(acbs)' /\ TypedStore(acbs)' = TypedStore(acbs')
    BY DEF TypesOK, TypedStore, IsOfItsDto
  <2> QED BY <2>1, HandleStep DEF IInv
<1>2. r \in Nat \ {0} /\ 0 \notin Requests
  BY <1>1, RequestsAre
<1>3. Keeps(acbs, acbs') /\ (acbs' = acbs \/ Wrote(r))
  BY <1>1, WroteKeeps DEF Step
<1>4. ASSUME NEW i \in DOMAIN acbs', acbs'[i].kind = "FixedFee"  PROVE AddsUp(acbs, i)'
  <2>1. AddsUp(acbs', i)
    BY <1>1, <1>2, <1>3, <1>4, HandleAddsUp DEF FeeInv
  <2> QED BY <2>1, AddsUpNext
<1>5. ASSUME NEW b \in DOMAIN acbs', acbs'[b].kind = "BundleInformation"
      PROVE  IsOfItsRequest(acbs[b])'
  <2>1. CASE b \in DOMAIN acbs /\ acbs'[b] = acbs[b]
    <3>1. IsOfItsRequest(acbs'[b])
      BY <1>5, <2>1 DEF FeeInv
    <3> QED BY <3>1, RequestNext
  <2>2. CASE acbs'[b].by = r /\ IsAsAsked(r, acbs'[b])
    <3> DEFINE bundle == acbs'[b]
    <3>1. bundle.kind = "BundleInformation" /\ bundle.by = r /\ IsAsAsked(r, bundle)
      BY <1>5, <2>2
    <3> HIDE DEF bundle
    <3>2. IsOfItsRequest(bundle)
      <4>1. CASE Op(r) = AmendFeesOp
        <5>1. /\ bundle.data.BundleMessageList =
                    [k \in DOMAIN Body(r) |->
                       FeeAmountAmendmentMessage(FacilityIdentifier(r), Body(r)[k])]
              /\ \A k \in DOMAIN Body(r) : Body(r)[k].amountAmendment \in Int
          BY <3>1, <4>1 DEF IsAsAsked
        <5> QED BY <1>2, <3>1, <4>1, <5>1 DEF IsOfItsRequest, AsksOfFees
      <4>2. CASE Op(r) # AmendFeesOp
        BY <3>1, <4>2 DEF IsAsAsked, IsOfItsRequest, AsksOfFees
      <4> QED BY <4>1, <4>2
    <3> QED BY <3>2, RequestNext DEF bundle
  <2> QED BY <1>1, <1>3, <1>5, <2>1, <2>2, OnlyAdded
<1>6. ASSUME workload.serial, NEW i \in DOMAIN acbs', NEW b \in DOMAIN acbs',
             acbs'[i].kind = "FixedFee", Pending(b)'
      PROVE  b > i
  <2>1. NonePending
    BY <1>1, <1>6, NonePendingBefore DEF Step
  <2>2. acbs'[b].kind = "BundleInformation"
    BY <1>6 DEF Pending
  <2>3. b = Len(acbs) + 1 /\ b \notin DOMAIN acbs
    <3>1. ~(b \in DOMAIN acbs /\ acbs'[b] = acbs[b])
      BY <1>6, <2>1 DEF NonePending, Pending
    <3> QED BY <1>1, <1>3, <2>2, <3>1, OnlyAdded
  <2>4. i \in DOMAIN acbs
    <3>1. i # b
      BY <1>6, <2>2
    <3> QED BY <1>1, <1>3, <1>6, <2>3, <3>1, OnlyAdded
  <2> QED BY <1>1, <2>3, <2>4, StoreIsFinite
<1> QED BY <1>4, <1>5, <1>6 DEF FeeInv

LEMMA PostKeepsFees ==
  ASSUME IInv, TypesOK, FeeInv, UNCHANGED workload, NEW b \in DOMAIN acbs, PostBundle(b)
  PROVE  FeeInv'
<1>1. StoreOK /\ ControlOK /\ TypedStore(acbs)
  BY DEF IInv, TypesOK
<1>2. 0 \notin Requests /\ workload.serial \in BOOLEAN
  BY <1>1, RequestsAre
<1>3. ASSUME NEW i \in DOMAIN acbs', acbs'[i].kind = "FixedFee"
      PROVE  i \in DOMAIN acbs /\ acbs[i].kind = "FixedFee"
  BY <1>1, <1>3, PostKeeps DEF Keeps, IsSame
<1>4. ASSUME NEW i \in DOMAIN acbs', acbs'[i].kind = "FixedFee"  PROVE AddsUp(acbs, i)'
  <2>1. AddsUp(acbs', i)
    BY <1>1, <1>2, <1>3, <1>4, PostAddsUp
  <2> QED BY <2>1, AddsUpNext
<1>5. ASSUME NEW j \in DOMAIN acbs', acbs'[j].kind = "BundleInformation"
      PROVE  IsOfItsRequest(acbs[j])'
  <2>1. /\ j \in DOMAIN acbs /\ acbs[j].kind = "BundleInformation"
        /\ acbs'[j].by = acbs[j].by
        /\ acbs'[j].data.BundleMessageList = acbs[j].data.BundleMessageList
        /\ j # b => acbs'[j] = acbs[j]
        /\ Pending(b) /\ ~Pending(b)'
    BY <1>1, <1>5, BundlesPosted
  <2>2. IsOfItsRequest(acbs[j])
    BY <2>1 DEF FeeInv
  <2>3. acbs'[j].data.BundleStatusCode = BundleStatusCodes.PENDING_POSTING =>
          acbs[j].data.BundleStatusCode = BundleStatusCodes.PENDING_POSTING
    BY <1>5, <2>1 DEF Pending
  <2>4. IsOfItsRequest(acbs'[j])
    BY <2>1, <2>2, <2>3 DEF IsOfItsRequest
  <2> QED BY <2>4, RequestNext
<1>6. ASSUME workload.serial, NEW i \in DOMAIN acbs', NEW j \in DOMAIN acbs',
             acbs'[i].kind = "FixedFee", Pending(j)', AsksOfFees(acbs[j].by)'
      PROVE  j > i
  <2>1. acbs'[j].kind = "BundleInformation" /\ AsksOfFees(acbs'[j].by)
    BY <1>6 DEF Pending, AsksOfFees, Op
  <2>2. /\ j \in DOMAIN acbs /\ acbs'[j].by = acbs[j].by
        /\ j # b => acbs'[j] = acbs[j]
        /\ ~Pending(b)'
    BY <1>1, <2>1, BundlesPosted
  <2>3. Pending(j) /\ AsksOfFees(acbs[j].by)
    BY <1>6, <2>1, <2>2 DEF Pending
  <2> QED BY <1>3, <1>6, <2>2, <2>3 DEF FeeInv
<1> QED BY <1>4, <1>5, <1>6 DEF FeeInv

LEMMA StutterKeepsFees ==
  ASSUME FeeInv, UNCHANGED <<workload, acbs>>
  PROVE  FeeInv'
<1>1. ASSUME NEW i \in DOMAIN acbs, acbs[i].kind = "FixedFee"  PROVE AddsUp(acbs, i)'
  <2>1. AddsUp(acbs', i)
    BY <1>1 DEF FeeInv
  <2> QED BY <2>1, AddsUpNext
<1>2. ASSUME NEW b \in DOMAIN acbs, acbs[b].kind = "BundleInformation"
      PROVE  IsOfItsRequest(acbs[b])'
  <2>1. IsOfItsRequest(acbs'[b])
    BY <1>2 DEF FeeInv
  <2> QED BY <2>1, RequestNext
<1>3. ASSUME workload.serial, NEW i \in DOMAIN acbs, NEW b \in DOMAIN acbs,
             acbs[i].kind = "FixedFee", Pending(b)', AsksOfFees(acbs[b].by)'
      PROVE  b > i
  BY <1>3 DEF FeeInv, Pending, AsksOfFees, Op
<1> QED BY <1>1, <1>2, <1>3 DEF FeeInv

LEMMA NextKeepsFees == IInv /\ TypesOK /\ TypesOK' /\ LimitInv /\ FeeInv /\ [Next]_vars => FeeInv'
<1> SUFFICES ASSUME IInv, TypesOK, TypesOK', LimitInv, FeeInv, [Next]_vars  PROVE FeeInv'
  OBVIOUS
<1>1. CASE UNCHANGED vars
  BY <1>1, StutterKeepsFees DEF vars
<1>2. ASSUME UNCHANGED workload, NEW r \in Requests, Handle(r)  PROVE FeeInv'
  BY <1>2, HandleKeepsFees
<1>3. ASSUME UNCHANGED workload, NEW b \in DOMAIN acbs, PostBundle(b)  PROVE FeeInv'
  BY <1>3, PostKeepsFees
<1>4. ASSUME UNCHANGED workload, Finished  PROVE FeeInv'
  BY <1>4, StutterKeepsFees DEF Finished
<1> QED BY <1>1, <1>2, <1>3, <1>4 DEF Next

\* Of the bundles that ACBS starts with none is yet to change a fee.
FeesAreSettled ==
    \A b \in DOMAIN workload.acbs :
        LET bundle == workload.acbs[b]
        IN  /\ bundle.kind = "BundleInformation"
            /\ bundle.data.BundleStatusCode = BundleStatusCodes.PENDING_POSTING
            => \A k \in DOMAIN bundle.data.BundleMessageList :
                   bundle.data.BundleMessageList[k].type # "FacilityFeeAmountTransaction"

LEMMA InitFees == Init /\ FeesAreSettled => FeeInv
<1> SUFFICES ASSUME Init, FeesAreSettled  PROVE FeeInv
  OBVIOUS
<1>1. workload \in Workloads /\ acbs = workload.acbs
  BY DEF Init
<1>2. \A i \in DOMAIN acbs : acbs[i].by = 0 /\ IsOfItsDto(acbs[i])
  BY <1>1, WorkloadAssumption
<1>3. ASSUME NEW i \in DOMAIN acbs, acbs[i].kind = "FixedFee"  PROVE AddsUp(acbs, i)
  <2>1. acbs[i].data.FixedFeeAmount \in Int
    BY <1>2, <1>3 DEF IsOfItsDto, IsDto, AcbsCreateFacilityFixedFeeRequestDto
  <2>2. CreatedWith(acbs, i) = acbs[i].data.FixedFeeAmount
    BY <1>1, <1>2 DEF CreatedWith
  <2>3. FeeBundles(acbs) = {}
    BY <1>2 DEF FeeBundles, AsksOfFees
  <2>4. Total(acbs, i, {}) = 0
    BY TotalOfNone
  <2> QED BY <2>1, <2>2, <2>3, <2>4 DEF AddsUp
<1>4. ASSUME NEW b \in DOMAIN acbs, acbs[b].kind = "BundleInformation"
      PROVE  IsOfItsRequest(acbs[b])
  BY <1>1, <1>2, <1>4 DEF IsOfItsRequest, AsksOfFees, FeesAreSettled
<1> QED BY <1>2, <1>3, <1>4 DEF FeeInv, AsksOfFees

\* The amount of a fee is the one it was created with and all that was asked
\* for and posted since, in any workload.  What a bundle changes of a fee is
\* what its request asks of it, whatever the signs; that nothing else is lost
\* in a serial workload is because nothing is to be posted when a request
\* creates a fee.
THEOREM FeesDoAddUp == Spec /\ FeesAreSettled => []FeeAmountsAddUp
<1>1. FeeInv => FeeAmountsAddUp
  <2> SUFFICES ASSUME FeeInv, NEW i \in DOMAIN acbs, acbs[i].kind = "FixedFee"
               PROVE  LET fee == acbs[i]
                          created == IF fee.by = 0 THEN workload.acbs[i].data.FixedFeeAmount
                                     ELSE Body(fee.by)[1].amount
                          bundles == PostedBundlesOf(AmendFeesOp)
                          later == {bundle \in bundles : bundle > i}
                      IN  \E counted \in SUBSET bundles :
                             /\ later \subseteq counted
                             /\ workload.serial => counted = later
                             /\ fee.data.FixedFeeAmount =
                                  created
                                  + SumFunction([bundle \in counted |->
                                                   AskedOfFee(acbs[bundle].by, fee)])
    BY DEF FeeAmountsAddUp, EntitiesOf, AmendFeesOp
  <2>1. PostedBundlesOf(AmendFeesOp) = FeeBundles(acbs)
    BY DEF PostedBundlesOf, FeeBundles, Posted, AsksOfFees
  <2>2. AddsUp(acbs, i)
    BY DEF FeeInv
  <2> QED BY <2>1, <2>2 DEF AddsUp, CreatedWith, Total
<1>2. Init /\ FeesAreSettled => FeeInv
  BY InitFees
<1>3. IInv /\ TypesOK /\ TypesOK' /\ LimitInv /\ FeeInv /\ [Next]_vars => FeeInv'
  BY NextKeepsFees
<1>4. Init => TypesOK /\ LimitInv
  BY InitTypes, InitLimits
<1>5. IInv /\ TypesOK /\ [Next]_vars => TypesOK'
  BY NextKeepsTypes
<1>6. IInv /\ TypesOK /\ LimitInv /\ [Next]_vars => LimitInv'
  BY NextKeepsLimits
<1> QED BY <1>1, <1>2, <1>3, <1>4, <1>5, <1>6, Invariance, PTL DEF Spec
=============================================================================
