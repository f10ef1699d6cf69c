------------------------ MODULE GiftAmendment_proofs ------------------------
(***************************************************************************)
(* Proofs about GiftAmendment: its types, that a 201 for an amount is an   *)
(* approved amount, and that the order of the calls keeps obligations      *)
(* within their facility.                                                  *)
(***************************************************************************)
EXTENDS GiftAmendment, TLAPS

-----------------------------------------------------------------------------
(* Lemmas about the operators.                                             *)

\* A share of an amount is a natural number that does not exceed the amount.
LEMMA ShareWithinAmount ==
    ASSUME NEW n \in Nat, NEW p \in 0..100
    PROVE  /\ CalculatePercentageAmount(n, p) \in Nat
           /\ CalculatePercentageAmount(n, p) <= n
<1>1. n * p \in Nat /\ n * p <= n * 100
  <2>1. n * (100 - p) \in Nat /\ n * p \in Nat
    OBVIOUS
  <2>2. n * (100 - p) = n * 100 - n * p
    OBVIOUS
  <2>3. QED BY <2>1, <2>2
<1>2. ASSUME NEW m \in Nat, m <= n * 100
      PROVE  (m + 50) \div 100 \in Nat /\ (m + 50) \div 100 <= n
  BY <1>2
<1>3. QED BY <1>1, <1>2 DEF CalculatePercentageAmount

\* The two orders are sequences of the targets, each once.
LEMMA OrdersAreSequences ==
    /\ Len(Follows) \in Nat
    /\ FacilityFirst \in Seq(Targets) /\ Len(FacilityFirst) = Len(Follows) + 1
    /\ ObligationsFirst \in Seq(Targets) /\ Len(ObligationsFirst) = Len(Follows) + 1
<1>1. Len(Follows) \in Nat
  BY AmendmentAssumption
<1>2. FacilityFirst \in [1..(Len(Follows) + 1) -> Targets]
  BY <1>1 DEF FacilityFirst, Targets, FacilityEvent, ObligationIds
<1>3. ObligationsFirst \in [1..(Len(Follows) + 1) -> Targets]
  BY <1>1 DEF ObligationsFirst, Targets, FacilityEvent, ObligationIds
<1>4. ASSUME NEW s \in [1..(Len(Follows) + 1) -> Targets]
      PROVE  s \in Seq(Targets) /\ Len(s) = Len(Follows) + 1
  BY <1>1
<1>5. QED BY <1>1, <1>2, <1>3, <1>4

\* A plan names each of its targets once, and the facility among them.
LEMMA PlanShape ==
    ASSUME NEW a \in Attempts
    PROVE  /\ Plan(a) \in Seq(Targets)
           /\ Len(Plan(a)) \in Nat
           /\ \A i \in 1..Len(Plan(a)) : Plan(a)[i] \in Targets
           /\ \A i, j \in 1..Len(Plan(a)) : Plan(a)[i] = Plan(a)[j] => i = j
           /\ \E i \in 1..Len(Plan(a)) : Plan(a)[i] = FacilityEvent
<1>1. Plan(a) \in {<<FacilityEvent>>, FacilityFirst, ObligationsFirst}
  BY DEF Plan
<1>2. CASE Plan(a) = <<FacilityEvent>>
  BY <1>2 DEF Targets, FacilityEvent
<1>3. CASE Plan(a) = FacilityFirst
  <2>1. \A i \in 1..(Len(Follows) + 1) : FacilityFirst[i] = i - 1
    BY DEF FacilityFirst
  <2>2. FacilityFirst[1] = FacilityEvent
    BY <2>1, OrdersAreSequences DEF FacilityEvent
  <2>3. \A i \in 1..Len(FacilityFirst) : FacilityFirst[i] \in Targets
    BY <2>1, OrdersAreSequences DEF Targets, FacilityEvent, ObligationIds
  <2>4. QED BY <1>3, <2>1, <2>2, <2>3, OrdersAreSequences
<1>4. CASE Plan(a) = ObligationsFirst
  <2>1. \A i \in 1..(Len(Follows) + 1) :
          ObligationsFirst[i] = IF i <= Len(Follows) THEN i ELSE FacilityEvent
    BY DEF ObligationsFirst
  <2>2. ObligationsFirst[Len(Follows) + 1] = FacilityEvent
    BY <2>1, OrdersAreSequences DEF FacilityEvent
  <2>3. \A i \in 1..Len(ObligationsFirst) : ObligationsFirst[i] \in Targets
    BY <2>1, OrdersAreSequences DEF Targets, FacilityEvent, ObligationIds
  <2>4. \A i, j \in 1..(Len(Follows) + 1) :
          ObligationsFirst[i] = ObligationsFirst[j] => i = j
    BY <2>1, OrdersAreSequences DEF FacilityEvent
  <2>5. QED BY <1>4, <2>1, <2>2, <2>3, <2>4, OrdersAreSequences
<1>5. QED BY <1>1, <1>2, <1>3, <1>4

\* What a work package amends a number to is a number.
LEMMA AmendedIsNat ==
    ASSUME NEW w, NEW kinds, NEW targets, NEW old \in Nat
    PROVE  Amended(w, kinds, targets, old) \in Nat
<1>1. CASE Amenders(w, kinds, targets) = {}
  BY <1>1 DEF Amended
<1>2. CASE Amenders(w, kinds, targets) # {}
  <2>1. (CHOOSE a \in Amenders(w, kinds, targets) : TRUE) \in Attempts
    BY <1>2 DEF Amenders
  <2>2. QED BY <1>2, <2>1, AmendmentAssumption DEF Amended
<1>3. QED BY <1>1, <1>2

\* The draft of a facility is a facility.
LEMMA DraftIsFacility ==
    ASSUME facility \in Facilities, NEW w \in WorkPackages
    PROVE  Draft(w) \in Facilities
<1>1. ASSUME NEW o \in ObligationIds
      PROVE  /\ facility.share[o] \in Nat
             /\ facility.maturity[o] \in Nat
             /\ facility.amount \in Nat
             /\ facility.expiry \in Nat
  BY <1>1 DEF Facilities
<1>2. ASSUME NEW o \in ObligationIds
      PROVE  CalculatePercentageAmount(Amended(w, AmountKinds, {o}, 0), Percentage) \in Nat
  BY AmendedIsNat, ShareWithinAmount, AmendmentAssumption
<1>3. Amended(w, AmountKinds, {FacilityEvent}, facility.amount) \in Nat
  BY AmendedIsNat DEF Facilities
<1>4. Amended(w, ExpiryKinds, {FacilityEvent}, facility.expiry) \in Nat
  BY AmendedIsNat DEF Facilities
<1>5. ASSUME NEW o \in ObligationIds
      PROVE  Amended(w, ExpiryKinds, Movers(o), facility.maturity[o]) \in Nat
  BY <1>1, AmendedIsNat
<1>6. QED BY <1>1, <1>2, <1>3, <1>4, <1>5 DEF Draft, Facilities

-----------------------------------------------------------------------------
(* The inductive invariant.                                                *)

InWorkPackage(a) == pc[a] \in {"posting", "deleting"}

\* A work package is of the attempt that had it created.
Owned ==
    /\ \A a, b \in Attempts : wp[a] # None /\ wp[a] = wp[b] => a = b
    /\ \A a \in Attempts : wp[a] # None => wpState[wp[a]] # "unused"
    /\ \A a \in Attempts : pc[a] \in {"received", "creating"} => wp[a] = None /\ posted[a] = 0
    /\ \A a \in Attempts : InWorkPackage(a) => posted[a] <= Len(Plan(a))

Made(a, o) == \E i \in 1..posted[a] : Plan(a)[i] = o

\* It holds nothing but events that its owner has posted.
Eventful ==
    \A w \in WorkPackages, a \in Attempts, o \in Targets :
        <<a, o>> \in events[w] =>
            /\ wp[a] = w
            /\ InWorkPackage(a) => Made(a, o)

\* As long as it is open, GIFT has not refused the amount of the facility.
AmountTaken ==
    \A a \in Attempts :
        /\ pc[a] = "posting" /\ wpState[wp[a]] = "open"
        /\ KindOf[a] \in AmountKinds /\ Made(a, FacilityEvent)
        => <<a, FacilityEvent>> \in events[wp[a]]

CreatedIsApproved ==
    \A a \in Attempts : result[a] = "created" =>
        /\ pc[a] = "done" /\ wp[a] # None /\ wpState[wp[a]] = "approved"
        /\ KindOf[a] \in AmountKinds => <<a, FacilityEvent>> \in events[wp[a]]

IInv == TypeOK /\ Owned /\ Eventful /\ AmountTaken /\ CreatedIsApproved

\* The invariant holds at first.
THEOREM InitInv == Init => IInv
BY AmendmentAssumption
   DEF Init, IInv, TypeOK, Owned, Eventful, AmountTaken, CreatedIsApproved, InWorkPackage

LEMMA StepTypeOK ==
    ASSUME IInv, [Next]_vars
    PROVE  TypeOK'
<1> USE DEF IInv
<1>1. CASE UNCHANGED vars
  BY <1>1 DEF TypeOK, vars
<1>2. ASSUME NEW a \in Attempts, GetFacility(a)
      PROVE  TypeOK'
  BY <1>2 DEF TypeOK, GetFacility, Finish, gift, Facilities
<1>3. ASSUME NEW a \in Attempts, CreateWorkPackage(a)
      PROVE  TypeOK'
  <2>1. CASE UNCHANGED gift
    BY <1>3, <2>1 DEF TypeOK, CreateWorkPackage, Finish, gift
  <2>2. ASSUME NEW w \in WorkPackages, wpState' = [wpState EXCEPT ![w] = "open"],
               UNCHANGED <<events, facility, original, posted>>,
               wp' = [wp EXCEPT ![a] = w], pc' = [pc EXCEPT ![a] = "posting"], UNCHANGED result
        PROVE  TypeOK'
    BY <2>2, AmendmentAssumption DEF TypeOK
  <2>3. ASSUME NEW w \in WorkPackages, wpState' = [wpState EXCEPT ![w] = "open"],
               UNCHANGED <<events, facility, original, posted>>,
               wp' = [wp EXCEPT ![a] = w] \/ UNCHANGED wp, Finish(a, "error")
        PROVE  TypeOK'
    BY <2>3 DEF TypeOK, Finish
  <2>4. QED BY <1>3, <2>1, <2>2, <2>3 DEF CreateWorkPackage
<1>4. ASSUME NEW a \in Attempts, PostEvent(a)
      PROVE  TypeOK'
  <2>1. wp[a] \in WorkPackages
    BY <1>4 DEF TypeOK, PostEvent
  <2>2. NextTarget(a) \in Targets
    BY <1>4, PlanShape DEF TypeOK, PostEvent, NextTarget
  <2>3. /\ pc' \in [Attempts -> {"received", "creating", "posting", "deleting", "done", "crashed"}]
        /\ UNCHANGED <<wp, original, wpState, facility>>
        /\ result' \in [Attempts -> {"none", "created", "refused", "error"}]
        /\ \A b \in Attempts : pc'[b] \in {"posting", "deleting"} => wp[b] # None
    BY <1>4 DEF TypeOK, PostEvent, GiftTakes, AfterRefusal, Throw, Finish, gift
  <2>4. posted' \in [Attempts -> Nat]
    BY <1>4 DEF TypeOK, PostEvent, Throw
  <2>5. events' \in [WorkPackages -> SUBSET (Attempts \X Targets)]
    <3>1. UNCHANGED events \/ events' = [events EXCEPT ![wp[a]] = @ \cup {<<a, NextTarget(a)>>}]
      BY <1>4 DEF PostEvent, GiftTakes, gift
    <3>2. events[wp[a]] \cup {<<a, NextTarget(a)>>} \in SUBSET (Attempts \X Targets)
      BY <2>1, <2>2 DEF TypeOK
    <3>3. QED BY <3>1, <3>2, <2>1 DEF TypeOK
  <2>6. QED BY <2>3, <2>4, <2>5 DEF TypeOK
<1>5. ASSUME NEW a \in Attempts, DeleteWorkPackage(a)
      PROVE  TypeOK'
  BY <1>5 DEF TypeOK, DeleteWorkPackage, GiftDeletes, Throw, Finish, gift
<1>6. ASSUME NEW a \in Attempts, ApproveWorkPackage(a)
      PROVE  TypeOK'
  <2>1. wp[a] \in WorkPackages
    BY <1>6 DEF TypeOK, ApproveWorkPackage
  <2>2. Draft(wp[a]) \in Facilities
    BY <2>1, DraftIsFacility DEF TypeOK
  <2>3. QED BY <1>6, <2>1, <2>2
            DEF TypeOK, ApproveWorkPackage, GiftApproves, Throw, Finish, gift
<1>7. ASSUME NEW a \in Attempts, Crash(a)
      PROVE  TypeOK'
  BY <1>7 DEF TypeOK, Crash, gift
<1>8. QED BY <1>1, <1>2, <1>3, <1>4, <1>5, <1>6, <1>7 DEF Next

\* The plan of an attempt that reads nothing is what it was.
LEMMA PlanStays ==
    ASSUME NEW a \in Attempts, original'[a] = original[a]
    PROVE  Plan(a)' = Plan(a)
BY DEF Plan

LEMMA StepOwned ==
    ASSUME IInv, [Next]_vars
    PROVE  Owned'
<1> USE DEF IInv
<1>1. CASE UNCHANGED vars
  BY <1>1 DEF Owned, InWorkPackage, vars, Plan
<1>2. ASSUME NEW a \in Attempts, GetFacility(a)
      PROVE  Owned'
  <2>1. \A b \in Attempts : b # a => Plan(b)' = Plan(b)
    BY <1>2, PlanStays DEF GetFacility, TypeOK
  <2>2. QED BY <1>2, <2>1 DEF Owned, InWorkPackage, TypeOK, GetFacility, Finish, gift
<1>4. ASSUME NEW a \in Attempts, CreateWorkPackage(a)
      PROVE  Owned'
  <2>1. \A b \in Attempts : Plan(b)' = Plan(b)
    BY <1>4, PlanStays DEF CreateWorkPackage
  <2>2. Len(Plan(a)) \in Nat
    BY PlanShape
  <2>3. CASE UNCHANGED gift
    BY <1>4, <2>1, <2>2, <2>3 DEF Owned, InWorkPackage, TypeOK, CreateWorkPackage, Finish, gift
  <2>4. ASSUME NEW w \in WorkPackages, wpState[w] = "unused",
               wpState' = [wpState EXCEPT ![w] = "open"],
               wp' = [wp EXCEPT ![a] = w] \/ UNCHANGED wp
        PROVE  /\ \A b, c \in Attempts : wp'[b] # None /\ wp'[b] = wp'[c] => b = c
               /\ \A b \in Attempts : wp'[b] # None => wpState'[wp'[b]] # "unused"
    <3>1. \A b \in Attempts : wp[b] # w
      BY <2>4, AmendmentAssumption DEF Owned, TypeOK
    <3>2. CASE UNCHANGED wp
      BY <2>4, <3>1, <3>2 DEF Owned, TypeOK
    <3>3. CASE wp' = [wp EXCEPT ![a] = w]
      <4>1. wp'[a] = w /\ \A b \in Attempts \ {a} : wp'[b] = wp[b]
        BY <3>3 DEF TypeOK
      <4>2. wpState'[w] = "open" /\ \A v \in WorkPackages \ {w} : wpState'[v] = wpState[v]
        BY <2>4 DEF TypeOK
      <4>3. \A b \in Attempts : wp[b] \in WorkPackages \cup {None}
        BY DEF TypeOK
      <4>4. QED BY <3>1, <4>1, <4>2, <4>3 DEF Owned
    <3>4. QED BY <2>4, <3>2, <3>3
  <2>5. ASSUME ~UNCHANGED gift
        PROVE  /\ posted' = posted /\ pc[a] = "creating"
               /\ \/ /\ pc' = [pc EXCEPT ![a] = "posting"]
                     /\ \E w \in WorkPackages : wp' = [wp EXCEPT ![a] = w]
                  \/ /\ pc' = [pc EXCEPT ![a] = "done"]
                     /\ \E w \in WorkPackages : wp' = [wp EXCEPT ![a] = w] \/ UNCHANGED wp
    BY <1>4, <2>5 DEF CreateWorkPackage, Finish
  <2>6. ASSUME ~UNCHANGED gift
        PROVE  /\ \A b \in Attempts :
                     pc'[b] \in {"received", "creating"} => wp'[b] = None /\ posted'[b] = 0
               /\ \A b \in Attempts :
                     pc'[b] \in {"posting", "deleting"} => posted'[b] <= Len(Plan(b))
    BY <2>2, <2>5, <2>6 DEF Owned, InWorkPackage, TypeOK
  <2>7. QED BY <1>4, <2>1, <2>3, <2>4, <2>6 DEF Owned, InWorkPackage, CreateWorkPackage
<1>5. ASSUME NEW a \in Attempts, PostEvent(a)
      PROVE  Owned'
  <2>1. \A b \in Attempts : Plan(b)' = Plan(b)
    BY <1>5, PlanStays DEF PostEvent, Throw
  <2>2. Len(Plan(a)) \in Nat
    BY PlanShape
  <2>3. QED BY <1>5, <2>1, <2>2
            DEF Owned, InWorkPackage, TypeOK, PostEvent, GiftTakes, AfterRefusal, Throw, Finish, gift
<1>6. ASSUME NEW a \in Attempts, DeleteWorkPackage(a)
      PROVE  Owned'
  <2>1. \A b \in Attempts : Plan(b)' = Plan(b)
    BY <1>6, PlanStays DEF DeleteWorkPackage, Throw
  <2>2. QED BY <1>6, <2>1
            DEF Owned, InWorkPackage, TypeOK, DeleteWorkPackage, GiftDeletes, Throw, Finish, gift
<1>7. ASSUME NEW a \in Attempts, ApproveWorkPackage(a)
      PROVE  Owned'
  <2>1. \A b \in Attempts : Plan(b)' = Plan(b)
    BY <1>7, PlanStays DEF ApproveWorkPackage, Throw
  <2>2. QED BY <1>7, <2>1
            DEF Owned, InWorkPackage, TypeOK, ApproveWorkPackage, GiftApproves, Throw, Finish, gift
<1>8. ASSUME NEW a \in Attempts, Crash(a)
      PROVE  Owned'
  <2>1. \A b \in Attempts : Plan(b)' = Plan(b)
    BY <1>8, PlanStays DEF Crash
  <2>2. QED BY <1>8, <2>1 DEF Owned, InWorkPackage, TypeOK, Crash, gift
<1>9. QED BY <1>1, <1>2, <1>4, <1>5, <1>6, <1>7, <1>8 DEF Next

\* What the calls have in common: only the caller's own place changes, and GIFT
\* changes at most the caller's work package.
LEMMA StepIsOwn ==
    ASSUME IInv, NEW a \in Attempts,
           \/ PostEvent(a) \/ DeleteWorkPackage(a) \/ ApproveWorkPackage(a)
    PROVE  /\ wp[a] \in WorkPackages
           /\ UNCHANGED <<wp, original>>
           /\ \A b \in Attempts : b # a =>
                /\ pc'[b] = pc[b] /\ posted'[b] = posted[b] /\ result'[b] = result[b]
           /\ \A w \in WorkPackages : w # wp[a] =>
                wpState'[w] = wpState[w] /\ events'[w] = events[w]
           /\ wpState[wp[a]] # "open" =>
                wpState'[wp[a]] = wpState[wp[a]] /\ events'[wp[a]] = events[wp[a]]
           /\ result[a] # "created"
<1>1. wp[a] \in WorkPackages
  BY DEF IInv, TypeOK, PostEvent, DeleteWorkPackage, ApproveWorkPackage
<1>2. result[a] # "created"
  BY DEF IInv, CreatedIsApproved, PostEvent, DeleteWorkPackage, ApproveWorkPackage
<1>3. CASE PostEvent(a)
  BY <1>1, <1>2, <1>3
     DEF IInv, TypeOK, PostEvent, GiftTakes, AfterRefusal, Throw, Finish, gift
<1>4. CASE DeleteWorkPackage(a)
  BY <1>1, <1>2, <1>4 DEF IInv, TypeOK, DeleteWorkPackage, GiftDeletes, Throw, Finish, gift
<1>5. CASE ApproveWorkPackage(a)
  BY <1>1, <1>2, <1>5 DEF IInv, TypeOK, ApproveWorkPackage, GiftApproves, Throw, Finish, gift
<1>6. QED BY <1>3, <1>4, <1>5

\* What the others have in common: they add no event to a work package.
LEMMA StepAddsNoEvent ==
    ASSUME IInv, NEW a \in Attempts,
           \/ GetFacility(a) \/ CreateWorkPackage(a) \/ Crash(a)
    PROVE  /\ UNCHANGED <<events, posted, facility>>
           /\ \A b \in Attempts : b # a =>
                /\ pc'[b] = pc[b] /\ wp'[b] = wp[b] /\ original'[b] = original[b]
                /\ result'[b] = result[b]
           /\ \A b \in Attempts : wp[b] # None =>
                /\ wp'[b] = wp[b] /\ wpState'[wp[b]] = wpState[wp[b]]
                /\ original'[b] = original[b]
           /\ pc[a] \in {"received", "creating"} => wp[a] = None /\ posted'[a] = 0
           /\ pc'[a] # pc[a]
           /\ result'[a] # "created"
<1>1. result[a] # "created"
  BY DEF IInv, CreatedIsApproved, GetFacility, CreateWorkPackage, Crash
<1>2. CASE GetFacility(a)
  BY <1>1, <1>2 DEF IInv, Owned, TypeOK, GetFacility, Finish, gift
<1>3. CASE Crash(a)
  BY <1>1, <1>3 DEF IInv, Owned, TypeOK, Crash, gift
<1>4. CASE CreateWorkPackage(a)
  <2>1. UNCHANGED <<events, posted, facility, original>>
    BY <1>4 DEF CreateWorkPackage, gift
  <2>2. /\ pc[a] = "creating" /\ pc'[a] \in {"posting", "done"} /\ result'[a] # "created"
        /\ \A b \in Attempts : b # a => pc'[b] = pc[b] /\ result'[b] = result[b]
    BY <1>1, <1>4 DEF IInv, TypeOK, CreateWorkPackage, Finish
  <2>3. wp[a] = None /\ posted[a] = 0
    BY <2>2 DEF IInv, Owned
  <2>4. \A b \in Attempts : b # a => wp'[b] = wp[b]
    BY <1>4 DEF IInv, TypeOK, CreateWorkPackage
  <2>5. \/ UNCHANGED wpState
        \/ \E w \in WorkPackages : /\ wpState[w] = "unused"
                                   /\ wpState' = [wpState EXCEPT ![w] = "open"]
    BY <1>4 DEF CreateWorkPackage, gift
  <2>6. \A b \in Attempts : wp[b] # None => wpState'[wp[b]] = wpState[wp[b]]
    BY <2>5 DEF IInv, Owned, TypeOK
  <2>7. QED BY <2>1, <2>2, <2>3, <2>4, <2>6
<1>5. QED BY <1>2, <1>3, <1>4

LEMMA StepEventful ==
    ASSUME IInv, [Next]_vars
    PROVE  Eventful'
<1> SUFFICES ASSUME NEW w \in WorkPackages, NEW b \in Attempts, NEW o \in Targets,
                    <<b, o>> \in events'[w]
             PROVE  wp'[b] = w /\ (pc'[b] \in {"posting", "deleting"} => Made(b, o)')
  BY DEF Eventful, InWorkPackage
<1>1. CASE UNCHANGED vars
  BY <1>1, PlanStays DEF IInv, Eventful, InWorkPackage, Made, vars
<1>2. ASSUME NEW a \in Attempts, GetFacility(a) \/ CreateWorkPackage(a) \/ Crash(a)
      PROVE  wp'[b] = w /\ (pc'[b] \in {"posting", "deleting"} => Made(b, o)')
  <2>1. wp[b] = w /\ (InWorkPackage(b) => Made(b, o))
    BY <1>2, StepAddsNoEvent DEF IInv, Eventful
  <2>2. wp'[b] = w /\ Plan(b)' = Plan(b) /\ posted'[b] = posted[b]
    BY <1>2, <2>1, StepAddsNoEvent, PlanStays, AmendmentAssumption
  <2>3. pc'[b] \in {"posting", "deleting"} => InWorkPackage(b)
    <3>1. CASE b # a
      BY <1>2, <3>1, StepAddsNoEvent DEF InWorkPackage
    <3>2. CASE b = a
      <4>1. pc[a] \notin {"received", "creating"}
        BY <2>1, <3>2, AmendmentAssumption DEF IInv, Owned
      <4>2. Crash(a)
        BY <1>2, <4>1 DEF GetFacility, CreateWorkPackage
      <4>3. QED BY <4>2, <3>2 DEF Crash, IInv, TypeOK
    <3>3. QED BY <3>1, <3>2
  <2>4. QED BY <2>1, <2>2, <2>3 DEF Made
<1>3. ASSUME NEW a \in Attempts, PostEvent(a) \/ DeleteWorkPackage(a) \/ ApproveWorkPackage(a),
             <<b, o>> \in events[w]
      PROVE  wp'[b] = w /\ (pc'[b] \in {"posting", "deleting"} => Made(b, o)')
  <2>1. wp[b] = w /\ (InWorkPackage(b) => Made(b, o))
    BY <1>3 DEF IInv, Eventful
  <2>2. wp'[b] = w /\ Plan(b)' = Plan(b)
    BY <1>3, <2>1, StepIsOwn, PlanStays
  <2>3. posted[b] \in Nat /\ posted'[b] \in {posted[b], posted[b] + 1}
    BY <1>3, StepIsOwn DEF IInv, TypeOK, PostEvent, DeleteWorkPackage, ApproveWorkPackage,
                           Throw, Finish
  <2>4. pc'[b] \in {"posting", "deleting"} => InWorkPackage(b)
    BY <1>3, StepIsOwn DEF InWorkPackage, PostEvent, DeleteWorkPackage, ApproveWorkPackage
  <2>5. QED BY <2>1, <2>2, <2>3, <2>4 DEF Made
<1>4. ASSUME NEW a \in Attempts, PostEvent(a) \/ DeleteWorkPackage(a) \/ ApproveWorkPackage(a),
             <<b, o>> \notin events[w]
      PROVE  wp'[b] = w /\ (pc'[b] \in {"posting", "deleting"} => Made(b, o)')
  <2>1. PostEvent(a) /\ GiftTakes(a, NextTarget(a))
    BY <1>4, StepIsOwn
       DEF IInv, TypeOK, PostEvent, DeleteWorkPackage, GiftDeletes, ApproveWorkPackage,
           GiftApproves, Throw, gift
  <2>2. w = wp[a] /\ b = a /\ o = NextTarget(a)
    BY <1>4, <2>1, StepIsOwn DEF IInv, TypeOK, GiftTakes
  <2>3. wp'[b] = w /\ Plan(b)' = Plan(b)
    BY <1>4, <2>2, StepIsOwn, PlanStays
  <2>4. pc'[b] \in {"posting", "deleting"} => posted'[a] = posted[a] + 1
    BY <2>1, <2>2 DEF IInv, TypeOK, PostEvent, Throw, Finish
  <2>5. QED BY <2>2, <2>3, <2>4 DEF Made, NextTarget, IInv, TypeOK
<1>5. QED BY <1>1, <1>2, <1>3, <1>4 DEF Next

\* After a refusal of the amount nothing but the deletion is called.
LEMMA StepAmountTaken ==
    ASSUME IInv, [Next]_vars
    PROVE  AmountTaken'
<1> SUFFICES ASSUME NEW b \in Attempts,
                    pc'[b] = "posting", wpState'[wp'[b]] = "open",
                    KindOf[b] \in AmountKinds, Made(b, FacilityEvent)'
             PROVE  <<b, FacilityEvent>> \in events'[wp'[b]]
  BY DEF AmountTaken
<1>1. CASE UNCHANGED vars
  BY <1>1, PlanStays DEF IInv, AmountTaken, Made, vars
<1>2. ASSUME NEW a \in Attempts, GetFacility(a) \/ CreateWorkPackage(a) \/ Crash(a)
      PROVE  <<b, FacilityEvent>> \in events'[wp'[b]]
  <2>1. posted'[b] # 0
    BY DEF Made
  <2>2. b # a
    <3>1. CASE Crash(a)
      BY <3>1 DEF Crash, IInv, TypeOK
    <3>2. CASE GetFacility(a) \/ CreateWorkPackage(a)
      BY <3>2, <2>1, StepAddsNoEvent DEF GetFacility, CreateWorkPackage
    <3>3. QED BY <1>2, <3>1, <3>2
  <2>3. /\ pc[b] = "posting" /\ wp'[b] = wp[b] /\ posted'[b] = posted[b]
        /\ Plan(b)' = Plan(b) /\ events'[wp[b]] = events[wp[b]]
    BY <1>2, <2>2, StepAddsNoEvent, PlanStays
  <2>4. wp[b] # None
    BY <2>3 DEF IInv, TypeOK
  <2>5. wpState[wp[b]] = "open"
    BY <1>2, <2>3, <2>4, StepAddsNoEvent
  <2>6. QED BY <2>3, <2>5 DEF IInv, AmountTaken, Made
<1>3. ASSUME NEW a \in Attempts, PostEvent(a) \/ DeleteWorkPackage(a) \/ ApproveWorkPackage(a),
             b # a
      PROVE  <<b, FacilityEvent>> \in events'[wp'[b]]
  <2>1. /\ pc[b] = "posting" /\ wp'[b] = wp[b] /\ posted'[b] = posted[b]
        /\ Plan(b)' = Plan(b)
    BY <1>3, StepIsOwn, PlanStays
  <2>2. wp[b] \in WorkPackages /\ wp[b] # wp[a]
    BY <1>3, <2>1, StepIsOwn DEF IInv, TypeOK, Owned
  <2>3. wpState'[wp[b]] = wpState[wp[b]] /\ events'[wp[b]] = events[wp[b]]
    BY <1>3, <2>2, StepIsOwn
  <2>4. QED BY <2>1, <2>3 DEF IInv, AmountTaken, Made
<1>4. ASSUME PostEvent(b)
      PROVE  <<b, FacilityEvent>> \in events'[wp'[b]]
  <2>1. /\ wp'[b] = wp[b] /\ wp[b] \in WorkPackages /\ Plan(b)' = Plan(b)
        /\ pc[b] = "posting" /\ posted'[b] = posted[b] + 1
    BY <1>4, StepIsOwn, PlanStays DEF PostEvent, Throw, Finish, IInv, TypeOK
  <2>2. CASE NextTarget(b) = FacilityEvent
    <3>1. GiftTakes(b, NextTarget(b))
      BY <1>4, <2>2 DEF PostEvent, AfterRefusal, Throw, Finish, IInv, TypeOK
    <3>2. QED BY <2>1, <2>2, <3>1 DEF GiftTakes, IInv, TypeOK
  <2>3. CASE NextTarget(b) # FacilityEvent
    <3>1. Made(b, FacilityEvent)
      BY <2>1, <2>3 DEF Made, NextTarget, IInv, TypeOK
    <3>2. wpState[wp[b]] = "open" /\ events[wp[b]] \subseteq events'[wp[b]]
      BY <1>4, <2>1 DEF PostEvent, GiftTakes, gift, IInv, TypeOK
    <3>3. QED BY <2>1, <3>1, <3>2 DEF IInv, AmountTaken
  <2>4. QED BY <2>2, <2>3
<1>5. ASSUME DeleteWorkPackage(b)
      PROVE  FALSE
  BY <1>5, StepIsOwn DEF DeleteWorkPackage, GiftDeletes, Throw, Finish, IInv, TypeOK
<1>6. ASSUME ApproveWorkPackage(b)
      PROVE  FALSE
  BY <1>6 DEF ApproveWorkPackage, Throw, Finish, IInv, TypeOK
<1>7. QED BY <1>1, <1>2, <1>3, <1>4, <1>5, <1>6 DEF Next

LEMMA StepCreatedIsApproved ==
    ASSUME IInv, [Next]_vars
    PROVE  CreatedIsApproved'
<1> SUFFICES ASSUME NEW b \in Attempts, result'[b] = "created"
             PROVE  /\ pc'[b] = "done" /\ wp'[b] # None /\ wpState'[wp'[b]] = "approved"
                    /\ KindOf[b] \in AmountKinds => <<b, FacilityEvent>> \in events'[wp'[b]]
  BY DEF CreatedIsApproved
<1>1. CASE UNCHANGED vars
  BY <1>1 DEF IInv, CreatedIsApproved, vars
<1>2. ASSUME NEW a \in Attempts, GetFacility(a) \/ CreateWorkPackage(a) \/ Crash(a)
      PROVE  /\ pc'[b] = "done" /\ wp'[b] # None /\ wpState'[wp'[b]] = "approved"
             /\ KindOf[b] \in AmountKinds => <<b, FacilityEvent>> \in events'[wp'[b]]
  <2>1. b # a
    BY <1>2, StepAddsNoEvent
  <2>2. QED BY <1>2, <2>1, StepAddsNoEvent DEF IInv, CreatedIsApproved
<1>3. ASSUME NEW a \in Attempts, PostEvent(a) \/ DeleteWorkPackage(a) \/ ApproveWorkPackage(a),
             b # a
      PROVE  /\ pc'[b] = "done" /\ wp'[b] # None /\ wpState'[wp'[b]] = "approved"
             /\ KindOf[b] \in AmountKinds => <<b, FacilityEvent>> \in events'[wp'[b]]
  <2>1. /\ result[b] = "created" /\ pc'[b] = pc[b] /\ wp'[b] = wp[b]
    BY <1>3, StepIsOwn
  <2>2. wp[b] \in WorkPackages /\ wp[b] # wp[a]
    <3>1. wp[b] # None
      BY <2>1 DEF IInv, CreatedIsApproved
    <3>2. QED BY <1>3, <3>1 DEF IInv, TypeOK, Owned
  <2>3. QED BY <1>3, <2>1, <2>2, StepIsOwn DEF IInv, CreatedIsApproved
<1>4. ASSUME PostEvent(b) \/ DeleteWorkPackage(b)
      PROVE  FALSE
  BY <1>4, StepIsOwn DEF PostEvent, DeleteWorkPackage, Throw, Finish, IInv, TypeOK
<1>5. ASSUME ApproveWorkPackage(b)
      PROVE  /\ pc'[b] = "done" /\ wp'[b] # None /\ wpState'[wp'[b]] = "approved"
             /\ KindOf[b] \in AmountKinds => <<b, FacilityEvent>> \in events'[wp'[b]]
  <2>1. /\ wp'[b] = wp[b] /\ wp[b] \in WorkPackages
        /\ pc[b] = "posting" /\ posted[b] = Len(Plan(b))
    BY <1>5, StepIsOwn DEF ApproveWorkPackage
  <2>2. GiftApproves(wp[b]) /\ pc'[b] = "done"
    BY <1>5, StepIsOwn DEF ApproveWorkPackage, Throw, Finish, IInv, TypeOK
  <2>3. Made(b, FacilityEvent)
    BY <2>1, PlanShape DEF Made
  <2>4. QED BY <2>1, <2>2, <2>3, AmendmentAssumption
            DEF IInv, TypeOK, AmountTaken, GiftApproves
<1>6. QED BY <1>1, <1>2, <1>3, <1>4, <1>5 DEF Next

\* The inductive invariant holds for any attempts, facilities and amendments,
\* overlapping or not.
THEOREM Inductive == Spec => []IInv
<1>1. IInv /\ [Next]_vars => IInv'
  BY StepTypeOK, StepOwned, StepEventful, StepAmountTaken, StepCreatedIsApproved DEF IInv
<1>2. QED BY InitInv, <1>1, PTL DEF Spec

\* The variables of an amendment keep their types: a plan never runs past its
\* end, and no event is posted without a work package.
THEOREM TypeCorrect == Spec => []TypeOK
<1>1. IInv => TypeOK
  BY DEF IInv
<1>2. QED BY Inductive, <1>1, PTL

\* An amount amendment answered 201 is one whose amount GIFT has approved,
\* whatever it refused in between.
THEOREM CreatedAmount == Spec => []CreatedHasNewAmount
<1>1. IInv => CreatedHasNewAmount
  BY DEF IInv, CreatedIsApproved, CreatedHasNewAmount, Holds
<1>2. QED BY Inductive, <1>1, PTL

-----------------------------------------------------------------------------
(* The order of the calls, one attempt at a time.                          *)

Active(a) == pc[a] \in {"creating", "posting", "deleting"}

Alone == \A a, b \in Attempts : Active(a) /\ Active(b) => a = b

\* What was read of the facility still holds.
Current == \A a \in Attempts : Active(a) => original[a] = facility.expiry

\* GIFT takes an increase that is one.
Raised ==
    \A a \in Attempts :
        /\ pc[a] = "posting" /\ KindOf[a] = "IncreaseAmount"
        /\ <<a, FacilityEvent>> \in events[wp[a]]
        => NewValue[a] > facility.amount

SerialInv == IInv /\ Alone /\ Current /\ Raised

\* What holds of one attempt at a time holds at first.
THEOREM InitSerialInv == Init => SerialInv
BY InitInv DEF SerialInv, Init, Alone, Current, Raised, Active

\* What an attempt amends is what its own events say.
LEMMA AmendedByOwner ==
    ASSUME IInv, NEW a \in Attempts, wp[a] \in WorkPackages,
           NEW kinds, NEW targets \in SUBSET Targets, NEW old
    PROVE  /\ KindOf[a] \in kinds /\ (\E o \in targets : <<a, o>> \in events[wp[a]])
              => Amended(wp[a], kinds, targets, old) = NewValue[a]
           /\ KindOf[a] \notin kinds \/ (\A o \in targets : <<a, o>> \notin events[wp[a]])
              => Amended(wp[a], kinds, targets, old) = old
<1>1. \A b \in Attempts, o \in targets : <<b, o>> \in events[wp[a]] => b = a
  BY AmendmentAssumption DEF IInv, Eventful, Owned
<1>2. ASSUME KindOf[a] \in kinds, \E o \in targets : <<a, o>> \in events[wp[a]]
      PROVE  Amended(wp[a], kinds, targets, old) = NewValue[a]
  <2>1. Amenders(wp[a], kinds, targets) = {a}
    BY <1>1, <1>2 DEF Amenders
  <2>2. (CHOOSE b \in {a} : TRUE) = a
    OBVIOUS
  <2>3. QED BY <2>1, <2>2 DEF Amended
<1>3. ASSUME KindOf[a] \notin kinds \/ \A o \in targets : <<a, o>> \notin events[wp[a]]
      PROVE  Amended(wp[a], kinds, targets, old) = old
  <2>1. Amenders(wp[a], kinds, targets) = {}
    BY <1>1, <1>3 DEF Amenders
  <2>2. QED BY <2>1 DEF Amended
<1>4. QED BY <1>2, <1>3

\* The draft of an attempt's work package: the facility.
LEMMA DraftOfFacility ==
    ASSUME IInv, NEW a \in Attempts, wp[a] \in WorkPackages
    PROVE  LET Has(t) == <<a, t>> \in events[wp[a]]
               draft == Draft(wp[a])
           IN  /\ draft.amount = IF KindOf[a] \in AmountKinds /\ Has(FacilityEvent)
                                 THEN NewValue[a] ELSE facility.amount
               /\ draft.expiry = IF KindOf[a] \in ExpiryKinds /\ Has(FacilityEvent)
                                 THEN NewValue[a] ELSE facility.expiry
<1> DEFINE Has(t) == <<a, t>> \in events[wp[a]]
<1>1. ASSUME NEW kinds, NEW targets \in SUBSET Targets, NEW old
      PROVE  /\ KindOf[a] \in kinds /\ (\E t \in targets : Has(t))
                => Amended(wp[a], kinds, targets, old) = NewValue[a]
             /\ KindOf[a] \notin kinds \/ (\A t \in targets : ~Has(t))
                => Amended(wp[a], kinds, targets, old) = old
  BY AmendedByOwner
<1>2. {FacilityEvent} \in SUBSET Targets
  BY DEF Targets
<1>3. QED BY <1>1, <1>2 DEF Draft

\* The draft of an attempt's work package: an obligation.
LEMMA DraftOfObligation ==
    ASSUME IInv, NEW a \in Attempts, wp[a] \in WorkPackages, NEW o \in ObligationIds
    PROVE  LET Has(t) == <<a, t>> \in events[wp[a]]
               draft == Draft(wp[a])
           IN  /\ draft.share[o] = IF KindOf[a] \in AmountKinds /\ Has(o)
                                   THEN CalculatePercentageAmount(NewValue[a], Percentage)
                                   ELSE facility.share[o]
               /\ draft.maturity[o] =
                      IF KindOf[a] \in ExpiryKinds /\ (Has(o) \/ (Follows[o] /\ Has(FacilityEvent)))
                      THEN NewValue[a] ELSE facility.maturity[o]
<1> DEFINE Has(t) == <<a, t>> \in events[wp[a]]
<1>1. ASSUME NEW kinds, NEW targets \in SUBSET Targets, NEW old
      PROVE  /\ KindOf[a] \in kinds /\ (\E t \in targets : Has(t))
                => Amended(wp[a], kinds, targets, old) = NewValue[a]
             /\ KindOf[a] \notin kinds \/ (\A t \in targets : ~Has(t))
                => Amended(wp[a], kinds, targets, old) = old
  BY AmendedByOwner
<1>2. {o} \in SUBSET Targets /\ Movers(o) \in SUBSET Targets
  BY DEF Targets, Movers
<1>3. Draft(wp[a]).share[o] = IF KindOf[a] \in AmountKinds /\ Has(o)
                              THEN CalculatePercentageAmount(NewValue[a], Percentage)
                              ELSE facility.share[o]
  <2>1. Draft(wp[a]).share[o] =
            IF Amenders(wp[a], AmountKinds, {o}) = {} THEN facility.share[o]
            ELSE CalculatePercentageAmount(Amended(wp[a], AmountKinds, {o}, 0), Percentage)
    BY DEF Draft
  <2>2. CASE KindOf[a] \in AmountKinds /\ Has(o)
    <3>1. Amended(wp[a], AmountKinds, {o}, 0) = NewValue[a]
      BY <1>1, <1>2, <2>2
    <3>2. a \in Amenders(wp[a], AmountKinds, {o})
      BY <2>2 DEF Amenders
    <3>3. QED BY <2>1, <2>2, <3>1, <3>2
  <2>3. CASE ~(KindOf[a] \in AmountKinds /\ Has(o))
    <3>1. Amenders(wp[a], AmountKinds, {o}) = {}
      BY <2>3, AmendmentAssumption DEF Amenders, IInv, Eventful, Owned, Targets
    <3>2. QED BY <2>1, <2>3, <3>1
  <2>4. QED BY <2>2, <2>3
<1>4. Draft(wp[a]).maturity[o] =
          IF KindOf[a] \in ExpiryKinds /\ (Has(o) \/ (Follows[o] /\ Has(FacilityEvent)))
          THEN NewValue[a] ELSE facility.maturity[o]
  <2>1. Draft(wp[a]).maturity[o] = Amended(wp[a], ExpiryKinds, Movers(o), facility.maturity[o])
    BY DEF Draft
  <2>2. (\E t \in Movers(o) : Has(t)) <=> (Has(o) \/ (Follows[o] /\ Has(FacilityEvent)))
    BY DEF Movers
  <2>3. QED BY <1>1, <1>2, <2>1, <2>2
<1>5. QED BY <1>3, <1>4

LEMMA StepSerial ==
    ASSUME SerialInv, [Next]_vars, Serial
    PROVE  Alone' /\ Current' /\ Raised'
<1> USE DEF SerialInv
<1>1. CASE UNCHANGED vars
  BY <1>1 DEF Alone, Current, Raised, Active, vars
<1>2. ASSUME NEW a \in Attempts, GetFacility(a)
      PROVE  Alone' /\ Current' /\ Raised'
  <2>1. /\ \A b \in Attempts : ~Active(b)
        /\ \A b \in Attempts \ {a} : pc'[b] = pc[b]
        /\ pc'[a] \in {"creating", "done"}
        /\ pc'[a] = "creating" => original'[a] = facility.expiry
        /\ UNCHANGED <<wp, facility, events>>
    BY <1>2 DEF GetFacility, Active, IInv, TypeOK, Finish, gift
  <2>2. QED BY <2>1 DEF Alone, Current, Raised, Active
<1>3. ASSUME NEW a \in Attempts, CreateWorkPackage(a) \/ Crash(a)
      PROVE  Alone' /\ Current' /\ Raised'
  <2>1. /\ \A b \in Attempts \ {a} : pc'[b] = pc[b]
        /\ Active(a)
        /\ UNCHANGED <<facility, events, original>>
    BY <1>3, StepAddsNoEvent
       DEF CreateWorkPackage, Crash, Active, IInv, TypeOK, gift
  <2>2. pc'[a] = "posting" => \A w \in WorkPackages : <<a, FacilityEvent>> \notin events[w]
    <3>1. pc'[a] = "posting" => wp[a] = None
      BY <1>3, StepAddsNoEvent DEF CreateWorkPackage, Crash, IInv, TypeOK
    <3>2. QED BY <3>1, AmendmentAssumption DEF IInv, Eventful, Targets
  <2>3. pc'[a] = "posting" => wp'[a] \in WorkPackages
    BY <1>3, StepTypeOK DEF TypeOK, Next
  <2>4. \A b \in Attempts \ {a} : ~Active(b)
    BY <2>1 DEF Alone
  <2>5. QED BY <2>1, <2>2, <2>3, <2>4 DEF Alone, Current, Raised, Active
<1>4. ASSUME NEW a \in Attempts, PostEvent(a) \/ DeleteWorkPackage(a)
      PROVE  Alone' /\ Current' /\ Raised'
  <2>1. /\ \A b \in Attempts \ {a} : pc'[b] = pc[b] /\ ~Active(b)
        /\ Active(a) /\ wp[a] \in WorkPackages
        /\ UNCHANGED <<wp, facility, original>>
    BY <1>4, StepIsOwn
       DEF PostEvent, DeleteWorkPackage, GiftTakes, GiftDeletes, Throw, Active, Alone, gift
  <2>2. ASSUME pc'[a] = "posting", KindOf[a] = "IncreaseAmount",
               <<a, FacilityEvent>> \in events'[wp[a]]
        PROVE  NewValue[a] > facility.amount
    <3>1. CASE <<a, FacilityEvent>> \in events[wp[a]]
      <4>1. pc[a] = "posting"
        BY <1>4, <2>1, <2>2, <3>1
           DEF PostEvent, DeleteWorkPackage, GiftDeletes, Throw, Finish, IInv, TypeOK
      <4>2. QED BY <4>1, <2>2, <3>1 DEF Raised
    <3>2. CASE <<a, FacilityEvent>> \notin events[wp[a]]
      <4>1. PostEvent(a) /\ GiftTakes(a, NextTarget(a)) /\ NextTarget(a) = FacilityEvent
        BY <1>4, <2>1, <2>2, <3>2
           DEF PostEvent, DeleteWorkPackage, GiftDeletes, GiftTakes, Throw, gift, IInv, TypeOK
      <4>2. NewValue[a] > Draft(wp[a]).amount
        BY <4>1, <2>2 DEF GiftTakes
      <4>3. Draft(wp[a]).amount = facility.amount
        BY <2>1, <3>2, DraftOfFacility
      <4>4. QED BY <4>2, <4>3
    <3>3. QED BY <3>1, <3>2
  <2>3. QED BY <2>1, <2>2 DEF Alone, Current, Raised, Active
<1>5. ASSUME NEW a \in Attempts, ApproveWorkPackage(a)
      PROVE  Alone' /\ Current' /\ Raised'
  <2>1. /\ \A b \in Attempts \ {a} : pc'[b] = pc[b] /\ ~Active(b)
        /\ pc'[a] = "done"
    BY <1>5, StepIsOwn
       DEF ApproveWorkPackage, Throw, Finish, Active, Alone, IInv, TypeOK
  <2>2. QED BY <2>1 DEF Alone, Current, Raised, Active
<1>6. QED BY <1>1, <1>2, <1>3, <1>4, <1>5 DEF Next

\* What a plan says of the order: the facility before an obligation, or after.
LEMMA PlanOrder ==
    ASSUME TypeOK, NEW a \in Attempts
    PROVE  \/ Plan(a) = <<FacilityEvent>> /\ KindOf[a] \in ExpiryKinds /\ ~SomeDoNotFollow
           \/ /\ Plan(a) = FacilityFirst
              /\ KindOf[a] = "IncreaseAmount" \/
                 (KindOf[a] \in ExpiryKinds /\ NewValue[a] >= original[a])
           \/ /\ Plan(a) = ObligationsFirst
              /\ KindOf[a] = "DecreaseAmount" \/
                 (KindOf[a] \in ExpiryKinds /\ NewValue[a] < original[a])
BY AmendmentAssumption DEF Plan, AmountKinds, ExpiryKinds, TypeOK

\* What an attempt has posted is in its work package, or was refused.
LEMMA MadeOrRefused ==
    ASSUME IInv, NEW a \in Attempts, wp[a] \in WorkPackages, NEW o \in Targets,
           Made(a, o), ~Refused(a, o)
    PROVE  <<a, o>> \in events[wp[a]]
<1>1. PICK b \in Attempts : <<b, o>> \in events[wp[a]]
  BY DEF Refused, Made, Holds
<1>2. b = a
  BY <1>1, AmendmentAssumption DEF IInv, Eventful, Owned
<1>3. QED BY <1>1, <1>2

\* The facility first: when an obligation has been posted, it has.
LEMMA FacilityBeforeObligation ==
    ASSUME NEW a \in Attempts, posted[a] \in Nat, Plan(a) = FacilityFirst,
           NEW o \in ObligationIds, Made(a, o)
    PROVE  Made(a, FacilityEvent)
<1>1. PICK i \in 1..posted[a] : Plan(a)[i] = o
  BY DEF Made
<1>2. 1 \in 1..posted[a]
  BY <1>1
<1>3. Plan(a)[1] = FacilityEvent
  BY OrdersAreSequences DEF FacilityFirst, FacilityEvent
<1>4. QED BY <1>2, <1>3 DEF Made

\* The obligations first: when the facility has been posted, they have.
LEMMA ObligationBeforeFacility ==
    ASSUME NEW a \in Attempts, posted[a] \in Nat, posted[a] <= Len(Plan(a)),
           Plan(a) = ObligationsFirst, Made(a, FacilityEvent), NEW o \in ObligationIds
    PROVE  Made(a, o)
<1>1. PICK i \in 1..posted[a] : ObligationsFirst[i] = FacilityEvent
  BY DEF Made
<1>2. \A j \in 1..(Len(Follows) + 1) :
        ObligationsFirst[j] = IF j <= Len(Follows) THEN j ELSE FacilityEvent
  BY DEF ObligationsFirst
<1>3. i = Len(Follows) + 1
  BY <1>1, <1>2, OrdersAreSequences DEF FacilityEvent
<1>4. o \in 1..posted[a] /\ ObligationsFirst[o] = o
  BY <1>2, <1>3, OrdersAreSequences DEF ObligationIds
<1>5. QED BY <1>4 DEF Made

LEMMA SerialInvImpliesDraft ==
    ASSUME SerialInv
    PROVE  DraftWithinFacility
<1> SUFFICES ASSUME NEW a \in Attempts, pc[a] = "posting", wpState[wp[a]] = "open",
                    IsDecrease(a), NEW o \in ObligationIds,
                    ~Exceeds(facility, o), ~Refused(a, o), ~Refused(a, FacilityEvent)
             PROVE  ~Exceeds(Draft(wp[a]), o)
  BY DEF DraftWithinFacility
<1> DEFINE new == NewValue[a]
           Has(t) == <<a, t>> \in events[wp[a]]
<1>1. /\ wp[a] \in WorkPackages /\ new \in Nat /\ posted[a] \in Nat
      /\ posted[a] <= Len(Plan(a)) /\ original[a] = facility.expiry
      /\ facility.amount \in Nat /\ facility.expiry \in Nat
      /\ facility.share[o] \in Nat /\ facility.maturity[o] \in Nat
      /\ facility.share[o] <= facility.amount /\ facility.maturity[o] <= facility.expiry
  BY AmendmentAssumption
     DEF SerialInv, IInv, TypeOK, Owned, InWorkPackage, Current, Active, Exceeds, Facilities
<1>2. \A t \in Targets : Has(t) => Made(a, t)
  BY <1>1 DEF SerialInv, IInv, Eventful, InWorkPackage
<1>3. Made(a, FacilityEvent) => Has(FacilityEvent)
  BY <1>1, MadeOrRefused DEF SerialInv, Targets
<1>4. Made(a, o) => Has(o)
  BY <1>1, MadeOrRefused DEF SerialInv, Targets
<1>5. CalculatePercentageAmount(new, Percentage) \in Nat
      /\ CalculatePercentageAmount(new, Percentage) <= new
  BY <1>1, ShareWithinAmount, AmendmentAssumption
<1>6. Plan(a) = FacilityFirst /\ Has(o) => Has(FacilityEvent)
  BY <1>1, <1>2, <1>3, FacilityBeforeObligation DEF Targets
<1>7. Plan(a) = ObligationsFirst /\ Has(FacilityEvent) => Has(o)
  BY <1>1, <1>2, <1>4, ObligationBeforeFacility DEF Targets
<1>8. KindOf[a] \in ExpiryKinds => KindOf[a] \notin AmountKinds
  BY DEF ExpiryKinds, AmountKinds
<1>9. CASE KindOf[a] \in AmountKinds
  <2>1. /\ Draft(wp[a]).expiry = facility.expiry
        /\ Draft(wp[a]).maturity[o] = facility.maturity[o]
    BY <1>1, <1>8, <1>9, DraftOfFacility, DraftOfObligation DEF SerialInv
  <2>2. /\ Draft(wp[a]).amount = IF Has(FacilityEvent) THEN new ELSE facility.amount
        /\ Draft(wp[a]).share[o] = IF Has(o) THEN CalculatePercentageAmount(new, Percentage)
                                   ELSE facility.share[o]
    BY <1>1, <1>9, DraftOfFacility, DraftOfObligation DEF SerialInv
  <2>3. CASE KindOf[a] = "IncreaseAmount"
    <3>1. Plan(a) = FacilityFirst
      BY <2>3 DEF Plan, ExpiryKinds
    <3>2. Has(FacilityEvent) => new > facility.amount
      BY <2>3 DEF SerialInv, Raised
    <3>3. QED BY <1>1, <1>5, <1>6, <2>1, <2>2, <3>1, <3>2 DEF Exceeds
  <2>4. CASE KindOf[a] = "DecreaseAmount"
    <3>1. Plan(a) = ObligationsFirst
      BY <2>4 DEF Plan, ExpiryKinds
    <3>2. new < facility.amount
      BY <2>4 DEF IsDecrease
    <3>3. QED BY <1>1, <1>5, <1>7, <2>1, <2>2, <3>1, <3>2 DEF Exceeds
  <2>5. QED BY <1>9, <2>3, <2>4 DEF AmountKinds
<1>10. CASE KindOf[a] \in ExpiryKinds
  <2>1. /\ Draft(wp[a]).amount = facility.amount
        /\ Draft(wp[a]).share[o] = facility.share[o]
    BY <1>1, <1>8, <1>10, DraftOfFacility, DraftOfObligation DEF SerialInv
  <2>2. /\ Draft(wp[a]).expiry = IF Has(FacilityEvent) THEN new ELSE facility.expiry
        /\ Draft(wp[a]).maturity[o] =
               IF Has(o) \/ (Follows[o] /\ Has(FacilityEvent)) THEN new
               ELSE facility.maturity[o]
    BY <1>1, <1>10, DraftOfFacility, DraftOfObligation DEF SerialInv
  <2>3. CASE Plan(a) = <<FacilityEvent>> /\ ~SomeDoNotFollow
    <3>1. Follows[o]
      BY <2>3, AmendmentAssumption DEF SomeDoNotFollow, ObligationIds
    <3>2. ~Has(o)
      <4>1. ~Made(a, o)
        BY <1>1, <2>3 DEF Made, FacilityEvent, ObligationIds
      <4>2. QED BY <4>1, <1>2 DEF Targets
    <3>3. QED BY <1>1, <2>1, <2>2, <3>1, <3>2 DEF Exceeds
  <2>4. CASE Plan(a) = FacilityFirst /\ new >= facility.expiry
    BY <1>1, <1>6, <2>1, <2>2, <2>4 DEF Exceeds
  <2>5. CASE Plan(a) = ObligationsFirst /\ new < facility.expiry
    BY <1>1, <1>7, <2>1, <2>2, <2>5 DEF Exceeds
  <2>6. QED BY <1>1, <1>8, <1>10, <2>3, <2>4, <2>5, PlanOrder
            DEF SerialInv, IInv, AmountKinds
<1>11. QED BY <1>9, <1>10, AmendmentAssumption

\* When one amendment ends before another begins, the order of the calls keeps
\* the obligations within their facility at every point, for any facility,
\* obligations, percentage and amendments.
THEOREM OrderKeepsWithin == ASSUME Serial PROVE Spec => []DraftWithinFacility
<1>1. SerialInv /\ [Next]_vars => SerialInv'
  BY StepSerial, StepTypeOK, StepOwned, StepEventful, StepAmountTaken,
     StepCreatedIsApproved DEF SerialInv, IInv
<1>2. SerialInv => DraftWithinFacility
  BY SerialInvImpliesDraft
<1>3. QED BY InitSerialInv, <1>1, <1>2, PTL DEF Spec

-----------------------------------------------------------------------------
(* The contract.                                                           *)

Unanswered == \A a \in Attempts : pc[a] # "done" => result[a] = "none"

LEMMA StepUnanswered ==
    ASSUME TypeOK, Unanswered, [Next]_vars
    PROVE  Unanswered'
<1>1. CASE UNCHANGED vars
  BY <1>1 DEF Unanswered, vars
<1>2. ASSUME NEW a \in Attempts, GetFacility(a) \/ CreateWorkPackage(a)
      PROVE  Unanswered'
  BY <1>2 DEF TypeOK, Unanswered, GetFacility, CreateWorkPackage, Finish
<1>3. ASSUME NEW a \in Attempts, PostEvent(a) \/ DeleteWorkPackage(a) \/ ApproveWorkPackage(a)
      PROVE  Unanswered'
  BY <1>3 DEF TypeOK, Unanswered, PostEvent, DeleteWorkPackage, ApproveWorkPackage,
              AfterRefusal, Throw, Finish
<1>4. ASSUME NEW a \in Attempts, Crash(a)
      PROVE  Unanswered'
  BY <1>4 DEF TypeOK, Unanswered, Crash
<1>5. QED BY <1>1, <1>2, <1>3, <1>4 DEF Next

\* What is approved when all calls have been made is the amendment asked for.
LEMMA DraftIsAmendment ==
    ASSUME IInv, NEW a \in Attempts, wp[a] \in WorkPackages,
           pc[a] = "posting", wpState[wp[a]] = "open", posted[a] = Len(Plan(a))
    PROVE  AmendedTo(a, facility, Draft(wp[a]))
<1> DEFINE Has(t) == <<a, t>> \in events[wp[a]]
           draft == Draft(wp[a])
<1>1. draft \in Facilities
  BY DraftIsFacility DEF IInv, TypeOK
<1>2. /\ draft.amount = IF KindOf[a] \in AmountKinds /\ Has(FacilityEvent)
                        THEN NewValue[a] ELSE facility.amount
      /\ draft.expiry = IF KindOf[a] \in ExpiryKinds /\ Has(FacilityEvent)
                        THEN NewValue[a] ELSE facility.expiry
  BY DraftOfFacility
<1>3. \A o \in ObligationIds :
         /\ draft.share[o] = IF KindOf[a] \in AmountKinds /\ Has(o)
                             THEN CalculatePercentageAmount(NewValue[a], Percentage)
                             ELSE facility.share[o]
         /\ draft.maturity[o] =
                IF KindOf[a] \in ExpiryKinds /\ (Has(o) \/ (Follows[o] /\ Has(FacilityEvent)))
                THEN NewValue[a] ELSE facility.maturity[o]
  BY DraftOfObligation
<1>4. KindOf[a] \in AmountKinds => Has(FacilityEvent) /\ KindOf[a] \notin ExpiryKinds
  <2>1. Made(a, FacilityEvent)
    BY PlanShape DEF Made
  <2>2. QED BY <2>1 DEF IInv, AmountTaken, AmountKinds, ExpiryKinds
<1> HIDE DEF draft, Has
<1>5. /\ draft.maturity \in [ObligationIds -> Nat] /\ draft.share \in [ObligationIds -> Nat]
      /\ facility.maturity \in [ObligationIds -> Nat] /\ facility.share \in [ObligationIds -> Nat]
  BY <1>1 DEF IInv, TypeOK, Facilities
<1>6. KindOf[a] \in AmountKinds => draft.maturity = facility.maturity
  <2>1. KindOf[a] \in AmountKinds =>
          \A o \in ObligationIds : draft.maturity[o] = facility.maturity[o]
    BY <1>3, <1>4
  <2>2. QED BY <1>5, <2>1
<1>7. KindOf[a] \in ExpiryKinds => KindOf[a] \notin AmountKinds /\ draft.share = facility.share
  <2>1. KindOf[a] \in ExpiryKinds => KindOf[a] \notin AmountKinds
    BY DEF AmountKinds, ExpiryKinds
  <2>2. KindOf[a] \in ExpiryKinds =>
          \A o \in ObligationIds : draft.share[o] = facility.share[o]
    BY <1>3, <2>1
  <2>3. QED BY <1>5, <2>1, <2>2
<1>8. QED
  <2>1. AmendedTo(a, facility, draft)
    BY <1>1, <1>2, <1>3, <1>4, <1>6, <1>7 DEF AmendedTo
  <2>2. QED BY <2>1 DEF draft

\* Overlapping or not, the calls of an attempt implement an amendment in one
\* step: GIFT shows it whole or not at all, and it changes nothing else.
THEOREM AmendmentIsOneStep == Spec => AmendmentContract
<1>1. Init => Unanswered /\ Contract!AmendmentsInit
  BY DEF Init, Unanswered, Contract!AmendmentsInit
<1>2. ASSUME IInv, Unanswered, [Next]_vars
      PROVE  [Contract!AmendmentsNext]_(Contract!amendmentVars)
  <2>1. CASE UNCHANGED vars
    BY <2>1 DEF vars, Contract!amendmentVars
  <2>2. ASSUME NEW a \in Attempts, pc[a] # "done", UNCHANGED facility,
               Finish(a, "refused") \/ Finish(a, "error")
        PROVE  Contract!AmendmentsNext
    <3>1. result[a] = "none"
      BY <1>2, <2>2 DEF Unanswered
    <3>2. Contract!Reject(a)
      BY <2>2, <3>1 DEF Contract!Reject, Contract!Answers, Finish
    <3>3. QED BY <3>2 DEF Contract!AmendmentsNext
  <2>3. ASSUME NEW a \in Attempts, GetFacility(a) \/ CreateWorkPackage(a)
        PROVE  Contract!AmendmentsNext \/ UNCHANGED <<facility, result>>
    BY <2>2, <2>3 DEF GetFacility, CreateWorkPackage, gift
  <2>4. ASSUME NEW a \in Attempts, PostEvent(a) \/ DeleteWorkPackage(a)
        PROVE  Contract!AmendmentsNext \/ UNCHANGED <<facility, result>>
    BY <2>2, <2>4 DEF PostEvent, DeleteWorkPackage, GiftTakes, GiftDeletes, Throw, gift
  <2>5. ASSUME NEW a \in Attempts, ApproveWorkPackage(a)
        PROVE  Contract!AmendmentsNext
    <3>1. CASE UNCHANGED gift /\ Throw(a)
      BY <2>2, <2>5, <3>1 DEF ApproveWorkPackage, Throw, gift
    <3>2. CASE GiftApproves(wp[a])
      <4>1. /\ wp[a] \in WorkPackages /\ pc[a] = "posting" /\ posted[a] = Len(Plan(a))
            /\ wpState[wp[a]] = "open" /\ facility' = Draft(wp[a])
        BY <1>2, <2>5, <3>2 DEF IInv, TypeOK, ApproveWorkPackage, GiftApproves
      <4>2. AmendedTo(a, facility, facility')
        BY <1>2, <4>1, DraftIsAmendment
      <4>3. \E s \in {"created", "error"} : Contract!Answers(a, s)
        BY <1>2, <2>5, <4>1
           DEF ApproveWorkPackage, Throw, Finish, Unanswered, Contract!Answers
      <4>4. QED BY <4>2, <4>3 DEF Contract!AmendmentsNext, Contract!Amend
    <3>3. QED BY <2>5, <3>1, <3>2 DEF ApproveWorkPackage
  <2>6. ASSUME NEW a \in Attempts, Crash(a)
        PROVE  UNCHANGED <<facility, result>>
    BY <2>6 DEF Crash, gift
  <2>7. QED BY <1>2, <2>1, <2>3, <2>4, <2>5, <2>6 DEF Next, Contract!amendmentVars
<1>3. IInv /\ Unanswered /\ [Next]_vars => Unanswered'
  BY StepUnanswered DEF IInv
<1>4. QED BY Inductive, <1>1, <1>2, <1>3, PTL
         DEF Spec, AmendmentContract, Contract!AmendmentsSpec
=============================================================================
