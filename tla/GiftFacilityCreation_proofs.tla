--------------------- MODULE GiftFacilityCreation_proofs ---------------------
(***************************************************************************)
(* Safety of GiftFacilityCreation for any number of attempts, facilities   *)
(* and work packages and any payloads.                                     *)
(***************************************************************************)
EXTENDS GiftFacilityCreation, TLAPS

(***************************************************************************)
(* The inductive invariant.  Its core is that a work package has one       *)
(* owner: while the owner is posting, the package is open and holds exactly *)
(* the entities the owner counts as accepted.                              *)
(***************************************************************************)
Working(a) == pc[a] \in {"posting", "approving"}

\* Work packages not handed out yet have no facility and no events.
UnusedIsBlank ==
    \A w \in WorkPackages :
        /\ wpState[w] = "unused" => events[w] = {}
        /\ wpState[w] # "unused" => wpFacility[w] \in Facilities

\* A work package is known to at most one attempt, and is for its facility.
OneOwner ==
    /\ \A a \in Attempts : wp[a] # None =>
          /\ wpState[wp[a]] # "unused"
          /\ wpFacility[wp[a]] = FacilityOf[a]
    /\ \A a, b \in Attempts : wp[a] = wp[b] /\ wp[a] # None => a = b

\* A facility ID has at most one work package that is not deleted.
OneLivePerFacility ==
    \A w, x \in WorkPackages :
        Live(w) /\ Live(x) /\ wpFacility[w] = wpFacility[x] => w = x

\* Before its first call an attempt has nothing.
Fresh ==
    \A a \in Attempts :
        /\ pc[a] \in {"received", "creating"} => wp[a] = None
        /\ pc[a] \in {"received", "creating"} => posted[a] = {} /\ refused[a] = {}
        /\ pc[a] \in {"received", "creating", "posting", "approving"} => result[a] = "none"

\* The package of a working attempt is open and holds what was accepted.
InStep ==
    \A a \in Attempts : Working(a) =>
        /\ wp[a] # None
        /\ wpState[wp[a]] = "open"
        /\ refused[a] \subseteq posted[a]
        /\ posted[a] \subseteq Entities(FacilityOf[a])
        /\ Held(wp[a]) = posted[a] \ refused[a]
        /\ pc[a] = "approving" => posted[a] = Entities(FacilityOf[a]) /\ refused[a] = {}

\* A schedule is only posted once every obligation has been, and with the
\* obligation of its own index if that one was accepted.
SchedulesInStep ==
    \A a \in Attempts : Working(a) =>
        \A v \in events[wp[a]] : v[1] = AccrualSchedule =>
            /\ \A i \in 1..Payload[FacilityOf[a]][Obligation] :
                  <<Obligation, i>> \in posted[a]
            /\ <<Obligation, v[2]>> \in posted[a] \ refused[a] => v[3] = v[2]

\* What an attempt answers, against the state of its work package.
Answers ==
    \A a \in Attempts :
        /\ result[a] = "created" =>
              pc[a] = "done" /\ wp[a] # None /\ wpState[wp[a]] = "approved"
        /\ result[a] = "refused" /\ wp[a] # None => wpState[wp[a]] # "approved"

IInv ==
    /\ TypeOK
    /\ UnusedIsBlank
    /\ OneOwner
    /\ OneLivePerFacility
    /\ Fresh
    /\ InStep
    /\ SchedulesInStep
    /\ Answers
    /\ ApprovedIsComplete
    /\ AccrualSchedulesLinked
    /\ LeftoversAreLogged

\* Every entity of a payload is a numbered member of one of the kinds.
LEMMA EntitiesType == \A f \in Facilities : Entities(f) \subseteq Kinds \X Nat
  BY CreationAssumption DEF Entities, Kinds

\* The 400 of the ValidationPipe touches nothing but the answer.
LEMMA RejectPayloadStep ==
  ASSUME NEW a \in Attempts, IInv, RejectPayload(a)
  PROVE  IInv'
<1> USE CreationAssumption DEF IInv, gift, RejectPayload
<1>1. TypeOK'
  BY DEF TypeOK, Steps, Results, WorkPackageStates, RefusedArePosted
<1>2. UnusedIsBlank'
  BY DEF UnusedIsBlank, TypeOK
<1>3. OneOwner'
  BY DEF OneOwner, TypeOK
<1>4. OneLivePerFacility'
  BY DEF OneLivePerFacility, TypeOK, Live
<1>5. Fresh'
  BY DEF Fresh, TypeOK
<1>6. InStep'
  BY DEF InStep, TypeOK, OneOwner, Working, Held
<1>7. SchedulesInStep'
  BY DEF SchedulesInStep, TypeOK, InStep, OneOwner, Working
<1>8. Answers'
  BY DEF Answers, TypeOK, OneOwner, Fresh
<1>9. ApprovedIsComplete'
  BY DEF ApprovedIsComplete, TypeOK, Complete, Held
<1>10. AccrualSchedulesLinked'
  BY DEF AccrualSchedulesLinked, TypeOK, Held
<1>11. LeftoversAreLogged'
  BY DEF LeftoversAreLogged, TypeOK, Live, OneOwner, Fresh
<1> QED
  BY <1>1, <1>2, <1>3, <1>4, <1>5, <1>6, <1>7, <1>8, <1>9, <1>10, <1>11

\* asyncValidationService.creation reads reference data: it decides how the
\* attempt goes on and changes nothing else.
LEMMA AsyncValidationStep ==
  ASSUME NEW a \in Attempts, IInv, AsyncValidation(a)
  PROVE  IInv'
<1> USE CreationAssumption DEF IInv, gift, Leave, LosesAnswer, WaitsForEver, ForgetResponses,
                          AsyncValidation
<1>1. TypeOK'
  <2> USE DEF TypeOK, Steps, Results, WorkPackageStates, RefusedArePosted
  <2>1. CASE pc' = [pc EXCEPT ![a] = "creating"] /\ UNCHANGED <<posted, refused, result>>
    BY <2>1
  <2>2. CASE Leave(a, "refused") \/ LosesAnswer(a)
    BY <2>2
  <2> QED
    BY <2>1, <2>2
<1>2. UnusedIsBlank'
  BY DEF UnusedIsBlank, TypeOK
<1>3. OneOwner'
  BY DEF OneOwner, TypeOK
<1>4. OneLivePerFacility'
  BY DEF OneLivePerFacility, TypeOK, Live
<1>5. Fresh'
  BY DEF Fresh, TypeOK
<1>6. InStep'
  BY DEF InStep, TypeOK, OneOwner, Working, Held
<1>7. SchedulesInStep'
  <2>1. ASSUME NEW b \in Attempts, Working(b)'
        PROVE  b # a /\ Working(b) /\ posted'[b] = posted[b] /\ refused'[b] = refused[b]
    BY <2>1 DEF TypeOK, Working
  <2> QED
    BY <2>1 DEF SchedulesInStep
<1>8. Answers'
  BY DEF Answers, TypeOK, OneOwner, Fresh
<1>9. ApprovedIsComplete'
  BY DEF ApprovedIsComplete, TypeOK, Complete, Held
<1>10. AccrualSchedulesLinked'
  BY DEF AccrualSchedulesLinked, TypeOK, Held
<1>11. LeftoversAreLogged'
  <2> USE DEF TypeOK, LeftoversAreLogged, Live
  <2>1. CASE pc' = [pc EXCEPT ![a] = "creating"] /\ UNCHANGED <<posted, refused, result>>
    BY <2>1
  <2>2. CASE Leave(a, "refused") \/ LosesAnswer(a)
    BY <2>2
  <2> QED
    BY <2>1, <2>2
<1> QED
  BY <1>1, <1>2, <1>3, <1>4, <1>5, <1>6, <1>7, <1>8, <1>9, <1>10, <1>11

\* A work package handed out by GIFT is unused until then, so its owner is
\* new, and GIFT gives none while another one of the facility is live.
LEMMA CreateInitialFacilityStep ==
  ASSUME NEW a \in Attempts, IInv, CreateInitialFacility(a)
  PROVE  IInv'
<1> USE CreationAssumption DEF IInv, gift, Leave, LosesAnswer, WaitsForEver, ForgetResponses,
                          GiftCreatesFacility, CreateInitialFacility
<1>1. TypeOK'
  <2> USE DEF TypeOK, Steps, Results, WorkPackageStates, RefusedArePosted
  <2>1. CASE \E w \in WorkPackages :
               /\ GiftCreatesFacility(w, FacilityOf[a])
               /\ wp' = [wp EXCEPT ![a] = w]
               /\ pc' = [pc EXCEPT ![a] = "posting"]
               /\ UNCHANGED <<posted, refused, result>>
    BY <2>1
  <2>2. CASE \E w \in WorkPackages :
               /\ GiftCreatesFacility(w, FacilityOf[a])
               /\ LosesAnswer(a)
               /\ UNCHANGED wp
    <3>1. PICK w \in WorkPackages : GiftCreatesFacility(w, FacilityOf[a])
      BY <2>2
    <3>2. CASE Leave(a, "error")
      BY <2>2, <3>1, <3>2
    <3>3. CASE WaitsForEver(a)
      BY <2>2, <3>1, <3>3
    <3> QED
      BY <2>2, <3>2, <3>3
  <2>3. CASE UNCHANGED <<wp, gift>> /\ (Leave(a, "refused") \/ LosesAnswer(a))
    BY <2>3
  <2> QED
    BY <2>1, <2>2, <2>3
<1>2. UnusedIsBlank'
  <2> USE DEF TypeOK, UnusedIsBlank
  <2>1. CASE \E w \in WorkPackages :
               /\ GiftCreatesFacility(w, FacilityOf[a])
               /\ wp' = [wp EXCEPT ![a] = w]
               /\ pc' = [pc EXCEPT ![a] = "posting"]
               /\ UNCHANGED <<posted, refused, result>>
    BY <2>1
  <2>2. CASE \E w \in WorkPackages :
               /\ GiftCreatesFacility(w, FacilityOf[a])
               /\ LosesAnswer(a)
               /\ UNCHANGED wp
    BY <2>2
  <2>3. CASE UNCHANGED <<wp, gift>> /\ (Leave(a, "refused") \/ LosesAnswer(a))
    BY <2>3
  <2> QED
    BY <2>1, <2>2, <2>3
<1>3. OneOwner'
  <2> USE DEF TypeOK, OneOwner
  <2>1. CASE \E w \in WorkPackages :
               /\ GiftCreatesFacility(w, FacilityOf[a])
               /\ wp' = [wp EXCEPT ![a] = w]
               /\ pc' = [pc EXCEPT ![a] = "posting"]
               /\ UNCHANGED <<posted, refused, result>>
    BY <2>1
  <2>2. CASE \E w \in WorkPackages :
               /\ GiftCreatesFacility(w, FacilityOf[a])
               /\ LosesAnswer(a)
               /\ UNCHANGED wp
    BY <2>2
  <2>3. CASE UNCHANGED <<wp, gift>> /\ (Leave(a, "refused") \/ LosesAnswer(a))
    BY <2>3
  <2> QED
    BY <2>1, <2>2, <2>3
<1>4. OneLivePerFacility'
  BY DEF OneLivePerFacility, TypeOK, Live, UnusedIsBlank
<1>5. Fresh'
  <2> USE DEF TypeOK, Fresh
  <2>1. CASE \E w \in WorkPackages :
               /\ GiftCreatesFacility(w, FacilityOf[a])
               /\ wp' = [wp EXCEPT ![a] = w]
               /\ pc' = [pc EXCEPT ![a] = "posting"]
               /\ UNCHANGED <<posted, refused, result>>
    BY <2>1
  <2>2. CASE \E w \in WorkPackages :
               /\ GiftCreatesFacility(w, FacilityOf[a])
               /\ LosesAnswer(a)
               /\ UNCHANGED wp
    BY <2>2
  <2>3. CASE UNCHANGED <<wp, gift>> /\ (Leave(a, "refused") \/ LosesAnswer(a))
    BY <2>3
  <2> QED
    BY <2>1, <2>2, <2>3
<1>6. InStep'
  BY DEF InStep, TypeOK, OneOwner, Working, Held, Fresh, UnusedIsBlank
<1>7. SchedulesInStep'
  BY DEF SchedulesInStep, TypeOK, InStep, OneOwner, Working, Fresh, UnusedIsBlank
<1>8. Answers'
  BY DEF Answers, TypeOK, OneOwner, Fresh
<1>9. ApprovedIsComplete'
  BY DEF ApprovedIsComplete, TypeOK, Complete, Held
<1>10. AccrualSchedulesLinked'
  BY DEF AccrualSchedulesLinked, TypeOK, Held
<1>11. LeftoversAreLogged'
  BY DEF LeftoversAreLogged, TypeOK, Live, OneOwner
<1> QED
  BY <1>1, <1>2, <1>3, <1>4, <1>5, <1>6, <1>7, <1>8, <1>9, <1>10, <1>11

\* Reading the collected responses lets an attempt go on to the approval only
\* when nothing was refused, which with InStep makes its package complete.
LEMMA CheckResponsesStep ==
  ASSUME NEW a \in Attempts, IInv, CheckResponses(a)
  PROVE  IInv'
<1> USE CreationAssumption DEF IInv, gift, Leave, ForgetResponses, CheckResponses
<1>1. TypeOK'
  <2> USE DEF TypeOK, Steps, Results, WorkPackageStates, RefusedArePosted
  <2>1. CASE pc' = [pc EXCEPT ![a] = "approving"] /\ UNCHANGED <<posted, refused, result>>
    BY <2>1
  <2>2. ASSUME NEW r \in {"refused", "error"}, Leave(a, r)
        PROVE  TypeOK'
    BY <2>2
  <2> QED
    BY <2>1, <2>2
<1>2. UnusedIsBlank'
  BY DEF UnusedIsBlank, TypeOK
<1>3. OneOwner'
  BY DEF OneOwner, TypeOK
<1>4. OneLivePerFacility'
  BY DEF OneLivePerFacility, TypeOK, Live
<1>5. Fresh'
  BY DEF Fresh, TypeOK
<1>6. InStep'
  BY DEF InStep, TypeOK, OneOwner, Working, Held
<1>7. SchedulesInStep'
  <2>1. ASSUME NEW b \in Attempts, Working(b)'
        PROVE  Working(b) /\ posted'[b] = posted[b] /\ refused'[b] = refused[b]
    <3>1. CASE refused[a] = {}
      BY <2>1, <3>1 DEF TypeOK, Working
    <3>2. CASE refused[a] # {}
      <4>1. b # a
        BY <2>1, <3>2 DEF TypeOK, Working
      <4> QED
        BY <2>1, <3>2, <4>1 DEF TypeOK, Working
    <3> QED
      BY <3>1, <3>2
  <2> QED
    BY <2>1 DEF SchedulesInStep
<1>8. Answers'
  BY DEF Answers, TypeOK, OneOwner, InStep, Working
<1>9. ApprovedIsComplete'
  BY DEF ApprovedIsComplete, TypeOK, Complete, Held
<1>10. AccrualSchedulesLinked'
  BY DEF AccrualSchedulesLinked, TypeOK, Held
<1>11. LeftoversAreLogged'
  <2> USE DEF TypeOK, LeftoversAreLogged, Live
  <2>1. CASE pc' = [pc EXCEPT ![a] = "approving"] /\ UNCHANGED <<posted, refused, result>>
    BY <2>1
  <2>2. ASSUME NEW r \in {"refused", "error"}, Leave(a, r)
        PROVE  LeftoversAreLogged'
    BY <2>2
  <2> QED
    BY <2>1, <2>2
<1> QED
  BY <1>1, <1>2, <1>3, <1>4, <1>5, <1>6, <1>7, <1>8, <1>9, <1>10, <1>11

\* The approval: the package of the attempt is complete before it, by InStep,
\* and its schedules are linked, by SchedulesInStep.
LEMMA ApprovedStep ==
  ASSUME NEW a \in Attempts, IInv, Approved(a)
  PROVE  IInv'
<1> USE CreationAssumption DEF IInv, gift, Leave, LosesAnswer, WaitsForEver, ForgetResponses,
                          GiftApproves, Approved
<1>1. TypeOK'
  <2> USE DEF TypeOK, Steps, Results, WorkPackageStates, RefusedArePosted
  <2>1. CASE /\ GiftApproves(wp[a])
             /\ pc' = [pc EXCEPT ![a] = "done"]
             /\ result' = [result EXCEPT ![a] = "created"]
             /\ ForgetResponses(a)
    BY <2>1
  <2>2. CASE LosesAnswer(a) /\ UNCHANGED gift
    BY <2>2
  <2>3. CASE LosesAnswer(a) /\ GiftApproves(wp[a])
    BY <2>3
  <2> QED
    BY <2>1, <2>2, <2>3
<1>2. UnusedIsBlank'
  BY DEF UnusedIsBlank, TypeOK
<1>3. OneOwner'
  BY DEF OneOwner, TypeOK
<1>4. OneLivePerFacility'
  BY DEF OneLivePerFacility, TypeOK, Live
<1>5. Fresh'
  BY DEF Fresh, TypeOK
<1>6. InStep'
  BY DEF InStep, TypeOK, OneOwner, Working, Held
<1>7. SchedulesInStep'
  BY DEF SchedulesInStep, TypeOK, InStep, OneOwner, Working
<1>8. Answers'
  <2>1. /\ wp[a] \in WorkPackages /\ wpState[wp[a]] = "open"
        /\ result[a] \notin {"created", "refused"} /\ UNCHANGED wp
    BY DEF TypeOK, InStep, OneOwner, Working, Fresh, Approved
  <2>2. \A b \in Attempts \ {a} :
          /\ pc'[b] = pc[b] /\ result'[b] = result[b] /\ wp[b] # wp[a]
          /\ wp[b] # None => wpState'[wp[b]] = wpState[wp[b]]
    BY <2>1 DEF TypeOK, OneOwner
  <2>3. /\ result'[a] = "created" => pc'[a] = "done" /\ wpState'[wp[a]] = "approved"
        /\ result'[a] # "refused"
    BY <2>1 DEF TypeOK
  <2> QED
    BY <2>1, <2>2, <2>3 DEF Answers
<1>9. ApprovedIsComplete'
  <2>1. /\ wp[a] \in WorkPackages
        /\ Held(wp[a]) = posted[a] \ refused[a]
        /\ posted[a] = Entities(FacilityOf[a]) /\ refused[a] = {}
        /\ wpFacility[wp[a]] = FacilityOf[a]
    BY DEF TypeOK, InStep, OneOwner, Working
  <2>2. Complete(wp[a])
    BY <2>1 DEF Complete
  <2>3. \A w \in WorkPackages : wpState'[w] = "approved" => wpState[w] = "approved" \/ w = wp[a]
    BY DEF TypeOK
  <2>4. \A w \in WorkPackages : Complete(w) => Complete(w)'
    BY DEF Complete, Held
  <2> QED
    BY <2>2, <2>3, <2>4 DEF ApprovedIsComplete
<1>10. AccrualSchedulesLinked'
  <2>1. Working(a) /\ wp[a] \in WorkPackages /\ wpFacility[wp[a]] = FacilityOf[a]
    BY DEF TypeOK, Working, InStep, OneOwner
  <2>2. /\ Held(wp[a]) = posted[a] \ refused[a]
        /\ posted[a] = Entities(FacilityOf[a])
        /\ refused[a] = {}
    BY <2>1 DEF InStep
  <2>3. Held(wp[a]) = Entities(FacilityOf[a])
    BY <2>2
  <2>4. ASSUME NEW v \in events[wp[a]],
               v[1] = AccrualSchedule,
               v[2] <= Payload[FacilityOf[a]][Obligation]
        PROVE  v[3] = v[2] /\ <<Obligation, v[3]>> \in Held(wp[a])
    <3>1. <<v[1], v[2]>> \in Entities(FacilityOf[a])
      BY <2>3 DEF Held
    <3>2. v[2] \in 1..Payload[FacilityOf[a]][Obligation]
      BY <2>4, <3>1 DEF Entities, Kinds, Obligation
    <3>3. <<Obligation, v[2]>> \in posted[a] \ refused[a]
      BY <2>1, <2>2, <2>4, <3>2 DEF SchedulesInStep
    <3>4. v[3] = v[2]
      BY <2>1, <2>4, <3>3 DEF SchedulesInStep
    <3> QED
      BY <2>2, <3>3, <3>4
  <2>5. ASSUME NEW w \in WorkPackages, wpState'[w] = "approved"
        PROVE  /\ wpState[w] = "approved" \/ w = wp[a]
               /\ events'[w] = events[w]
               /\ wpFacility'[w] = wpFacility[w]
    BY <2>5 DEF TypeOK
  <2>6. ASSUME NEW w \in WorkPackages, wpState'[w] = "approved", w # wp[a]
        PROVE  \A v \in events'[w] :
                  /\ v[1] = AccrualSchedule
                  /\ v[2] <= Payload[wpFacility'[w]][Obligation]
                  => v[3] = v[2] /\ <<Obligation, v[3]>> \in Held(w)
    BY <2>5, <2>6 DEF AccrualSchedulesLinked
  <2>7. \A w \in WorkPackages : wpState'[w] = "approved" => Held(w)' = Held(w)
    BY <2>5 DEF Held
  <2> QED
    BY <2>1, <2>4, <2>5, <2>6, <2>7 DEF AccrualSchedulesLinked
<1>11. LeftoversAreLogged'
  <2> USE DEF TypeOK, LeftoversAreLogged, Live, OneOwner
  <2>1. CASE /\ GiftApproves(wp[a])
             /\ pc' = [pc EXCEPT ![a] = "done"]
             /\ result' = [result EXCEPT ![a] = "created"]
             /\ ForgetResponses(a)
    BY <2>1
  <2>2. CASE LosesAnswer(a) /\ UNCHANGED gift
    BY <2>2
  <2>3. CASE LosesAnswer(a) /\ GiftApproves(wp[a])
    BY <2>3
  <2> QED
    BY <2>1, <2>2, <2>3
<1> QED
  BY <1>1, <1>2, <1>3, <1>4, <1>5, <1>6, <1>7, <1>8, <1>9, <1>10, <1>11

\* The deletion in the finally block reaches the attempt's own package only,
\* by OneOwner, and a package that stays is logged.
LEMMA FinallyHandlerStep ==
  ASSUME NEW a \in Attempts, IInv, FinallyHandler(a)
  PROVE  IInv'
<1> USE CreationAssumption DEF IInv, gift, GiftDeletes, FinallyHandler
<1>1. TypeOK'
  BY DEF TypeOK, Steps, Results, WorkPackageStates, RefusedArePosted
<1>2. UnusedIsBlank'
  <2>1. CASE UNCHANGED gift
    BY <2>1 DEF UnusedIsBlank
  <2>2. CASE wp[a] # None /\ GiftDeletes(wp[a])
    BY <2>2 DEF TypeOK, UnusedIsBlank, Live
  <2> QED
    BY <2>1, <2>2
<1>3. OneOwner'
  BY DEF OneOwner, TypeOK
<1>4. OneLivePerFacility'
  BY DEF OneLivePerFacility, TypeOK, Live
<1>5. Fresh'
  BY DEF Fresh, TypeOK
<1>6. InStep'
  BY DEF InStep, TypeOK, OneOwner, Working, Held
<1>7. SchedulesInStep'
  BY DEF SchedulesInStep, TypeOK, InStep, OneOwner, Working
<1>8. Answers'
  BY DEF Answers, TypeOK, OneOwner
<1>9. ApprovedIsComplete'
  BY DEF ApprovedIsComplete, TypeOK, Complete, Held
<1>10. AccrualSchedulesLinked'
  BY DEF AccrualSchedulesLinked, TypeOK, Held
<1>11. LeftoversAreLogged'
  BY DEF LeftoversAreLogged, TypeOK, Live, OneOwner
<1> QED
  BY <1>1, <1>2, <1>3, <1>4, <1>5, <1>6, <1>7, <1>8, <1>9, <1>10, <1>11

\* A crash forgets the local variables of one attempt.
LEMMA CrashStep ==
  ASSUME NEW a \in Attempts, IInv, Crash(a)
  PROVE  IInv'
<1> USE CreationAssumption DEF IInv, gift, ForgetResponses, Crash
<1>1. TypeOK'
  BY DEF TypeOK, Steps, Results, WorkPackageStates, RefusedArePosted
<1>2. UnusedIsBlank'
  BY DEF UnusedIsBlank, TypeOK
<1>3. OneOwner'
  BY DEF OneOwner, TypeOK
<1>4. OneLivePerFacility'
  BY DEF OneLivePerFacility, TypeOK, Live
<1>5. Fresh'
  BY DEF Fresh, TypeOK
<1>6. InStep'
  BY DEF InStep, TypeOK, OneOwner, Working, Held
<1>7. SchedulesInStep'
  BY DEF SchedulesInStep, TypeOK, InStep, OneOwner, Working
<1>8. Answers'
  BY DEF Answers, TypeOK, OneOwner
<1>9. ApprovedIsComplete'
  BY DEF ApprovedIsComplete, TypeOK, Complete, Held
<1>10. AccrualSchedulesLinked'
  BY DEF AccrualSchedulesLinked, TypeOK, Held
<1>11. LeftoversAreLogged'
  BY DEF LeftoversAreLogged, TypeOK, Live, OneOwner
<1> QED
  BY <1>1, <1>2, <1>3, <1>4, <1>5, <1>6, <1>7, <1>8, <1>9, <1>10, <1>11

\* Posting one entity keeps the package and the attempt's accounts in step, and
\* a schedule is given the id of the obligation with its index.
LEMMA CreateOneStep ==
  ASSUME NEW a \in Attempts, IInv,
         NEW e \in Entities(FacilityOf[a]), CreateOne(a, e)
  PROVE  IInv'
<1> DEFINE w == wp[a]
           v == EventOf(a, e)
<1> USE CreationAssumption DEF IInv
<1>1. /\ Working(a) /\ pc[a] = "posting"
      /\ w \in WorkPackages /\ wpState[w] = "open" /\ wpFacility[w] = FacilityOf[a]
  BY DEF CreateOne, Working, InStep, OneOwner, TypeOK
<1>2. e \in Kinds \X Nat /\ e = <<e[1], e[2]>> /\ e \notin posted[a]
  BY EntitiesType DEF CreateOne, NextEntity
<1>3. UNCHANGED <<wp, severe, wpState, wpFacility>>
  BY DEF CreateOne, GiftAddsEvent, gift
<1>4. \/ /\ posted' = [posted EXCEPT ![a] = @ \cup {e}]
         /\ events' = [events EXCEPT ![w] = @ \cup {v}]
         /\ UNCHANGED <<refused, pc, result>>
      \/ /\ posted' = [posted EXCEPT ![a] = @ \cup {e}]
         /\ refused' = [refused EXCEPT ![a] = @ \cup {e}]
         /\ UNCHANGED <<events, pc, result>>
      \/ /\ LosesAnswer(a)
         /\ \/ events' = [events EXCEPT ![w] = @ \cup {v}]
            \/ UNCHANGED events
  BY DEF CreateOne, GiftAddsEvent, gift
<1>5. v \in Kinds \X Nat \X Nat /\ v[1] = e[1] /\ v[2] = e[2] /\ <<v[1], v[2]>> = e
  BY <1>2 DEF EventOf, ObligationId
<1>6. \A x \in WorkPackages : x # w => events'[x] = events[x] /\ Held(x)' = Held(x)
  BY <1>1, <1>4 DEF TypeOK, Held
<1>7. \A b \in Attempts : b # a =>
        /\ posted'[b] = posted[b] /\ refused'[b] = refused[b]
        /\ pc'[b] = pc[b] /\ result'[b] = result[b]
        /\ Working(b)' = Working(b)
  <2>1. \A b \in Attempts : b # a =>
          /\ posted'[b] = posted[b] /\ refused'[b] = refused[b]
          /\ pc'[b] = pc[b] /\ result'[b] = result[b]
    BY <1>4 DEF TypeOK, Leave, LosesAnswer, WaitsForEver, ForgetResponses
  <2> QED
    BY <2>1 DEF Working
<1>8. \A b \in Attempts : b # a /\ wp[b] # None => wp[b] # w /\ wp[b] \in WorkPackages
  BY <1>1 DEF OneOwner, TypeOK
<1>9. Working(a)' =>
        /\ pc'[a] = "posting"
        /\ posted'[a] = posted[a] \cup {e}
        /\ \/ events'[w] = events[w] \cup {v} /\ refused'[a] = refused[a]
           \/ events'[w] = events[w] /\ refused'[a] = refused[a] \cup {e}
  BY <1>1, <1>4 DEF TypeOK, Leave, LosesAnswer, WaitsForEver, Working
<1>10. TypeOK'
  <2>1. posted' \in [Attempts -> SUBSET (Kinds \X Nat)]
    <3>1. CASE posted' = [posted EXCEPT ![a] = @ \cup {e}]
      BY <3>1, <1>2 DEF TypeOK
    <3>2. CASE posted' = [posted EXCEPT ![a] = {}]
      BY <3>2 DEF TypeOK
    <3> QED
      BY <3>1, <3>2, <1>4 DEF Leave, LosesAnswer, WaitsForEver, ForgetResponses
  <2>2. refused' \in [Attempts -> SUBSET (Kinds \X Nat)]
    <3>1. CASE refused' = [refused EXCEPT ![a] = @ \cup {e}]
      BY <3>1, <1>2 DEF TypeOK
    <3>2. CASE refused' = [refused EXCEPT ![a] = {}] \/ UNCHANGED refused
      BY <3>2 DEF TypeOK
    <3> QED
      BY <3>1, <3>2, <1>4 DEF Leave, LosesAnswer, WaitsForEver, ForgetResponses
  <2>3. events' \in [WorkPackages -> SUBSET (Kinds \X Nat \X Nat)]
    BY <1>4, <1>5 DEF TypeOK
  <2>4. pc' \in [Attempts -> Steps] /\ result' \in [Attempts -> Results]
    BY <1>4 DEF TypeOK, Leave, LosesAnswer, WaitsForEver, Steps, Results
  <2>5. \A b \in Attempts : refused'[b] \subseteq posted'[b]
    <3>1. refused'[a] \subseteq posted'[a]
      BY <1>4 DEF TypeOK, RefusedArePosted, Leave, LosesAnswer, WaitsForEver, ForgetResponses
    <3> QED
      BY <3>1, <1>7 DEF TypeOK, RefusedArePosted
  <2> QED
    BY <1>3, <2>1, <2>2, <2>3, <2>4, <2>5 DEF TypeOK, RefusedArePosted
<1>11. UnusedIsBlank'
  BY <1>1, <1>3, <1>6 DEF UnusedIsBlank
<1>12. OneOwner'
  BY <1>3 DEF OneOwner
<1>13. OneLivePerFacility'
  BY <1>3 DEF OneLivePerFacility, Live
<1>14. Fresh'
  BY <1>1, <1>3, <1>4, <1>7 DEF Fresh, Leave, LosesAnswer, WaitsForEver, TypeOK
<1>15. InStep'
  <2>1. ASSUME Working(a)'
        PROVE  Held(w)' = posted'[a] \ refused'[a]
    <3>1. Held(w) = posted[a] \ refused[a] /\ refused[a] \subseteq posted[a]
      BY <1>1 DEF InStep
    <3>2. CASE events'[w] = events[w] \cup {v} /\ refused'[a] = refused[a]
      <4>1. Held(w)' = Held(w) \cup {e}
        BY <3>2, <1>3, <1>5 DEF Held
      <4> QED
        BY <4>1, <3>1, <3>2, <2>1, <1>9, <1>2
    <3>3. CASE events'[w] = events[w] /\ refused'[a] = refused[a] \cup {e}
      <4>1. Held(w)' = Held(w)
        BY <3>3, <1>3 DEF Held
      <4> QED
        BY <4>1, <3>1, <3>3, <2>1, <1>9, <1>2
    <3> QED
      BY <3>2, <3>3, <2>1, <1>9
  <2>2. ASSUME Working(a)'
        PROVE  /\ refused'[a] \subseteq posted'[a]
               /\ posted'[a] \subseteq Entities(FacilityOf[a])
    BY <2>2, <1>1, <1>9 DEF InStep
  <2>3. ASSUME NEW b \in Attempts, b # a, Working(b)'
        PROVE  /\ wp[b] # None
               /\ wpState[wp[b]] = "open"
               /\ refused'[b] \subseteq posted'[b]
               /\ posted'[b] \subseteq Entities(FacilityOf[b])
               /\ Held(wp[b])' = posted'[b] \ refused'[b]
               /\ pc'[b] = "approving" =>
                    posted'[b] = Entities(FacilityOf[b]) /\ refused'[b] = {}
    <3>1. Working(b) /\ wp[b] # None /\ wp[b] # w /\ wp[b] \in WorkPackages
      BY <2>3, <1>7, <1>8 DEF InStep
    <3>2. Held(wp[b])' = Held(wp[b])
      BY <3>1, <1>3, <1>6 DEF Held
    <3> QED
      BY <3>1, <3>2, <2>3, <1>7 DEF InStep
  <2> QED
    BY <2>1, <2>2, <2>3, <1>1, <1>3, <1>9 DEF InStep, TypeOK
<1>16. SchedulesInStep'
  <2>1. ASSUME Working(a)', NEW u \in events'[w], u[1] = AccrualSchedule
        PROVE  /\ \A i \in 1..Payload[FacilityOf[a]][Obligation] :
                    <<Obligation, i>> \in posted'[a]
               /\ <<Obligation, u[2]>> \in posted'[a] \ refused'[a] => u[3] = u[2]
    <3>1. CASE u \in events[w]
      <4>1. \A i \in 1..Payload[FacilityOf[a]][Obligation] : <<Obligation, i>> \in posted[a]
        BY <3>1, <2>1, <1>1 DEF SchedulesInStep
      <4>2. e[1] # Obligation
        <5>1. SUFFICES ASSUME e[1] = Obligation PROVE FALSE
          OBVIOUS
        <5>2. e[2] \in 1..Payload[FacilityOf[a]][Obligation]
          BY <5>1 DEF Entities
        <5> QED
          BY <5>1, <5>2, <4>1, <1>2
      <4>3. <<Obligation, u[2]>> # e
        BY <4>2
      <4>4. <<Obligation, u[2]>> \in posted'[a] \ refused'[a] =>
              <<Obligation, u[2]>> \in posted[a] \ refused[a]
        BY <4>3, <2>1, <1>9
      <4> QED
        BY <4>1, <4>4, <3>1, <2>1, <1>1, <1>9 DEF SchedulesInStep
    <3>2. CASE u = v
      <4>1. e[1] = AccrualSchedule
        BY <3>2, <2>1, <1>5
      <4>2. ASSUME NEW i \in 1..Payload[FacilityOf[a]][Obligation]
            PROVE  <<Obligation, i>> \in posted[a]
        <5>1. <<Obligation, i>> \in Entities(FacilityOf[a])
          BY DEF Entities, Kinds, Obligation
        <5>2. Before(<<Obligation, i>>, e)
          BY <4>1 DEF Before, Obligation, AccrualSchedule
        <5> QED
          BY <5>1, <5>2 DEF CreateOne, NextEntity
      <4>3. u[2] = e[2] /\ u[3] = ObligationId(a, e[2])
        BY <3>2, <4>1, <1>5 DEF EventOf
      <4>4. <<Obligation, u[2]>> # e
        BY <4>1 DEF Obligation, AccrualSchedule
      <4>5. <<Obligation, u[2]>> \in posted'[a] \ refused'[a] =>
              <<Obligation, u[2]>> \in posted[a] \ refused[a]
        BY <4>4, <2>1, <1>9
      <4> QED
        BY <4>2, <4>3, <4>5, <2>1, <1>9 DEF ObligationId
    <3> QED
      BY <3>1, <3>2, <2>1, <1>9
  <2>2. ASSUME NEW b \in Attempts, b # a, Working(b)'
        PROVE  /\ Working(b)
               /\ events'[wp[b]] = events[wp[b]]
               /\ posted'[b] = posted[b] /\ refused'[b] = refused[b]
    BY <2>2, <1>6, <1>7, <1>8 DEF InStep
  <2> QED
    BY <2>1, <2>2, <1>3 DEF SchedulesInStep
<1>17. Answers'
  BY <1>1, <1>3, <1>4, <1>7 DEF Answers, Leave, LosesAnswer, WaitsForEver, TypeOK
<1>18. ApprovedIsComplete'
  BY <1>1, <1>3, <1>6 DEF ApprovedIsComplete, Complete
<1>19. AccrualSchedulesLinked'
  BY <1>1, <1>3, <1>6 DEF AccrualSchedulesLinked
<1>20. LeftoversAreLogged'
  BY <1>1, <1>3, <1>4, <1>7 DEF LeftoversAreLogged, Live, Leave, LosesAnswer, WaitsForEver, TypeOK
<1> QED
  BY <1>10, <1>11, <1>12, <1>13, <1>14, <1>15, <1>16, <1>17, <1>18, <1>19, <1>20

\* The initial states satisfy the inductive invariant.
LEMMA InitInductive == Init => IInv
<1> SUFFICES ASSUME Init PROVE IInv
  OBVIOUS
<1> USE CreationAssumption DEF Init, TypeOK
<1>1. TypeOK
  BY DEF RefusedArePosted, Steps, Results, WorkPackageStates
<1>2. UnusedIsBlank /\ OneOwner /\ OneLivePerFacility /\ Fresh /\ Answers
  BY DEF UnusedIsBlank, OneOwner, OneLivePerFacility, Live, Fresh, Answers
<1>3. InStep /\ SchedulesInStep
  BY DEF InStep, SchedulesInStep, Working
<1>4. ApprovedIsComplete /\ AccrualSchedulesLinked /\ LeftoversAreLogged
  BY DEF ApprovedIsComplete, AccrualSchedulesLinked, LeftoversAreLogged
<1> QED
  BY <1>1, <1>2, <1>3, <1>4 DEF IInv

\* The inductive invariant is about the variables of the specification only.
LEMMA StutterInductive == IInv /\ UNCHANGED vars => IInv'
  BY DEF IInv, vars, TypeOK, RefusedArePosted, UnusedIsBlank, OneOwner, OneLivePerFacility, Live,
         Fresh, InStep, Working, Held, SchedulesInStep, Answers,
         ApprovedIsComplete, Complete, AccrualSchedulesLinked, LeftoversAreLogged

\* Every step of every attempt keeps the inductive invariant.
LEMMA NextInductive == IInv /\ [Next]_vars => IInv'
<1>1. ASSUME IInv, NEW a \in Attempts, Handle(a) \/ Crash(a)
      PROVE  IInv'
  BY <1>1, RejectPayloadStep, AsyncValidationStep, CreateInitialFacilityStep,
     CreateOneStep, CheckResponsesStep, ApprovedStep, FinallyHandlerStep, CrashStep
     DEF Handle
<1> QED
  BY <1>1, StutterInductive DEF Next

\* The inductive invariant holds in every reachable state of create(), for any
\* number of concurrent attempts.
THEOREM Inductive == Spec => []IInv
<1> QED
  BY InitInductive, NextInductive, PTL DEF Spec

\* CreatedIsDurable follows from the state of the packages: two attempts
\* answered 201 for one facility would have two live packages of it.
LEMMA DurableFromInv == IInv => CreatedIsDurable
<1> SUFFICES ASSUME IInv,
                    NEW a \in Attempts, result[a] = "created"
             PROVE  /\ wp[a] # None
                    /\ wpState[wp[a]] = "approved"
                    /\ wpFacility[wp[a]] = FacilityOf[a]
                    /\ Complete(wp[a])
                    /\ \A b \in Attempts \ {a} :
                          result[b] = "created" => FacilityOf[b] # FacilityOf[a]
  BY DEF CreatedIsDurable
<1>1. \A b \in Attempts : result[b] = "created" =>
        /\ wp[b] \in WorkPackages /\ wp[b] # None
        /\ wpState[wp[b]] = "approved" /\ wpFacility[wp[b]] = FacilityOf[b]
  BY DEF IInv, Answers, OneOwner, TypeOK
<1>2. ASSUME NEW b \in Attempts \ {a}, result[b] = "created"
      PROVE  FacilityOf[b] # FacilityOf[a]
  <2>1. wp[b] # wp[a]
    BY <1>1 DEF IInv, OneOwner
  <2> QED
    BY <1>1, <1>2, <2>1 DEF IInv, OneLivePerFacility, Live
<1> QED
  BY <1>1, <1>2 DEF IInv, ApprovedIsComplete

\* The variables of create() and of GIFT keep their types.
THEOREM TypeCorrect == Spec => []TypeOK
<1>1. IInv => TypeOK
  BY DEF IInv
<1> QED
  BY Inductive, <1>1, PTL

\* Whatever calls are refused, lost or cut short, GIFT never holds an approved
\* work package of create() with part of a payload.
THEOREM AllOrNothing == Spec => []ApprovedIsComplete
<1>1. IInv => ApprovedIsComplete
  BY DEF IInv
<1> QED
  BY Inductive, <1>1, PTL

\* In an approved work package every accrual schedule that has an obligation of
\* its index refers to that obligation.
THEOREM SchedulesLinked == Spec => []AccrualSchedulesLinked
<1>1. IInv => AccrualSchedulesLinked
  BY DEF IInv
<1> QED
  BY Inductive, <1>1, PTL

\* A 201 of create() is final: the facility stays approved and complete, and no
\* other attempt is answered 201 for it.
THEOREM Durability == Spec => []CreatedIsDurable
  BY Inductive, DurableFromInv, PTL

\* A 4xx of create() means that the attempt left nothing approved.
THEOREM RefusalIsReliable == Spec => []RefusedMeansNotApproved
<1>1. IInv => RefusedMeansNotApproved
  BY DEF IInv, Answers, RefusedMeansNotApproved
<1> QED
  BY Inductive, <1>1, PTL

\* When the finally block leaves a live work package behind, it has logged it.
THEOREM NoSilentLeftover == Spec => []LeftoversAreLogged
<1>1. IInv => LeftoversAreLogged
  BY DEF IInv
<1> QED
  BY Inductive, <1>1, PTL

-----------------------------------------------------------------------------
(* The contract.                                                           *)

Content == [f \in Facilities |-> Published(f)]
Given == [a \in Attempts |-> Answer(a)]

HasApproved(f) == \E w \in WorkPackages : wpState[w] = "approved" /\ wpFacility[w] = f

\* GIFT shows the whole of a facility that has an approved work package, and
\* nothing of any other.
WholeOrNothing ==
    \A f \in Facilities : Published(f) = IF HasApproved(f) THEN Entities(f) ELSE {}

LEMMA PublishedIsWhole == IInv => WholeOrNothing
<1> SUFFICES ASSUME IInv, NEW f \in Facilities
             PROVE  Published(f) = IF HasApproved(f) THEN Entities(f) ELSE {}
  BY DEF WholeOrNothing
<1> DEFINE of == {x \in WorkPackages : wpFacility[x] = f /\ wpState[x] = "approved"}
<1>1. \A x \in of : Held(x) = Entities(f)
  BY DEF IInv, ApprovedIsComplete, Complete
<1>2. HasApproved(f) <=> of # {}
  BY DEF HasApproved
<1>3. Published(f) = UNION {Held(x) : x \in of}
  BY DEF Published
<1> HIDE DEF of
<1> QED
  BY <1>1, <1>2, <1>3

LEMMA PublishedIsWholePrime == IInv' => WholeOrNothing'
  BY PublishedIsWhole, PTL

\* Somebody has been told 201 about a facility only if it is approved in the
\* work package of that attempt.
LEMMA ConfirmedIsApproved ==
    ASSUME IInv, NEW b \in Attempts, Answer(b) = "created"
    PROVE  /\ wp[b] \in WorkPackages
           /\ wpState[wp[b]] = "approved" /\ wpFacility[wp[b]] = FacilityOf[b]
           /\ pc[b] = "done"
  BY DEF IInv, Answer, Answers, OneOwner, TypeOK

\* A step that neither approves nor deletes shows nothing new.
LEMMA NothingShown ==
    ASSUME IInv, IInv',
           \A w \in WorkPackages :
              wpState'[w] = "approved" <=> wpState[w] = "approved",
           \A w \in WorkPackages :
              wpState[w] = "approved" => wpFacility'[w] = wpFacility[w]
    PROVE  Content' = Content
<1>1. \A f \in Facilities : HasApproved(f)' <=> HasApproved(f)
  BY DEF HasApproved
<1>2. \A f \in Facilities : Published(f)' = Published(f)
  BY <1>1, PublishedIsWhole, PublishedIsWholePrime DEF WholeOrNothing
<1> QED
  BY <1>2 DEF Content

\* An approval publishes the facility as a whole, and nobody was told so yet.
LEMMA ApprovalPublishes ==
    ASSUME IInv, IInv', NEW a \in Attempts, pc[a] = "approving", GiftApproves(wp[a])
    PROVE  LET f == FacilityOf[a]
           IN  /\ Content[f] = {}
               /\ Content' = [Content EXCEPT ![f] = Entities(f)]
               /\ \A b \in Attempts : FacilityOf[b] = f => Answer(b) # "created"
<1> DEFINE f == FacilityOf[a]
<1>1. /\ wp[a] \in WorkPackages /\ wpFacility[wp[a]] = f /\ f \in Facilities
      /\ wpState[wp[a]] = "open"
  BY CreationAssumption DEF IInv, TypeOK, InStep, OneOwner, Working
<1>2. ~HasApproved(f)
  BY <1>1 DEF HasApproved, IInv, OneLivePerFacility, Live
<1>3. HasApproved(f)' /\ \A g \in Facilities \ {f} : HasApproved(g)' <=> HasApproved(g)
  BY <1>1 DEF HasApproved, GiftApproves, IInv, TypeOK
<1>4. \A g \in Facilities : Published(g)' = IF g = f THEN Entities(f) ELSE Published(g)
  BY <1>1, <1>3, PublishedIsWhole, PublishedIsWholePrime DEF WholeOrNothing
<1>5. Published(f) = {}
  BY <1>1, <1>2, PublishedIsWhole DEF WholeOrNothing
<1>6. \A b \in Attempts : FacilityOf[b] = f => Answer(b) # "created"
  BY <1>2, ConfirmedIsApproved DEF HasApproved
<1> HIDE DEF f
<1>7. Content[f] = {} /\ Content' = [Content EXCEPT ![f] = Entities(f)]
  BY <1>1, <1>4, <1>5 DEF Content
<1> QED
  BY <1>6, <1>7 DEF f

\* A deletion takes the facility back whole, and nobody was told of it.
LEMMA DeletionWithdraws ==
    ASSUME IInv, IInv', NEW a \in Attempts, pc[a] = "finally", wp[a] # None,
           GiftDeletes(wp[a])
    PROVE  LET f == FacilityOf[a]
           IN  /\ Content' = [Content EXCEPT ![f] = {}]
               /\ \A b \in Attempts : FacilityOf[b] = f => Answer(b) # "created"
<1> DEFINE f == FacilityOf[a]
<1>1. /\ wp[a] \in WorkPackages /\ wpFacility[wp[a]] = f /\ f \in Facilities
      /\ Live(wp[a])
  BY CreationAssumption DEF IInv, TypeOK, OneOwner, GiftDeletes
<1>2. ~HasApproved(f)'
  BY <1>1 DEF HasApproved, IInv, TypeOK, OneLivePerFacility, Live, GiftDeletes
<1>3. \A g \in Facilities \ {f} : HasApproved(g)' <=> HasApproved(g)
  BY <1>1 DEF HasApproved, GiftDeletes, IInv, TypeOK
<1>4. \A g \in Facilities : Published(g)' = IF g = f THEN {} ELSE Published(g)
  BY <1>1, <1>2, <1>3, PublishedIsWhole, PublishedIsWholePrime DEF WholeOrNothing
<1>5. ASSUME NEW b \in Attempts, FacilityOf[b] = f, Answer(b) = "created"
      PROVE  FALSE
  <2>1. wp[b] = wp[a]
    BY <1>1, <1>5, ConfirmedIsApproved DEF IInv, OneLivePerFacility, Live
  <2>2. b = a
    BY <1>1, <2>1 DEF IInv, OneOwner
  <2> QED
    BY <1>5, <2>2, ConfirmedIsApproved
<1> HIDE DEF f
<1>6. Content' = [Content EXCEPT ![f] = {}]
  BY <1>1, <1>4 DEF Content
<1> QED
  BY <1>5, <1>6 DEF f

\* The many calls of an attempt implement publication in one step.
LEMMA StepIsContract ==
    ASSUME IInv, IInv', NEW a \in Attempts, Handle(a) \/ Crash(a)
    PROVE  Contract!ContractNext \/ (Content' = Content /\ Given' = Given)
<1> DEFINE f == FacilityOf[a]
<1>1. f \in Facilities
  BY CreationAssumption
<1>2. \A b \in Attempts \ {a} : Answer(b)' = Answer(b)
  BY DEF Answer, Handle, IInv, TypeOK, RejectPayload, AsyncValidation, CreateInitialFacility,
         CreateOne, CheckResponses, Approved, FinallyHandler, Crash, Leave, LosesAnswer, WaitsForEver
<1>3. Given' = [Given EXCEPT ![a] = Answer(a)'] /\ (Answer(a)' = Answer(a) => Given' = Given)
  BY <1>2 DEF Given
<1>4. ASSUME Content' = Content, Answer(a) = "none",
             Answer(a)' \in {"none", "refused", "error"}
      PROVE  Contract!ContractNext \/ (Content' = Content /\ Given' = Given)
  <2>1. CASE Answer(a)' = "none"
    BY <1>3, <1>4, <2>1
  <2>2. CASE Answer(a)' \in {"refused", "error"}
    <3>1. Contract!Fail(a)
      BY <1>3, <1>4, <2>2 DEF Contract!Fail, Content, Given
    <3> QED
      BY <3>1 DEF Contract!ContractNext
  <2> QED
    BY <1>4, <2>1, <2>2
<1>5. CASE \/ RejectPayload(a) \/ AsyncValidation(a) \/ CheckResponses(a) \/ Crash(a)
           \/ CreateInitialFacility(a) \/ \E e \in Entities(FacilityOf[a]) : CreateOne(a, e)
           \/ Approved(a) /\ UNCHANGED gift
           \/ FinallyHandler(a) /\ UNCHANGED gift
  <2>1. Content' = Content
    <3>1. \A w \in WorkPackages : wpState'[w] = "approved" <=> wpState[w] = "approved"
      BY <1>5 DEF IInv, TypeOK, RejectPayload, AsyncValidation, CheckResponses, Crash,
                  CreateInitialFacility, GiftCreatesFacility, CreateOne, GiftAddsEvent, gift
    <3>2. \A w \in WorkPackages : wpState[w] = "approved" => wpFacility'[w] = wpFacility[w]
      BY <1>5 DEF IInv, TypeOK, RejectPayload, AsyncValidation, CheckResponses, Crash,
                  CreateInitialFacility, GiftCreatesFacility, CreateOne, GiftAddsEvent, gift
    <3> QED
      BY <3>1, <3>2, NothingShown
  <2>2. Answer(a) = "none" /\ Answer(a)' \in {"none", "refused", "error"}
    BY <1>5 DEF Answer, IInv, TypeOK, Results, Answers, InStep, Working,
                RejectPayload, AsyncValidation, CheckResponses,
                Crash, CreateInitialFacility, CreateOne, Approved, GiftApproves,
                FinallyHandler, Leave, LosesAnswer, WaitsForEver, gift
  <2> QED
    BY <1>4, <2>1, <2>2
<1>6. CASE Approved(a) /\ GiftApproves(wp[a])
  <2>1. /\ Content[f] = {}
        /\ Content' = [Content EXCEPT ![f] = Entities(f)]
        /\ \A b \in Attempts : FacilityOf[b] = f => Answer(b) # "created"
    BY <1>6, ApprovalPublishes DEF Approved
  <2>2. Answer(a) = "none" /\ Answer(a)' \in {"none", "created"}
    BY <1>6 DEF Answer, IInv, TypeOK, Approved, Leave, LosesAnswer, WaitsForEver
  <2>3. Contract!Publish(a)
    BY <1>1, <1>3, <2>1, <2>2 DEF Contract!Publish, Contract!NotConfirmed, Content, Given
  <2> QED
    BY <2>3 DEF Contract!ContractNext
<1>7. CASE FinallyHandler(a) /\ wp[a] # None /\ GiftDeletes(wp[a])
  <2>1. /\ Content' = [Content EXCEPT ![f] = {}]
        /\ \A b \in Attempts : FacilityOf[b] = f => Answer(b) # "created"
    BY <1>7, DeletionWithdraws DEF FinallyHandler
  <2>2. Answer(a) = "none" /\ Answer(a)' \in {"none", "refused", "error"}
    BY <1>7 DEF Answer, IInv, TypeOK, Results, Answers, FinallyHandler
  <2>3. Contract!Withdraw(a)
    BY <1>1, <1>3, <2>1, <2>2 DEF Contract!Withdraw, Contract!NotConfirmed, Content, Given
  <2> QED
    BY <2>3 DEF Contract!ContractNext
<1> QED
  BY <1>5, <1>6, <1>7 DEF Handle, Approved, FinallyHandler

\* create() implements its contract: for any number of overlapping attempts a
\* facility appears as a whole or not at all, and is never withdrawn once
\* somebody has been answered 201.
THEOREM CreationIsPublication == Spec => PublicationContract
<1>1. Init => Contract!ContractInit
  BY DEF Init, Contract!ContractInit, Published, Answer
<1>2. IInv /\ IInv' /\ [Next]_vars => [Contract!ContractNext]_(Contract!contractVars)
  <2>1. ASSUME IInv, IInv', UNCHANGED vars
        PROVE  UNCHANGED Contract!contractVars
    BY <2>1 DEF vars, Contract!contractVars, Published, Held, Answer
  <2>2. ASSUME IInv, IInv', NEW a \in Attempts, Handle(a) \/ Crash(a)
        PROVE  [Contract!ContractNext]_(Contract!contractVars)
    BY <2>2, StepIsContract DEF Contract!contractVars, Content, Given
  <2> QED
    BY <2>1, <2>2 DEF Next
<1> QED
  BY Inductive, <1>1, <1>2, PTL DEF Spec, PublicationContract, Contract!ContractSpec

=============================================================================
