------------------------ MODULE GiftFacilityCreation ------------------------
(***************************************************************************)
(* GiftFacilityService.create, the try/catch/finally handler behind        *)
(* POST /gift/facility/without-queue, run by several concurrent attempts   *)
(* against the GIFT API.  A queue message that is delivered again while    *)
(* tfs-api still works on an earlier delivery makes two attempts for one   *)
(* facility overlap, so attempts interleave call by call.                  *)
(*                                                                         *)
(* One action is one GIFT call together with the local code that runs up   *)
(* to the next call.  A call is accepted, refused with a status that       *)
(* GiftHttpService returns, or throws (any other status, a connection that *)
(* breaks), with or without an effect in GIFT; or it is never answered,    *)
(* which axios, created without a timeout, waits for without end.          *)
(*                                                                         *)
(* GIFT is external.  What is assumed of it is what the code relies on: a  *)
(* facility ID has at most one work package that is not deleted, only an   *)
(* open work package takes configuration events or an approval, and it may *)
(* refuse any request.                                                     *)
(***************************************************************************)
EXTENDS Naturals

CONSTANTS
    Attempts,      \* calls of POST /gift/facility/without-queue
    Facilities,    \* facility IDs
    WorkPackages,  \* the work package IDs GIFT can hand out
    None,          \* no work package
    FacilityOf,    \* overview.facilityId of each attempt
    Payload        \* number of entities of each kind in a facility's payload

(***************************************************************************)
(* The kinds of entity, numbered in the order create() posts them.         *)
(***************************************************************************)
BusinessCalendar == 1
BusinessCalendarsConvention == 2
Counterparty == 3
FixedFee == 4
Obligation == 5
AccrualSchedule == 6
RepaymentProfile == 7
RiskDetails == 8
Kinds == 1..8

ASSUME CreationAssumption ==
    /\ None \notin WorkPackages
    /\ FacilityOf \in [Attempts -> Facilities]
    /\ Payload \in [Facilities -> [Kinds -> Nat]]

Entities(f) == UNION {{k} \X (1..Payload[f][k]) : k \in Kinds}

Before(d, e) == d[1] < e[1] \/ (d[1] = e[1] /\ d[2] < e[2])

VARIABLES
    pc,          \* where each attempt is
    wp,          \* facilityWorkPackageId of each attempt
    posted,      \* the entities an attempt has posted and got an answer for
    refused,     \* those of them answered with a status other than 201
    result,      \* what the attempt answers: set when decided, sent at "done"
    severe,      \* attempts that logged 'Severe error ... deleting work package'
    wpState,     \* GIFT: the state of each work package
    wpFacility,  \* GIFT: the facility each work package creates
    events       \* GIFT: <<kind, index, obligation>> held by a work package

local == <<pc, wp, posted, refused, result, severe>>
gift == <<wpState, wpFacility, events>>
vars == <<pc, wp, posted, refused, result, severe, wpState, wpFacility, events>>

Steps == {"received", "creating", "posting", "approving", "finally", "done", "crashed",
          "unanswered"}
Results == {"none", "created", "refused", "error"}
WorkPackageStates == {"unused", "open", "approved", "deleted"}

RefusedArePosted == \A a \in Attempts : refused[a] \subseteq posted[a]

TypeOK ==
    /\ pc \in [Attempts -> Steps]
    /\ wp \in [Attempts -> WorkPackages \cup {None}]
    /\ posted \in [Attempts -> SUBSET (Kinds \X Nat)]
    /\ refused \in [Attempts -> SUBSET (Kinds \X Nat)]
    /\ RefusedArePosted
    /\ result \in [Attempts -> Results]
    /\ severe \in SUBSET Attempts
    /\ wpState \in [WorkPackages -> WorkPackageStates]
    /\ wpFacility \in [WorkPackages -> Facilities \cup {None}]
    /\ events \in [WorkPackages -> SUBSET (Kinds \X Nat \X Nat)]

Init ==
    /\ pc = [a \in Attempts |-> "received"]
    /\ wp = [a \in Attempts |-> None]
    /\ posted = [a \in Attempts |-> {}]
    /\ refused = [a \in Attempts |-> {}]
    /\ result = [a \in Attempts |-> "none"]
    /\ severe = {}
    /\ wpState = [w \in WorkPackages |-> "unused"]
    /\ wpFacility = [w \in WorkPackages |-> None]
    /\ events = [w \in WorkPackages |-> {}]

-----------------------------------------------------------------------------
(***************************************************************************)
(* The GIFT API (external).                                                *)
(***************************************************************************)
Live(w) == wpState[w] \in {"open", "approved"}

\* The entities of which w holds a configuration event.
Held(w) == {<<v[1], v[2]>> : v \in events[w]}

GiftCreatesFacility(w, f) ==
    /\ wpState[w] = "unused"
    /\ \A x \in WorkPackages : wpFacility[x] = f => ~Live(x)
    /\ wpState' = [wpState EXCEPT ![w] = "open"]
    /\ wpFacility' = [wpFacility EXCEPT ![w] = f]
    /\ UNCHANGED events

GiftAddsEvent(w, v) ==
    /\ wpState[w] = "open"
    /\ events' = [events EXCEPT ![w] = @ \cup {v}]
    /\ UNCHANGED <<wpState, wpFacility>>

GiftApproves(w) ==
    /\ wpState[w] = "open"
    /\ wpState' = [wpState EXCEPT ![w] = "approved"]
    /\ UNCHANGED <<wpFacility, events>>

GiftDeletes(w) ==
    /\ Live(w)
    /\ wpState' = [wpState EXCEPT ![w] = "deleted"]
    /\ events' = [events EXCEPT ![w] = {}]
    /\ UNCHANGED wpFacility

-----------------------------------------------------------------------------
(***************************************************************************)
(* GiftFacilityService.create                                              *)
(***************************************************************************)

ForgetPosted(a) ==   \* variant: the errors survive the attempt's responses
    posted' = [posted EXCEPT ![a] = {}] /\ UNCHANGED refused

\* The responses collected in the try block are out of scope after it.
ForgetResponses(a) ==
    /\ posted' = [posted EXCEPT ![a] = {}]
    /\ refused' = [refused EXCEPT ![a] = {}]

\* The try block is left with outcome r; the finally block is next.
Leave(a, r) ==
    /\ pc' = [pc EXCEPT ![a] = "finally"]
    /\ result' = [result EXCEPT ![a] = r]
    /\ ForgetResponses(a)

\* GIFT never answers the call that the attempt has made: create() stays at its
\* await, and neither its catch nor its finally block is reached, nor anything
\* that reads the responses.
WaitsForEver(a) ==
    /\ pc' = [pc EXCEPT ![a] = "unanswered"]
    /\ ForgetResponses(a)
    /\ UNCHANGED result

\* A call without an answer: it throws, or waits for ever.
LosesAnswer(a) == Leave(a, "error") \/ WaitsForEver(a)

\* The global ValidationPipe answers 400 before create() is called.
RejectPayload(a) ==
    /\ pc[a] = "received"
    /\ pc' = [pc EXCEPT ![a] = "done"]
    /\ result' = [result EXCEPT ![a] = "refused"]
    /\ UNCHANGED <<wp, posted, refused, severe, gift>>

\* asyncValidationService.creation finds nothing, finds errors, throws, or waits.
\* It reads reference data only: whether the facility exists is not looked at.
AsyncValidation(a) ==
    /\ pc[a] = "received"
    /\ \/ /\ pc' = [pc EXCEPT ![a] = "creating"]
          /\ UNCHANGED <<posted, refused, result>>
       \/ Leave(a, "refused") \/ LosesAnswer(a)
    /\ UNCHANGED <<wp, severe, gift>>

\* POST create-facility: answered 201, refused, or with its answer lost; if GIFT
\* has created the facility then, the work package ID is never learned.
CreateInitialFacility(a) ==
    /\ pc[a] = "creating"
    /\ \/ \E w \in WorkPackages :
            /\ GiftCreatesFacility(w, FacilityOf[a])
            /\ \/ /\ wp' = [wp EXCEPT ![a] = w]
                  /\ pc' = [pc EXCEPT ![a] = "posting"]
                  /\ UNCHANGED <<posted, refused, result>>
               \/ LosesAnswer(a) /\ UNCHANGED wp
       \/ /\ Leave(a, "refused") \/ LosesAnswer(a)
          /\ UNCHANGED <<wp, gift>>
    /\ UNCHANGED severe

\* The id getObligationIds and mapAccrualSchedulesPayload give to the i-th
\* accrual schedule: that of the i-th obligation, or 0 for undefined when
\* there is no such obligation or its answer carried no id.
ObligationIdShifted(a, i) ==   \* variant: ids read one place too early
    IF <<Obligation, i>> \in posted[a] \ refused[a] THEN i - 1 ELSE 0

ObligationId(a, i) ==
    IF <<Obligation, i>> \in posted[a] \ refused[a] THEN i ELSE 0

EventOf(a, e) ==
    <<e[1], e[2], IF e[1] = AccrualSchedule THEN ObligationId(a, e[2]) ELSE 0>>

NextEntityIfAccepted(a, e) ==   \* variant: waits for every earlier 201
    /\ e \in Entities(FacilityOf[a]) \ posted[a]
    /\ \A d \in Entities(FacilityOf[a]) :
          Before(d, e) => d \in posted[a] \ refused[a]

NextEntity(a, e) ==
    /\ e \in Entities(FacilityOf[a]) \ posted[a]
    /\ \A d \in Entities(FacilityOf[a]) : Before(d, e) => d \in posted[a]

\* createOne of the entity services: one POST of a configuration event.
CreateOne(a, e) ==
    /\ pc[a] = "posting"
    /\ NextEntity(a, e)
    /\ \/ /\ posted' = [posted EXCEPT ![a] = @ \cup {e}]
          /\ \/ GiftAddsEvent(wp[a], EventOf(a, e)) /\ UNCHANGED refused
             \/ refused' = [refused EXCEPT ![a] = @ \cup {e}] /\ UNCHANGED gift
          /\ UNCHANGED <<pc, result>>
       \/ /\ LosesAnswer(a)
          /\ GiftAddsEvent(wp[a], EventOf(a, e)) \/ UNCHANGED gift
    /\ UNCHANGED <<wp, severe>>

CheckResponsesUnread(a) ==   \* variant: the collected errors are not read
    /\ pc[a] = "posting"
    /\ posted[a] = Entities(FacilityOf[a])
    /\ pc' = [pc EXCEPT ![a] = "approving"]
    /\ UNCHANGED <<wp, posted, refused, result, severe, gift>>

CheckResponsesLate(a) ==   \* variant: approves first, reads the errors after
    /\ pc[a] = "posting"
    /\ posted[a] = Entities(FacilityOf[a])
    /\ GiftApproves(wp[a])
    /\ \E r \in {"created", "refused"} : (r = "created" <=> refused[a] = {}) /\ Leave(a, r)
    /\ UNCHANGED <<wp, severe>>

\* mapAllValidationErrorResponses, and the early return when it finds one.
CheckResponses(a) ==
    /\ pc[a] = "posting"
    /\ posted[a] = Entities(FacilityOf[a])
    /\ \/ /\ refused[a] = {}
          /\ pc' = [pc EXCEPT ![a] = "approving"]
          /\ UNCHANGED <<posted, refused, result>>
       \/ refused[a] # {} /\ Leave(a, "refused")
    /\ UNCHANGED <<wp, severe, gift>>

ApprovedNoSuccess(a) ==   \* variant: success is never set to true
    /\ pc[a] = "approving"
    /\ GiftApproves(wp[a]) \/ UNCHANGED gift
    /\ \E r \in {"created", "error"} : Leave(a, r)
    /\ UNCHANGED <<wp, severe>>

\* giftStatusService.approved.  Anything but a 200 throws; so does a 200 whose
\* body the response mapping cannot read, which is one of the last outcomes.
Approved(a) ==
    /\ pc[a] = "approving"
    /\ \/ /\ GiftApproves(wp[a])
          /\ pc' = [pc EXCEPT ![a] = "done"]
          /\ result' = [result EXCEPT ![a] = "created"]
          /\ ForgetResponses(a)
       \/ LosesAnswer(a) /\ UNCHANGED gift
       \/ LosesAnswer(a) /\ GiftApproves(wp[a])
    /\ UNCHANGED <<wp, severe>>

FinallyHandlerSilent(a) ==   \* variant: a failed deletion is swallowed unlogged
    /\ pc[a] = "finally"
    /\ pc' = [pc EXCEPT ![a] = "done"]
    /\ \/ wp[a] # None /\ GiftDeletes(wp[a])
       \/ UNCHANGED gift
    /\ UNCHANGED <<wp, posted, refused, result, severe>>

\* finallyHandler: delete the work package.  Without a work package ID, and
\* when the deletion throws, a severe error is logged and swallowed.  A
\* deletion that is never answered keeps create() from answering.
FinallyHandler(a) ==
    /\ pc[a] = "finally"
    /\ \/ /\ wp[a] = None
          /\ pc' = [pc EXCEPT ![a] = "done"]
          /\ severe' = severe \cup {a}
          /\ UNCHANGED gift
       \/ /\ wp[a] # None
          /\ pc' = [pc EXCEPT ![a] = "done"]
          /\ \/ GiftDeletes(wp[a]) /\ UNCHANGED severe
             \/ /\ severe' = severe \cup {a}
                /\ GiftDeletes(wp[a]) \/ UNCHANGED gift
       \/ /\ wp[a] # None
          /\ pc' = [pc EXCEPT ![a] = "unanswered"]
          /\ GiftDeletes(wp[a]) \/ UNCHANGED gift
          /\ UNCHANGED severe
    /\ UNCHANGED <<wp, posted, refused, result>>

\* The tfs-api process stops: no catch, no finally, no answer.
Crash(a) ==
    /\ pc[a] \notin {"done", "crashed"}
    /\ pc' = [pc EXCEPT ![a] = "crashed"]
    /\ ForgetResponses(a)
    /\ UNCHANGED <<wp, result, severe, gift>>

-----------------------------------------------------------------------------
Handle(a) ==
    \/ RejectPayload(a)
    \/ AsyncValidation(a)
    \/ CreateInitialFacility(a)
    \/ \E e \in Entities(FacilityOf[a]) : CreateOne(a, e)
    \/ CheckResponses(a)
    \/ Approved(a)
    \/ FinallyHandler(a)

Next == \E a \in Attempts : Handle(a) \/ Crash(a)

Spec == Init /\ [][Next]_vars

-----------------------------------------------------------------------------
(***************************************************************************)
(* Properties                                                              *)
(***************************************************************************)

Complete(w) == Held(w) = Entities(wpFacility[w])

\* GIFT never holds an approved work package with part of a payload: whatever
\* calls were refused, lost or cut short by a crash, and whichever attempts
\* overlapped, approval only follows when every entity was accepted
\* (the check of all responses before the approval).
ApprovedIsComplete ==
    \A w \in WorkPackages : wpState[w] = "approved" => Complete(w)

\* In an approved work package the i-th accrual schedule refers to the i-th
\* obligation of that same work package, never to none or to another one
\* (getObligationIds and mapAccrualSchedulesPayload).
AccrualSchedulesLinked ==
    \A w \in WorkPackages : wpState[w] = "approved" =>
        \A v \in events[w] :
            /\ v[1] = AccrualSchedule
            /\ v[2] <= Payload[wpFacility[w]][Obligation]
            => v[3] = v[2] /\ <<Obligation, v[3]>> \in Held(w)

\* A 201 is final: from the moment an attempt answers it, its work package is
\* approved and complete, no other attempt (its own finally block included)
\* deletes it, and no second attempt is answered 201 for the facility.
CreatedIsDurable ==
    \A a \in Attempts : result[a] = "created" =>
        /\ wp[a] # None
        /\ wpState[wp[a]] = "approved"
        /\ wpFacility[wp[a]] = FacilityOf[a]
        /\ Complete(wp[a])
        /\ \A b \in Attempts \ {a} :
              result[b] = "created" => FacilityOf[b] # FacilityOf[a]

\* A caller told that its request was refused (a 4xx) can rely on it: that
\* attempt has left nothing approved in GIFT.  Only a 500 leaves it open.
RefusedMeansNotApproved ==
    \A a \in Attempts :
        result[a] = "refused" /\ wp[a] # None => wpState[wp[a]] # "approved"

\* The finally block leaves no silent leftover: when an attempt has answered
\* with a failure and its work package is still there, keeping the facility ID
\* taken, the attempt has logged the severe error that says so.
LeftoversAreLogged ==
    \A a \in Attempts :
        /\ pc[a] = "done" /\ result[a] # "created"
        /\ wp[a] # None /\ Live(wp[a])
        => a \in severe

\* What GIFT shows of a facility, and what callers have been answered.
Published(f) ==
    UNION {Held(w) : w \in {x \in WorkPackages :
                              wpFacility[x] = f /\ wpState[x] = "approved"}}

Answer(a) == IF pc[a] = "done" THEN result[a] ELSE "none"

Contract == INSTANCE FacilityPublication WITH
    Requests <- Attempts,
    Targets <- Facilities,
    TargetOf <- FacilityOf,
    Whole <- Entities,
    content <- [f \in Facilities |-> Published(f)],
    answer <- [a \in Attempts |-> Answer(a)]

\* create() implements all-or-nothing publication: the many calls of an
\* attempt show as one step that publishes the whole facility, or as none, and
\* what a caller was told 201 about is never withdrawn.
PublicationContract == Contract!ContractSpec

\* Every attempt is answered, unless the process stops or GIFT never answers a
\* call of its own: neither what was refused or lost on its way, nor another
\* attempt that stops or waits for ever, keeps it from the end of create().
\* (gift.config has a timeout of 30 seconds, but GiftHttpService does not use it.)
EveryAttemptAnswers ==
    \A a \in Attempts : <>(pc[a] \in {"done", "crashed", "unanswered"})

=============================================================================
