---------------------------- MODULE GiftAmendment ----------------------------
(***************************************************************************)
(* GiftFacilityAmendmentService.create, behind                             *)
(* POST /gift/facility/:facilityId/amendment/without-queue, for the        *)
(* amendments of one facility.  One action is one GIFT call together with  *)
(* the local code up to the next call, as in GiftFacilityCreation.         *)
(*                                                                         *)
(* GIFT is external.  Assumed of it: an open work package takes events and *)
(* an approval, which applies them to the facility; an increase or a       *)
(* decrease of the amount is refused when it is none; a new expiry date    *)
(* moves the obligations that follow the facility; and any request may be  *)
(* refused, or fail with or without an effect.                             *)
(***************************************************************************)
EXTENDS Integers, Sequences

CONSTANTS
    Attempts,        \* calls of the endpoint
    WorkPackages,    \* the work package IDs GIFT can hand out
    None,
    KindOf,          \* amendmentType of each attempt
    NewValue,        \* its new amount or expiry date
    Follows,         \* maturityDateFollowsFacility of each obligation, in order
    Percentage,      \* what PERCENTAGE_OF_FACILITY_AMOUNT has for the facility
    InitialFacility, \* the facility as GIFT has it at first
    Serial           \* whether one attempt ends before another begins

ObligationIds == 1..Len(Follows)
FacilityEvent == 0
Targets == {FacilityEvent} \cup ObligationIds
AmountKinds == {"IncreaseAmount", "DecreaseAmount"}
ExpiryKinds == {"ReplaceExpiryDate"}

Facilities == [amount: Nat, expiry: Nat,
               share: [ObligationIds -> Nat], maturity: [ObligationIds -> Nat]]

ASSUME AmendmentAssumption ==
    /\ None \notin WorkPackages
    /\ KindOf \in [Attempts -> AmountKinds \cup ExpiryKinds]
    /\ NewValue \in [Attempts -> Nat]
    /\ Follows \in Seq(BOOLEAN)
    /\ Percentage \in 0..100
    /\ InitialFacility \in Facilities
    /\ Serial \in BOOLEAN

VARIABLES
    pc,        \* where each attempt is
    wp,        \* workPackageId of each attempt
    original,  \* the expiry date of the facility an attempt has read
    posted,    \* how many events of its plan an attempt has posted
    result,    \* what it answers
    wpState,   \* GIFT: the state of each work package
    events,    \* GIFT: the events each work package holds, <<attempt, target>>
    facility   \* GIFT: the facility with all that was approved

gift == <<wpState, events, facility>>
vars == <<pc, wp, original, posted, result, wpState, events, facility>>

TypeOK ==
    /\ pc \in [Attempts -> {"received", "creating", "posting", "deleting", "done", "crashed"}]
    /\ wp \in [Attempts -> WorkPackages \cup {None}]
    /\ \A a \in Attempts : pc[a] \in {"posting", "deleting"} => wp[a] # None
    /\ original \in [Attempts -> Nat]
    /\ posted \in [Attempts -> Nat]
    /\ result \in [Attempts -> {"none", "created", "refused", "error"}]
    /\ wpState \in [WorkPackages -> {"unused", "open", "approved", "deleted"}]
    /\ events \in [WorkPackages -> SUBSET (Attempts \X Targets)]
    /\ facility \in Facilities

Init ==
    /\ pc = [a \in Attempts |-> "received"]
    /\ wp = [a \in Attempts |-> None]
    /\ original = [a \in Attempts |-> 0]
    /\ posted = [a \in Attempts |-> 0]
    /\ result = [a \in Attempts |-> "none"]
    /\ wpState = [w \in WorkPackages |-> "unused"]
    /\ events = [w \in WorkPackages |-> {}]
    /\ facility = InitialFacility

-----------------------------------------------------------------------------
\* calculatePercentageAmount: rounds half up, in integers.
CalculatePercentageAmount(amount, percentage) == (amount * percentage + 50) \div 100

\* hasObligationsWithMaturityDateNotFollowingFacility
SomeDoNotFollow == \E o \in ObligationIds : ~Follows[o]

(***************************************************************************)
(* The GIFT API (external).                                                *)
(***************************************************************************)

\* The attempts with an amendment of these kinds, to one of these targets, in
\* work package w: one at most, for a work package is of one attempt.
Amenders(w, kinds, targets) ==
    {a \in Attempts : KindOf[a] \in kinds /\ \E o \in targets : <<a, o>> \in events[w]}

\* What they amend old to.
Amended(w, kinds, targets, old) ==
    IF Amenders(w, kinds, targets) = {} THEN old
    ELSE NewValue[CHOOSE a \in Amenders(w, kinds, targets) : TRUE]

\* What moves the maturity date of obligation o.
Movers(o) == {o} \cup (IF Follows[o] THEN {FacilityEvent} ELSE {})

\* The facility as it would be with work package w approved.
Draft(w) ==
    [amount |-> Amended(w, AmountKinds, {FacilityEvent}, facility.amount),
     expiry |-> Amended(w, ExpiryKinds, {FacilityEvent}, facility.expiry),
     share |-> [o \in ObligationIds |->
         IF Amenders(w, AmountKinds, {o}) = {} THEN facility.share[o]
         ELSE CalculatePercentageAmount(Amended(w, AmountKinds, {o}, 0), Percentage)],
     maturity |-> [o \in ObligationIds |->
         Amended(w, ExpiryKinds, Movers(o), facility.maturity[o])]]

GiftTakes(a, o) ==
    /\ wpState[wp[a]] = "open"
    /\ KindOf[a] = "IncreaseAmount" /\ o = FacilityEvent => NewValue[a] > Draft(wp[a]).amount
    /\ KindOf[a] = "DecreaseAmount" /\ o = FacilityEvent => NewValue[a] < Draft(wp[a]).amount
    /\ events' = [events EXCEPT ![wp[a]] = @ \cup {<<a, o>>}]
    /\ UNCHANGED <<wpState, facility>>

GiftDeletes(w) ==
    /\ wpState[w] = "open"
    /\ wpState' = [wpState EXCEPT ![w] = "deleted"]
    /\ events' = [events EXCEPT ![w] = {}]
    /\ UNCHANGED facility

GiftApproves(w) ==
    /\ wpState[w] = "open"
    /\ wpState' = [wpState EXCEPT ![w] = "approved"]
    /\ facility' = Draft(w)
    /\ UNCHANGED events

-----------------------------------------------------------------------------
(***************************************************************************)
(* GiftFacilityAmendmentService.create                                     *)
(***************************************************************************)
Finish(a, r) ==
    /\ pc' = [pc EXCEPT ![a] = "done"]
    /\ result' = [result EXCEPT ![a] = r]

\* The catch block: the error is rethrown, nothing in GIFT is undone.
Throw(a) == Finish(a, "error") /\ UNCHANGED <<wp, original, posted>>

\* The ValidationPipe answers 400, or giftFacilityService.get is called: any
\* status but 200 is handed to the caller.
GetFacility(a) ==
    /\ pc[a] = "received"
    /\ Serial => \A b \in Attempts : pc[b] \in {"received", "done", "crashed"}
    /\ \/ /\ pc' = [pc EXCEPT ![a] = "creating"]
          /\ original' = [original EXCEPT ![a] = facility.expiry]
          /\ UNCHANGED result
       \/ \E r \in {"refused", "error"} : Finish(a, r) /\ UNCHANGED original
    /\ UNCHANGED <<wp, posted, gift>>

FacilityFirst == [i \in 1..(Len(Follows) + 1) |-> i - 1]
ObligationsFirst ==
    [i \in 1..(Len(Follows) + 1) |-> IF i <= Len(Follows) THEN i ELSE FacilityEvent]

PlanOutward(a) ==   \* variant: the facility first, whatever the amendment
    FacilityFirst

\* The targets in the order of the calls: the facility before its obligations
\* when it grows, after them when it shrinks, so that none exceeds it on the way.
Plan(a) ==
    LET shorter == NewValue[a] < original[a]
    IN  IF KindOf[a] \in ExpiryKinds /\ ~SomeDoNotFollow
        THEN <<FacilityEvent>>
        ELSE IF KindOf[a] = "DecreaseAmount" \/ (KindOf[a] \in ExpiryKinds /\ shorter)
             THEN ObligationsFirst
             ELSE FacilityFirst

NextTarget(a) == Plan(a)[posted[a] + 1]

CreateWorkPackageUnchecked(a) ==   \* variant: the status is not looked at
    /\ pc[a] = "creating"
    /\ pc' = [pc EXCEPT ![a] = "posting"]
    /\ UNCHANGED <<wp, original, posted, result, gift>>

\* giftWorkPackageService.create: any status but 201 is handed to the caller.
\* The work package may be there although the call, or the reading of what
\* was answered and of the facility, throws.
CreateWorkPackage(a) ==
    /\ pc[a] = "creating"
    /\ \/ \E w \in WorkPackages :
            /\ wpState[w] = "unused"
            /\ wpState' = [wpState EXCEPT ![w] = "open"]
            /\ UNCHANGED <<events, facility>>
            /\ \/ /\ wp' = [wp EXCEPT ![a] = w]
                  /\ pc' = [pc EXCEPT ![a] = "posting"]
                  /\ UNCHANGED result
               \/ /\ wp' = [wp EXCEPT ![a] = w] \/ UNCHANGED wp
                  /\ Finish(a, "error")
       \/ /\ \E r \in {"refused", "error"} : Finish(a, r)
          /\ UNCHANGED <<wp, gift>>
    /\ UNCHANGED <<original, posted>>

AfterRefusalIgnored(a, o) ==   \* variant: a refused amount is not looked at
    UNCHANGED pc

\* Only giftAmountAmendmentService.facility looks at the status it gets, and
\* deletes the work package when it is not 201.
AfterRefusal(a, o) ==
    IF o = FacilityEvent /\ KindOf[a] \in AmountKinds
    THEN pc' = [pc EXCEPT ![a] = "deleting"]
    ELSE UNCHANGED pc

\* The next call of facility() or obligations() of the two services.
PostEvent(a) ==
    /\ pc[a] = "posting"
    /\ posted[a] < Len(Plan(a))
    /\ \/ /\ posted' = [posted EXCEPT ![a] = @ + 1]
          /\ \/ GiftTakes(a, NextTarget(a)) /\ UNCHANGED pc
             \/ AfterRefusal(a, NextTarget(a)) /\ UNCHANGED gift
          /\ UNCHANGED <<wp, original, result>>
       \/ /\ Throw(a)
          /\ GiftTakes(a, NextTarget(a)) \/ UNCHANGED gift

\* giftHttpService.delete: anything but a 204 throws.  After a deletion the
\* calls go on: facility() has returned as if nothing had happened.
DeleteWorkPackage(a) ==
    /\ pc[a] = "deleting"
    /\ \/ /\ GiftDeletes(wp[a])
          /\ pc' = [pc EXCEPT ![a] = "posting"]
          /\ UNCHANGED <<wp, original, posted, result>>
       \/ /\ Throw(a)
          /\ GiftDeletes(wp[a]) \/ UNCHANGED gift

ApproveWorkPackageUnchecked(a) ==   \* variant: the status is not looked at
    /\ pc[a] = "posting"
    /\ posted[a] = Len(Plan(a))
    /\ GiftApproves(wp[a]) \/ UNCHANGED gift
    /\ Finish(a, "created")
    /\ UNCHANGED <<wp, original, posted>>

\* approveWorkPackage: anything but a 200 throws.
ApproveWorkPackage(a) ==
    /\ pc[a] = "posting"
    /\ posted[a] = Len(Plan(a))
    /\ \/ /\ GiftApproves(wp[a])
          /\ Finish(a, "created")
          /\ UNCHANGED <<wp, original, posted>>
       \/ /\ Throw(a)
          /\ GiftApproves(wp[a]) \/ UNCHANGED gift

Crash(a) ==
    /\ pc[a] \notin {"received", "done", "crashed"}
    /\ pc' = [pc EXCEPT ![a] = "crashed"]
    /\ UNCHANGED <<wp, original, posted, result, gift>>

-----------------------------------------------------------------------------
Next ==
    \E a \in Attempts :
        \/ GetFacility(a)
        \/ CreateWorkPackage(a)
        \/ PostEvent(a)
        \/ DeleteWorkPackage(a)
        \/ ApproveWorkPackage(a)
        \/ Crash(a)

Spec == Init /\ [][Next]_vars

-----------------------------------------------------------------------------
(***************************************************************************)
(* Properties                                                              *)
(***************************************************************************)
Holds(w, o) == \E a \in Attempts : <<a, o>> \in events[w]

ToDo(a, o) == \E i \in (posted[a] + 1)..Len(Plan(a)) : Plan(a)[i] = o

\* The plan of a had an event for o, which GIFT refused.
Refused(a, o) ==
    /\ \E i \in 1..posted[a] : Plan(a)[i] = o
    /\ ~Holds(wp[a], o)

Exceeds(f, o) == f.share[o] > f.amount \/ f.maturity[o] > f.expiry

\* An increase that is none is refused by GIFT at once, a decrease that is none
\* only after the obligations.
IsDecrease(a) == KindOf[a] = "DecreaseAmount" => NewValue[a] < facility.amount

\* At no point between two calls does an attempt have GIFT hold an obligation
\* that exceeds its facility, in amount or in time, unless GIFT refused its own
\* amendment or that of the facility (the order in which create() calls the
\* services).  One attempt at a time, so that what was read of the facility
\* still holds.
DraftWithinFacility ==
    \A a \in Attempts :
        pc[a] = "posting" /\ wpState[wp[a]] = "open" /\ IsDecrease(a) =>
            \A o \in ObligationIds :
                Exceeds(Draft(wp[a]), o) /\ ~Exceeds(facility, o)
                => Refused(a, o) \/ Refused(a, FacilityEvent)

\* A 201 for an amount amendment means that GIFT has approved a work package
\* with the new amount of the facility: after a refusal the work package is
\* deleted, and the approval that is still asked for cannot succeed.
CreatedHasNewAmount ==
    \A a \in Attempts : result[a] = "created" =>
        /\ wpState[wp[a]] = "approved"
        /\ KindOf[a] \in AmountKinds => Holds(wp[a], FacilityEvent)

\* What the amendment of an attempt makes of facility f: the new amount, and
\* shares of it; or the new expiry date, and maturity dates; the one or the
\* other of the latter left as it was where GIFT refused the event.
AmendedTo(a, f, g) ==
    /\ g \in Facilities
    /\ KindOf[a] \in AmountKinds =>
          /\ g.amount = NewValue[a] /\ g.expiry = f.expiry /\ g.maturity = f.maturity
          /\ \A o \in ObligationIds :
                g.share[o] \in {f.share[o], CalculatePercentageAmount(NewValue[a], Percentage)}
    /\ KindOf[a] \in ExpiryKinds =>
          /\ g.amount = f.amount /\ g.share = f.share
          /\ g.expiry \in {f.expiry, NewValue[a]}
          /\ \A o \in ObligationIds : g.maturity[o] \in {f.maturity[o], NewValue[a]}

Contract == INSTANCE FacilityAmendments WITH
    Requests <- Attempts,
    Before <- InitialFacility,
    Amends <- AmendedTo,
    shown <- facility,
    answer <- result

\* create() implements amendment in one step: however many events an attempt
\* posts, GIFT shows them together or none, on top of what others have had
\* approved since the facility was read; a 201 is for an amount that shows.
AmendmentContract == Contract!AmendmentsSpec

\* What the doc comment of create() says of a success: the approved work
\* package has all amendments.
CreatedHasAllAmendments ==
    \A a \in Attempts : result[a] = "created" =>
        \A i \in 1..Len(Plan(a)) : Holds(wp[a], Plan(a)[i])

\* What the doc comment of create() says of an error: the work package that
\* was created before is deleted.
ErrorDeletesWorkPackage ==
    \A a \in Attempts :
        result[a] = "error" /\ wp[a] # None => wpState[wp[a]] = "deleted"

\* What the comment on the order of calls says: when the new expiry date is
\* less than the current one, the obligations are amended before the facility.
OrderFollowsCurrentExpiry ==
    [][\A a \in Attempts :
          /\ KindOf[a] = "ReplaceExpiryDate"
          /\ NewValue[a] < facility.expiry
          /\ ToDo(a, FacilityEvent) /\ ~ToDo(a, FacilityEvent)'
          => \A o \in ObligationIds : ~ToDo(a, o)]_vars
=============================================================================
