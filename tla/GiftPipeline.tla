---------------------------- MODULE GiftPipeline ----------------------------
(***************************************************************************)
(* From the queue to GIFT and back.  GiftQueue decides which request is    *)
(* delivered to tfs-api, when and how often; each delivery is a call of    *)
(* one of the two without-queue endpoints, and what such a call may do to  *)
(* GIFT is the contract that GiftFacilityCreation and GiftAmendment        *)
(* implement.  A call outlives the host that made it: tfs-api works on     *)
(* while the message is delivered again, and an amendment can come before  *)
(* the delayed creation of its facility, or between two attempts at it.    *)
(***************************************************************************)
EXTENDS GiftQueue

CONSTANTS
    Facilities,
    FacilityOf    \* the facility each message is about

ASSUME PipelineAssumption == FacilityOf \in [Messages -> Facilities]

Creations == {m \in Messages : KindOf[m] \in {"creation", "delayedCreation"}}
Amendments == {m \in Messages : KindOf[m] = "amendment"}

\* A delivery is a message and the receipt it was taken with.  The function
\* runs for the first MaxDequeueCount receipts only.
CreationCalls == Creations \X (1..MaxDequeueCount)
AmendmentCalls == Amendments \X (1..MaxDequeueCount)
Calls == CreationCalls \cup AmendmentCalls

VARIABLES
    content,      \* GIFT: what it shows of each facility
    kept,         \* GIFT: the amendments it shows of each facility
    created,      \* the answer to each creation
    amended       \* the answer to each amendment

service == <<content, kept, created, amended>>
pipelineVars == <<vars, service>>

\* What a creation publishes of a facility: the whole of it.
Whole(f) == {f}

Creation == INSTANCE FacilityPublication WITH
    Requests <- CreationCalls,
    Targets <- Facilities,
    TargetOf <- [c \in CreationCalls |-> FacilityOf[c[1]]],
    answer <- created

\* What an amendment adds to what GIFT shows of its facility: itself.
AddsTo(c, old, new) == new = [old EXCEPT ![FacilityOf[c[1]]] = @ \cup {c[1]}]

Amendment == INSTANCE FacilityAmendments WITH
    Requests <- AmendmentCalls,
    Before <- [f \in Facilities |-> {}],
    Amends <- AddsTo,
    shown <- kept,
    answer <- amended

PipelineTypeOK ==
    /\ TypeOK
    /\ content \in [Facilities -> SUBSET Facilities]
    /\ kept \in [Facilities -> SUBSET Amendments]
    /\ created \in [CreationCalls -> {"none", "created", "refused", "error"}]
    /\ amended \in [AmendmentCalls -> {"none", "created", "refused", "error"}]

PipelineInit ==
    /\ Init
    /\ Creation!ContractInit
    /\ Amendment!AmendmentsInit

-----------------------------------------------------------------------------
(***************************************************************************)
(* tfs-api                                                                 *)
(***************************************************************************)
CallOf(h) == <<msg[h], receipt[h]>>

AnswerTo(c) == IF c \in CreationCalls THEN created[c] ELSE amended[c]

\* A host posts what it takes at once; tfs-api may get to it at any time.
AtWork(c) == c[2] <= dequeueCount[c[1]] /\ AnswerTo(c) = "none"

TakeBackWhatIsThere(c) ==   \* variant: deletes by facility, whoever created it
    /\ created[c] = "none"
    /\ content' = [content EXCEPT ![FacilityOf[c[1]]] = {}]
    /\ kept' = [kept EXCEPT ![FacilityOf[c[1]]] = {}]
    /\ UNCHANGED created

\* What the finally block withdraws takes its amendments with it.
TakeBack(c) ==
    /\ Creation!Withdraw(c)
    /\ kept' = [kept EXCEPT ![FacilityOf[c[1]]] = {}]

\* POST /gift/facility/without-queue
PostFacility(c) ==
    /\ c \in CreationCalls /\ AtWork(c)
    /\ \/ Creation!Publish(c) /\ UNCHANGED kept
       \/ TakeBack(c)
       \/ Creation!Fail(c) /\ UNCHANGED kept
    /\ UNCHANGED <<vars, amended>>

\* POST /gift/facility/:facilityId/amendment/without-queue: only a facility that
\* GIFT shows is amended.
PostAmendment(c) ==
    /\ c \in AmendmentCalls /\ AtWork(c)
    /\ \/ content[FacilityOf[c[1]]] # {} /\ Amendment!Amend(c)
       \/ Amendment!Reject(c)
    /\ UNCHANGED <<vars, content, created>>

-----------------------------------------------------------------------------
(***************************************************************************)
(* postToTfsApi                                                            *)
(***************************************************************************)
ConfirmedByAnyAnswer(h) ==   \* variant: the status is not looked at
    AnswerTo(CallOf(h)) # "none"

\* It returns for a 201 only, and throws for any other answer and for none.
Confirmed(h) == AnswerTo(CallOf(h)) = "created"

Returns(h) == step[h] = "calling" /\ step'[h] = "succeeded"

\* The queue and its function, as far as tfs-api lets a delivery succeed.
Deliver(A) ==
    /\ A
    /\ \A h \in Hosts : Returns(h) => Confirmed(h)
    /\ UNCHANGED service

PipelineNext ==
    \/ Deliver(Next)
    \/ \E c \in Calls : PostFacility(c) \/ PostAmendment(c)

PipelineSpec == PipelineInit /\ [][PipelineNext]_pipelineVars

-----------------------------------------------------------------------------
(***************************************************************************)
(* Properties                                                              *)
(***************************************************************************)

\* Once the queue counts a creation as done GIFT shows the facility, for good:
\* no delivery of it that is still at work, or comes later, takes it back.
CompletedIsInGift ==
    \A m \in completed \cap Creations : content[FacilityOf[m]] # {}

\* From the moment a creation is done, no amendment GIFT shows of the facility
\* is lost, whatever other deliveries of the creation still do.  Before that
\* one can be: it is confirmed between the approval of a creation, the answer
\* to which is lost, and the clean-up that deletes the facility again.
AmendmentsAreKept ==
    [][\A m \in completed \cap Creations :
          kept[FacilityOf[m]] \subseteq kept'[FacilityOf[m]]]_pipelineVars

\* What tfs-api does for the queue is what the queue was specified to expect:
\* all that is said of GiftQueue is true with tfs-api and GIFT behind it.
ImplementsQueue == Spec
=============================================================================
