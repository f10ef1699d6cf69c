------------------------ MODULE FacilityPublication -------------------------
(***************************************************************************)
(* What a client of facility creation is promised, with no work packages   *)
(* and no calls: a facility is published in GIFT as a whole or not at all, *)
(* by one of the requests for it; what is published can be withdrawn only  *)
(* while nobody has been answered 201; a 201 is given for a published      *)
(* facility, and to one request only.                                      *)
(***************************************************************************)
CONSTANTS
    Requests,      \* the requests made
    Targets,       \* the facilities they ask for
    TargetOf,      \* the facility of each request
    Whole(_)       \* everything a request for a facility asks to have created

VARIABLES
    content,       \* what GIFT shows of each facility
    answer         \* what each request has been answered

contractVars == <<content, answer>>

ContractInit ==
    /\ content = [f \in Targets |-> {}]
    /\ answer = [r \in Requests |-> "none"]

NotConfirmed(f) ==
    \A r \in Requests : TargetOf[r] = f => answer[r] # "created"

\* All of the facility appears at once; the request may be answered with it.
Publish(r) ==
    /\ answer[r] = "none"
    /\ content[TargetOf[r]] = {}
    /\ NotConfirmed(TargetOf[r])
    /\ content' = [content EXCEPT ![TargetOf[r]] = Whole(TargetOf[r])]
    /\ \/ UNCHANGED answer
       \/ answer' = [answer EXCEPT ![r] = "created"]

\* A request that failed takes the facility back.
Withdraw(r) ==
    /\ answer[r] = "none"
    /\ NotConfirmed(TargetOf[r])
    /\ content' = [content EXCEPT ![TargetOf[r]] = {}]
    /\ \/ UNCHANGED answer
       \/ \E s \in {"refused", "error"} : answer' = [answer EXCEPT ![r] = s]

Fail(r) ==
    /\ answer[r] = "none"
    /\ \E s \in {"refused", "error"} : answer' = [answer EXCEPT ![r] = s]
    /\ UNCHANGED content

ContractNext == \E r \in Requests : Publish(r) \/ Withdraw(r) \/ Fail(r)

ContractSpec == ContractInit /\ [][ContractNext]_contractVars
=============================================================================
