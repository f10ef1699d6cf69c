------------------------- MODULE FacilityAmendments -------------------------
(***************************************************************************)
(* What a client of facility amendment is promised, with no work packages  *)
(* and no calls: an amendment shows in one step or not at all, changes     *)
(* nothing it is not about, and is answered 201 only when it shows; after  *)
(* any other answer but a 500 it does not.                                 *)
(***************************************************************************)
CONSTANTS
    Requests,         \* the requests made
    Before,           \* what GIFT shows before any of them
    Amends(_, _, _)   \* what may be shown after a request, given what was before

VARIABLES
    shown,            \* what GIFT shows of the facility
    answer            \* what each request has been answered

amendmentVars == <<shown, answer>>

AmendmentsInit ==
    /\ shown = Before
    /\ answer = [r \in Requests |-> "none"]

Answers(r, s) ==
    /\ answer[r] = "none"
    /\ answer' = [answer EXCEPT ![r] = s]

\* The request takes effect.  It may be answered 500 all the same.
Amend(r) ==
    /\ \E s \in {"created", "error"} : Answers(r, s)
    /\ Amends(r, shown, shown')

Reject(r) ==
    /\ \E s \in {"refused", "error"} : Answers(r, s)
    /\ UNCHANGED shown

AmendmentsNext == \E r \in Requests : Amend(r) \/ Reject(r)

AmendmentsSpec == AmendmentsInit /\ [][AmendmentsNext]_amendmentVars
=============================================================================
