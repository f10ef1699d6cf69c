------------------------------ MODULE AcbsHttp ------------------------------
(***************************************************************************)
(* What the ACBS half of the API is built from: a request of a client that *)
(* runs until it awaits a call, AcbsHttpService and the callbacks that     *)
(* turn a failed call into an exception, and the exception into the        *)
(* answer.  ACBS itself is external: a store of entities that other        *)
(* requests change between two calls of this one.                          *)
(*                                                                         *)
(* An entity is [kind, owner, data, by]: data is the body it was written   *)
(* with, owner the deal, facility or party it belongs to, and by, which is *)
(* not in the program, the request that wrote it last (0: none).           *)
(* An operation is named by its method and its route, and a text that ACBS *)
(* refuses with by what it says.                                           *)
(* Obtaining the ID token is part of a call: see AcbsAuthentication.       *)
(***************************************************************************)
EXTENDS Integers, FiniteSets, SequencesExt

CONSTANTS
    None,         \* null and undefined
    Identifiers,  \* well-formed UKEF identifiers
    Texts,        \* well-formed names and codes
    Dates,        \* well-formed dates without a time; one unit is a month
    Amounts,      \* well-formed amounts, in thousandths
    Currencies,
    Today,
    Workloads,    \* what clients may ask for, see Init
    MaxFaults     \* bound: how many calls of ACBS or MDM fail by themselves

\* Math.round(number * 100) / 100, in thousandths.
RoundTo2DecimalPlaces(number) == ((number + 5) \div 10) * 10

ASSUME AcbsHttpAssumption ==
    /\ None \notin Identifiers \cup Texts \cup STRING
    /\ \A date \in Dates : None # <<date, "T00:00:00Z">>
    /\ Dates \subseteq Nat
    /\ Amounts \subseteq Nat /\ 0 \in Amounts
    /\ \A amount \in Amounts : RoundTo2DecimalPlaces(amount) \in Amounts
    /\ Today \in Dates
    /\ MaxFaults \in Nat

VARIABLES
    workload,  \* the requests, the store they start from, and MDM's customers
    pc,        \* of a request: "received", the call it makes next, or "done"
    local,     \* of a request: what it read before that call
    answer,    \* of a request: [status, body], or None
    acbs,      \* the entities of ACBS, in the order of their creation
    faults     \* how many calls have failed by themselves

GLOBAL == [portfolioIdentifier |-> "E1"]
LENDER_TYPE_CODES == [FIRST_LEVEL_OBLIGOR |-> "100", ECGD |-> "500"]

Requests == DOMAIN workload.requests
Op(r) == workload.requests[r].op
Params(r) == workload.requests[r].params
Body(r) == workload.requests[r].body

Init ==
    /\ workload \in Workloads
    /\ pc = [r \in Requests |-> "received"]
    /\ local = [r \in Requests |-> None]
    /\ answer = [r \in Requests |-> None]
    /\ acbs = workload.acbs
    /\ faults = 0

-----------------------------------------------------------------------------
(* The course of a request.                                                *)

\* Request r makes the call named label next, having read loc.
Goto(r, label, loc) ==
    /\ pc' = [pc EXCEPT ![r] = label]
    /\ local' = [local EXCEPT ![r] = loc]
    /\ UNCHANGED answer

Reply(r, status, body) ==
    /\ pc' = [pc EXCEPT ![r] = "done"]
    /\ local' = [local EXCEPT ![r] = None]
    /\ answer' = [answer EXCEPT ![r] = [status |-> status, body |-> body]]

\* AcbsExceptionTransformInterceptor, and Nest for what it lets through.
HttpStatus(exception) ==
    CASE exception = "AcbsResourceNotFoundException" -> 404
      [] exception \in {"AcbsBadRequestException", "BadRequestException"} -> 400
      [] OTHER -> 500

Throw(r, exception) == Reply(r, HttpStatus(exception), None)

\* Nothing of ACBS changes or fails in this step.
WithoutAcbs == UNCHANGED <<acbs, faults>>

\* The clients of a serial workload wait for each answer, and for ACBS to
\* have posted the bundles it was sent.
MayBegin(r) ==
    workload.serial =>
        /\ \A q \in Requests : q < r => pc[q] = "done"
        /\ \A i \in DOMAIN acbs :
             acbs[i].kind = "BundleInformation" => acbs[i].data.BundleStatusCode # "35"

Receives(r, op) == pc[r] = "received" /\ Op(r) = op /\ MayBegin(r)

\* The validation pipe refuses parameters or a body that are not of their DTO.
Validated(r, valid, Then) ==
    /\ WithoutAcbs
    /\ IF valid THEN Then ELSE Throw(r, "BadRequestException")

\* ValidatedArrayBody: every item is validated, and the handler takes the
\* first; of an empty array it reads properties of undefined.
ValidatedItems(r, valid, Then) ==
    Validated(r, valid, IF Body(r) = <<>> THEN Throw(r, "TypeError") ELSE Then)

ValidatedItem(r, valid, Item, Then) ==
    ValidatedItems(r, valid /\ Range(Body(r)) \subseteq Item, Then)

-----------------------------------------------------------------------------
(* Dates and numbers.                                                      *)

\* DateStringTransformations: a date with a time is <<date, time>>.
AddTime(date) == <<date, "T00:00:00Z">>
RemoveTime(time) == time[1]
RemoveTimeIfExists(time) == IF time = None THEN None ELSE RemoveTime(time)
AddTimeUnchecked(date) == AddTime(date)   \* variant: null is a date like any other
AddTimeIfExists(date) == IF date = None THEN None ELSE AddTime(date)
DateTimes == Dates \X {"T00:00:00Z"}
Earliest(a, b) == IF a < b THEN a ELSE b
GetLatestDateFromTodayAnd(date) ==   \* variant: the later of the two
    AddTime(IF date < Today THEN Today ELSE date)
GetEarliestDateFromTodayAnd(date) == AddTime(Earliest(Today, date))
GetDatePlusThreeMonths(date) == date + 3

Maybe(S) == S \cup {None}
OrDefault(value, default) == IF value = None THEN default ELSE value

\* { ...g, ...f }: the fields of f, and those of g that f does not have.
f ++ g == [field \in DOMAIN f \cup DOMAIN g |-> IF field \in DOMAIN f THEN f[field] ELSE g[field]]

-----------------------------------------------------------------------------
(* Calls of ACBS.  Its answer is Ok, Null, or a refusal with a text.       *)

Ok(data) == [status |-> 200, body |-> "given", data |-> data]
Null == [status |-> 200, body |-> "null"]
Refusal(text) == [status |-> 400, text |-> text]

\* What a call can fail with by itself: a refusal or an error nobody expects,
\* or no answer at all, after which a write may have taken effect.
Faults == [status : {400, 500}, text : {"other"}] \cup {[status |-> 0, text |-> "none"]}

KnownErrors ==
    [text \in {"PartyNotFound", "DealNotFound", "FacilityNotFound",
               "LoanNotFound", "FacilityDoesNotExist", "FixedFeeExists",
               "InvalidPortfolioIdAndFacilityId",
               "BundleInformationNotFound", "PartyIdentifierIsNotValid",
               "LoanDoesNotExist"} |->
        IF text = "FixedFeeExists" THEN "AcbsBadRequestException"
        ELSE "AcbsResourceNotFoundException"]

WrapAnyAcbsHttpGetError(known, error) ==   \* variant: any refusal is a missing resource
    IF error.status = 400 THEN "AcbsResourceNotFoundException" ELSE "AcbsException"

WrapAcbsHttpGetError(known, error) ==
    IF error.text \in known THEN KnownErrors[error.text] ELSE "AcbsException"

WrapAcbsHttpPostOrPutError(known, error) ==
    IF error.status # 400 THEN "AcbsUnexpectedException"
    ELSE IF error.text \in known THEN KnownErrors[error.text]
    ELSE "AcbsBadRequestException"

FaultsLeft == IF faults < MaxFaults THEN Faults ELSE {}

\* A GET is [known, result, ofWrite]: the errors it knows by their text, what
\* ACBS answers, and whether its failures are wrapped as those of a write.
GetCall(known, result) == [known |-> known, result |-> result, ofWrite |-> FALSE]

\* AcbsHttpService.get: how it may end, and how many faults that takes.
GetOutcomes(call) == {<<call.result, 0>>} \cup (FaultsLeft \X {1})

\* The services that ACBS may answer null take it for a missing resource.
GetException(call, ended) ==
    IF ended.status = 200 THEN "AcbsResourceNotFoundException"
    ELSE IF call.ofWrite THEN WrapAcbsHttpPostOrPutError(call.known, ended)
    ELSE WrapAcbsHttpGetError(call.known, ended)

Get(r, call, Then(_)) ==
    \E outcome \in GetOutcomes(call) :
        LET ended == outcome[1]
        IN  /\ UNCHANGED acbs
            /\ faults' = faults + outcome[2]
            /\ IF ended.status = 200 /\ ended.body # "null" THEN Then(ended.data)
               ELSE Throw(r, GetException(call, ended))

\* AcbsHttpService.post and put, when ACBS answers with result, whose data is
\* what it holds after the write: how it may end, what ACBS then holds, and how
\* many faults that takes.
WriteOutcomes(result) ==
    LET written == IF result.status = 200 THEN result.data ELSE acbs
    IN  {<<result, written, 0>>} \cup (FaultsLeft \X {acbs} \X {1}) \cup
        {<<error, written, 1>> : error \in {e \in FaultsLeft : e.status = 0}}

WriteOr(r, result, Failed(_), Then) ==
    \E outcome \in WriteOutcomes(result) :
        /\ acbs' = outcome[2]
        /\ faults' = faults + outcome[3]
        /\ IF outcome[1].status = 200 THEN Then ELSE Failed(outcome[1])

WriteUntilTaken(r, known, result, Then) ==   \* variant: what failed is tried again
    LET Failed(error) == UNCHANGED <<pc, local, answer>>
    IN  WriteOr(r, result, Failed, Then)

Write(r, known, result, Then) ==
    LET Failed(error) == Throw(r, WrapAcbsHttpPostOrPutError(known, error))
    IN  WriteOr(r, result, Failed, Then)

-----------------------------------------------------------------------------
(* The store of ACBS.                                                      *)

Indexes(kind, owner) ==
    {i \in DOMAIN acbs : acbs[i].kind = kind /\ acbs[i].owner = owner}

\* What ACBS answers with when asked for all of them, in an order of its own.
DataOf(kind, owner) ==
    LET found == SetToSeq(Indexes(kind, owner))
    IN  [i \in DOMAIN found |-> acbs[found[i]].data]

Added(r, kind, owner, data) ==
    Append(acbs, [kind |-> kind, owner |-> owner, data |-> data, by |-> r])

Replaced(r, i, data) ==
    [acbs EXCEPT ![i] = [@ EXCEPT !.data = data, !.by = r]]
=============================================================================
