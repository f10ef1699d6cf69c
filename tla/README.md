# TLA+ verification of tfs-api

`tfs-api` ("Trade Finance Services", a NestJS application) stands between UKEF's
applications and two back ends: **GIFT**, the new facility system, and **ACBS**,
the old banking system. `tfs-functions` (two Azure Functions) works off a queue
of GIFT requests by calling `tfs-api` again. Neither program has a database: all
state is in GIFT, in ACBS, in an Azure Storage queue, in Halo (support tickets)
and in one in-memory cache entry. What can go wrong is therefore in the
*protocols*: sequences of HTTP calls, each of which can be refused, fail with or
without an effect, never be answered, or be cut short, and several of which overlap.

Paths below are relative to `src/`, the repository.

## 1. Inventory

| Component | State it uses | Operations that change state | Interaction |
|---|---|---|---|
| **GIFT facility creation** `src/modules/gift/services/gift.facility.service` and the entity services | GIFT work packages and configuration events; locals of one request | `create`: validate, POST create-facility, up to eight kinds of entity, approve; `finally`: delete the work package | called by `POST /gift/facility/without-queue`, that is by `tfs-functions`; calls GIFT |
| **GIFT facility amendment** `gift.facility-amendment.service`, `gift.amount-amendment.service`, `gift.replace-expiry-date-amendment.service` | GIFT work packages, the facility | `create`: GET facility, POST work package, facility and obligation events in an order that depends on the amendment, approve | called by `POST /gift/facility/:id/amendment/without-queue` |
| **GIFT request queue** `gift.queue.service`, `tfs-functions` | `gift-requests`, `gift-requests-poison`, Halo tickets | enqueue, take, post, retry, raise a ticket, poison, log | `tfs-api` enqueues, the Functions runtime delivers, `tfs-functions` calls `tfs-api` and Halo |
| **ACBS authentication** `acbs-authentication` | one cache entry | `getIdToken`: cache, retry, session + token | every ACBS service calls it |
| **GIFT async validation** and its helpers | none (reads reference data from GIFT and MDM) | none | called by creation |
| **Party**, **party external rating** | ACBS parties, ratings | create a party unless a search finds it, rate it unless it is rated | `POST /parties`; calls ACBS, and MDM for the kind of customer |
| **Deal**, **deal guarantee**, **deal investor** | ACBS deals and what belongs to them | create; a deal is restricted by a second call | `POST /deals...` |
| **Facility** | ACBS facilities | create; update: read, then replace, or send the difference of the amount as a bundle | `POST`, `PUT /facilities` |
| **Facility covenant / guarantee / investor** | ACBS | create; `PATCH`: read all of a facility, change two fields, write each back | `/facilities/:id/...` |
| **Facility loan**, **loan transaction**, **activation**, **fixed fee** | ACBS bundles, loans, fees | create, activate and amend amounts by bundles, which ACBS posts later; move a loan's expiry by read and write back | `/facilities/:id/...` |
| **ACBS HTTP and exceptions** | none | none | turns what ACBS says into exceptions, and those into statuses |
| **MDM**, **GIFT HTTP**, **dates**, **auth**, **HTTP**, **logging**, **config**, **decorators** | none | none | used by the above |

Hard behaviour, and the properties that make each component correct:

* *Creation* makes a dozen calls in sequence. A refused one is **returned**, not
  thrown, and the sequence goes on; a failed one throws and the `finally` block
  deletes the work package, a deletion that can fail too. The queue delivers a
  request again when an answer is late or lost, so two attempts for one facility
  can interleave call by call. Correct means: nothing partial is ever approved,
  a 201 is final, a 4xx leaves nothing behind, a failed clean-up is logged, and
  every attempt answers whose own calls GIFT answers or refuses: the client of GIFT
  has no timeout, so one that waits for ever is part of the model.
* *Amendment* decides the order of its calls from a facility it read before;
  ignores most refusals; does not clean up. Correct means: no obligation exceeds
  its facility between two calls, a 201 has the amendment.
* *The queue* counts deliveries in two places that must agree
  (`GIFT_MAX_NUMBER_OF_RETRIES`, `maxDequeueCount`), raises the ticket on one
  exact count, and can lose its lease or its host at any point. Correct means:
  nothing is lost, at most one ticket, a ticket is final, everything settles.
* *ACBS authentication* lets concurrent calls miss the cache together, and counts
  the TTL from storing while the token ages from issue. Correct means: no expired
  token is returned, and every call ends.
* *The ACBS handlers* read, decide and write in up to five calls, with no lock and
  no version, and tell a missing resource from a failure by the text of an error.
  Several are built to be repeated after a failure. Correct means: what was
  created is what is read back; a 4xx has left nothing; a repeated request ends
  where one would have; amounts sent as signed differences add up; what was not
  in a request stays as it is; every request is answered.

`PROJECT.json` lists the components with their sources, and all hazards at the
lines where they bite.

## 2. Modules

| Module | Models |
|---|---|
| `GiftFacilityCreation` | `GiftFacilityService.create` with its catch and finally blocks, several attempts, crashes; GIFT's work packages |
| `FacilityPublication` | the abstract contract of creation: publish all of a facility in one step, withdraw only what nobody was told 201 about |
| `GiftAsyncValidation` | `GiftFacilityAsyncValidationService.creation`, call by call, with its helpers; implements the one step that stands for it in `GiftFacilityCreation` |
| `GiftAmendment` | `GiftFacilityAmendmentService.create` for increase, decrease and expiry date; GIFT's work packages and facility |
| `FacilityAmendments` | the abstract contract of amendment: it shows in one step or not at all |
| `GiftQueue` | `GiftQueueService.enqueue`, `processGiftQueueMessage`, `createHaloTicket`, `processPoisonQueueItem`; Azure Storage and the Functions runtime |
| `GiftPipeline` | `GiftQueue` with tfs-api and GIFT behind it: the two contracts, one call per delivery |
| `AcbsAuthentication` | the caching, retrying and base authentication services; the clock and the cache |
| `AcbsHttp` | `AcbsHttpService`, known errors, exceptions and statuses, date helpers; ACBS as a store |
| `AcbsBundle` | bundle requests and ACBS's posting of them |
| `AcbsParty`, `AcbsDeal`, `AcbsFacility`, `AcbsFacilityParts`, `AcbsLoan` | the controllers and services of these parts of the API, a handler at a time |
| `TfsApi` | all of these handlers at once, and what is said of them |
| `*_proofs` | the theorems about the module they are named after; for `TfsApi`, `TfsApi_proofs` has the inductive invariant, one lemma for each step of each handler and the theorems that follow from it, `TfsApiTypes_proofs` those that need the types, `TfsApiReadBack_proofs` what is read back of what was sent; `GiftQueue_proofs` is about `GiftPipeline` as well |
| `MC*` | the values TLC gives the constants |

How they are composed: `GiftAsyncValidation` extends `GiftFacilityCreation` and
refines it; `GiftFacilityCreation` implements `FacilityPublication`, and
`GiftAmendment` implements `FacilityAmendments`; `GiftPipeline` extends
`GiftQueue` and instantiates the two contracts, so it never looks inside creation
or amendment; and it implements `GiftQueue`. `AcbsHttp <- AcbsBundle <-
AcbsFacility <- AcbsFacilityParts <- AcbsLoan` extend one another because a
facility's parts are created from the facility that was read; `TfsApi` joins them
with `AcbsParty` and `AcbsDeal`.

**Grain.** An action is one outgoing call together with the local code up to the
next call: JavaScript runs it without interruption, and other requests can only
come in between at an `await`. Every call of GIFT has the outcomes the HTTP
services distinguish: accepted; refused with a status that
`GIFT_API_ACCEPTABLE_STATUSES` lets through (400, 401, 403, 404); an exception
without an effect (409, 500, no connection); an exception **with** an effect (the
answer was lost or could not be read); and no answer at all, with or without an
effect, for which the client of GIFT waits for ever, as `gift.http.service.ts:56`
creates axios without a timeout. In creation that is the step `"unanswered"`, from
which nothing goes on (`WaitsForEver`). In amendment, where no property says that an
answer comes, it needs no step of its own: without an effect it is a stop before the
call, with one a stop after it, and for the approval a lost answer. ACBS, MDM and
authentication are called with a timeout of 30 seconds. Every call of ACBS: what ACBS says of the
request; or, `MaxFaults` times, a 400 or a 500 with a text nobody knows, or no
answer, after which a write may have taken effect.

**Creation.** `pc[a]` is where attempt `a` is in `create`; `wp[a]` is
`facilityWorkPackageId`; `posted[a]` and `refused[a]` stand for the response
arrays (`businessCalendars`, ..., `riskDetails`); `result[a]` is what the handler
will answer; `severe` holds the attempts that logged a severe error. Payload
entities are pairs of kind and position: that is all the control flow looks at.
The one value passed between calls is the obligation ID of an accrual schedule,
kept as the position of the obligation (`ObligationId`, 0 for `undefined`).
`AsyncValidation` is one action: it only reads.

**Async validation.** A service is asked, answers with what GIFT or MDM hold
(`Reference`), refuses, fails or (GIFT) never answers, and if it answers the attempt
goes on to the next. The errors
are a set of faults, entity, position and field, not sentences; their order is not
kept. Percentages are in tenths. Three things about the code that the model keeps:
a product type whose GET is refused with 400, 401 or 403 is reported as not
supported; a payload with `fixedFees: null` passes the DTO (`IsOptional`) and makes
the attempt answer 500; and the position of an unsupported subtype code is the one
among the obligations that have a code.

**Amendment.** `Plan(a)` is the order of the calls that `create` makes for its
amendment, once the facility has been read; `posted[a]` is how many were made.
Event 0 is the facility's, event `o` the `o`-th obligation's. `original[a]` is
the expiry date that was read. GIFT's work package holds a set of events, and
`Draft(w)` is the facility as it would be with `w` approved, written without
recursion so that it can be proved about.

**Queue.** `receipt[h]` is the dequeue count with which host `h` took its
message; it is what the runtime hands to the function as
`triggerMetadata.dequeueCount`, and what a deletion needs to match. `"token"`
and `"ticket"` are the two awaits of `createHaloTicket`. A message of an unknown
type, or an amendment without a facility ID, is `"unroutable"`: it always fails.

**Pipeline.** A call is a message and the receipt it was delivered with.
`PostFacility` and `PostAmendment` are what tfs-api does for it at any time from
the delivery on, also after the host that waits for it has stopped or has lost its
lease; `Deliver(Next)` is a step of `GiftQueue` in which a host may find its
`postToTfsApi` to have returned only when its own call was answered 201. An
amendment needs a facility that GIFT shows. A host posts what it takes at once:
that a host stops before it has posted is the same as a call that is never served.

**ACBS.** `acbs` is what ACBS holds, in the order of creation: `kind`, `owner`,
`data` (the body it was written with) and `by` (the request that wrote it, which
is only there for the properties). `workload` is chosen at first: the requests
clients make, the store they start from, MDM's customers, and whether the clients
wait for each other (`serial`). `pc[r]`, `local[r]` and `answer[r]` are where a
handler is, what it has read, and its answer. DTOs are sets of records with the
names of the source; a field left out is `None`. A date is a month, with or without
a time; an amount is in thousandths, so that the rounding to two places shows.
ACBS posts a bundle, or marks it as failed, in a step of its own (`PostBundle`).

**Authentication.** A token is the time it was issued. `Latency` bounds the time
between issue and storing, `Lifetime` is how long the identity provider honours it.

**Variants.** Definitions marked `variant` in a comment are plausible mistakes
(a dropped check, an off-by-one). They are not part of the specification; each
property is shown to fail when the variant named in `PROJECT.json` replaces the
definition it belongs to.

### What is assumed of the outside

* GIFT: a facility ID has at most one work package that is not deleted (the
  comment in `gift.facility-creation-error-service` says so); only an open work
  package takes events or an approval; deleting withdraws what was approved, with
  any amendment of it; it may refuse anything. For amendments: an increase or a
  decrease that is none is refused, and a new expiry date moves the obligations
  that follow.
* Azure: a message is taken by one host at a time while its lease is valid;
  deleting and releasing need the current receipt; a message taken more often
  than `maxDequeueCount` is moved to the poison queue without running the function.
* The cache keeps an entry for its TTL, for ever if that is 0.
* ACBS: a search finds a party by its alternate identifier; a second deal or
  facility of an identifier is refused with 400 and a text that is not a known
  error; writes replace the whole record, but keep a facility's status code; a fee
  of the same segment and lender type "exists"; guarantees are replaced by type and
  party, covenants by identifier; posting a bundle applies its messages in order; a
  facility without guarantees is answered with `null`; the name of an obligor is
  that of the party, so it need not be read back as it was sent.

## 3. Runs

Deadlock checking is off in the runs of GIFT, the queue and authentication:
attempts, messages and calls come to an end, and then nothing is left to do. It is
on in `api_requests`, where the only state without a successor of another kind is
`Finished`.

| Run | Instance | Shows |
|---|---|---|
| `creation_redelivery` | 3 attempts, 1 facility, 3 work packages; 2 obligations, 2 schedules | the six invariants of creation, and that it implements `FacilityPublication` |
| `creation_answers` | 2 attempts; 43 payloads, with faults of every kind or none; every reference service answers, refuses, fails or never answers | nothing unsupported is created; a 400 names the faults; every attempt answers unless it is stopped or waits for a call of its own that GIFT never answers |
| `queue_delivery` | 2 messages (delayed creation, unroutable), 2 hosts, both maxima 3, 2 crashes or lost leases | nothing lost, poison reported, ticket final, every request settles |
| `queue_ticket` | **violation** | `tfs-functions/README.md` promises a ticket before the poison queue; a failed token or ticket call leaves none |
| `pipeline_drift` | delayed creation and amendment of one facility, maxima 1 and 2, 1 host, a crash or a lost lease | at most one ticket; what is done is in GIFT; no amendment of it is lost |
| `amendment_serial` | an increase, what is a decrease only after it, an earlier and a later expiry date, in any order, 2 work packages | order of the calls keeps obligations within the facility; a 201 has the amount; implements `FacilityAmendments` |
| `amendment_whole` | **violation** | a refused obligation event is approved without, and answered 201 |
| `amendment_cleanup` | **violation** | an error leaves the work package open, against the doc comment |
| `amendment_overlap` | **violation** | the order of the calls follows an expiry date another amendment has replaced |
| `auth_token` | 3 calls, TTL 2 + latency 1 < lifetime 4 | returned tokens are honoured; every call returns |
| `auth_ttl` | **violation** | TTL 40 min, lifetime 30 min: `README.md:218` calls it safe and an expired token is returned |
| `api_requests` | 14 workloads, 53,069 states, 2 faults | the fifteen properties of the ACBS half, see below |

**The ACBS workloads.** Nine are serial and walk through parties, deals,
facilities, fees, parts of facilities, absent things and loans, with requests that
are repeated, invalid, or about something that is not there; five overlap where
handlers meet: two creations of one party or deal, activation with an update and
a fee, amendments of the same fees and limit, two patches of the same covenants,
loans that are created, amended and moved. `CreatedIsReadBack`,
`OnePartyPerIdentifier`, `AmendmentReachesItsLimit`, `WholeSetIsUpdated` and
`PatchKeepsTheRest` are about serial workloads only, because the code reads and
writes back without a version and promises nothing when requests overlap: two
creations of one party create two, two `amendAmount` apply both differences, and
of two patches one can undo the other. The other ten hold of both. Of
`FeeAmountsAddUp` a part is only promised to clients that wait: when requests
overlap, an amendment can be accepted and posted before the fee it is of is there,
and is lost. What is asked for later than the fee never is, in any workload. One of
the workloads has just that: a fee that is created while its amendment is under way.

**Bounds.** Three attempts are a delivery and two redeliveries: the smallest
number in which an attempt can create a second work package after a first one
was deleted while a third is still at work. Two obligations and two schedules
let an ID go to the wrong schedule, and a refused obligation leaves one undefined;
the optional kinds of entity are left out (the proofs are about any payload). The
supported payload of `creation_answers` has one of each kind that it needs, as only
the number of its calls matters there; payloads with fees are among the faulty ones.
Two hosts are needed for a lost lease to matter to the queue; three
receipts give a first, a middle and a last attempt (`host.json` has 5, with more
middle attempts). In the pipeline a call outlives its host, so one host is enough
to have several calls of a message at work at once; with more hosts, larger maxima
and any number of lost leases the queue's part is covered by `PipelineRefinesQueue`
and `OneTicket`, and GIFT's part by `DoneIsInGift` and `AmendmentsStay`.
Two work packages and four amendments let two of the four take effect, in each
order. Two faults let a retry fail as well, or an answer get lost and
ACBS fail to post. Named bounds in the modules: `MaxFaults` (crashes and failed
renewals; calls of ACBS and MDM that fail by themselves), `MaxTime`, `Latency`,
and the finite sets. Symmetry is used for attempts and work packages, and never in
a run with a liveness property.

**Fairness.** Creation: weak fairness of each attempt's handler, which is that Node
runs the code after an `await` once the call has settled. That GIFT settles a call
is not assumed: `gift.config.ts:20` reads a timeout of 30 seconds that
`GiftHttpService` does not hand to axios, so at each call the fair step may be that
it is never answered, and the attempt stays there (`"unanswered"`). A call of MDM
has a timeout and does settle. `EveryAttemptAnswers` therefore says what the code can
promise: an attempt ends unless the process stops or GIFT never answers a call of
its own. It does not follow from the fairness alone: it fails when a refusal or
another attempt can hold the sequence of calls up (its mutant waits for accepted
entities only). Queue: weak fairness of each
host at work, of leases and delays running out, of the poison function, and of
*some* host taking a visible message (the runtime polls); crashes are bounded by
`MaxFaults`. Authentication: weak fairness of each call. ACBS: weak fairness of
the next-state relation: calls of ACBS have a timeout
(`src/src/config/acbs.config.ts:16`), so each ends, and ACBS works off what it has
accepted; as every step brings some request or bundle nearer to its end, no
request needs a condition of its own. No strong fairness anywhere, and none on
outcomes: a call may fail each time.

## 4. Proofs

Checked with TLAPS for every value of the constants that satisfies the modules'
named assumptions (`CreationAssumption`, `ValidationAssumption`,
`AmendmentAssumption`, `QueueAssumption`, `PipelineAssumption`,
`AuthenticationAssumption`, `AcbsHttpAssumption`, `AcbsPartyAssumption`,
`WorkloadAssumption`). The last one is about what the ACBS half starts from: a request
has the parameters of its path, a body that has to be an array is one (the
pipes see to both), and the store holds what earlier requests could have left
(`IsStore`), each thing of the DTO of its endpoint and none of it written by the
requests to come. The others say that the null values are not among the data, that
counts are numbers, and that amounts are natural numbers (of thousandths), 0 one of
them, which rounding to two decimal places leaves amounts.

* **`GiftFacilityCreation_proofs`**: `TypeCorrect`, `AllOrNothing`
  (`ApprovedIsComplete`), `SchedulesLinked`, `Durability`, `RefusalIsReliable`,
  `NoSilentLeftover`, for any number of attempts, facilities and entities. The
  invariants say nothing of work packages still being filled, so they are not
  inductive. `IInv` adds the owner argument: a work package is known to at most
  one attempt (`OneOwner`), a facility has at most one live one
  (`OneLivePerFacility`), and while its owner is posting, the package is open and
  holds exactly the entities the owner counts as accepted (`InStep`); the
  approval then follows only from `refused = {}` and everything posted.
  `SchedulesInStep` relies on obligations being posted before schedules.
  `CreationIsPublication` is the refinement: by `IInv` what GIFT shows of a facility
  is the whole of it or nothing, an approval is then a `Publish`, a deletion by a
  `finally` block a `Withdraw` of something no answer has confirmed, and every
  other step of a call a stutter.
* **`GiftAsyncValidation_proofs`**: `ValidationRefinesCreation` (so each theorem
  above holds with validation call by call; `ValidatedAllOrNothing` is the
  example), and `UnsupportedNeverCreated`, from the fact that an attempt past
  validation has found no error in a payload whose codes it has looked up.
  `ErrorsAreTheFaults` (`ErrorsNameTheFaults`) says that a rejection names each
  fault and nothing else. `ErrorsInv` has what an attempt knows after each service:
  which faults it has looked for and that its errors are exactly those
  (`FaultsAreNamed`). The code looks for obligations through filtered arrays; what the
  proof needs of `SelectSeq` is only whose elements it keeps.
* **`GiftAmendment_proofs`**: `TypeCorrect` and `CreatedAmount` from `IInv`, whose
  core is that an open work package has one owner and only its events (`Owned`,
  `Eventful`), and that an attempt still on course has the amount in it
  (`AmountTaken`). `OrderKeepsWithin` (`DraftWithinFacility`) assumes `Serial` and
  adds that one attempt is at work (`Alone`), that the expiry date it read is still
  the facility's (`Current`), and that an increase that was taken is one
  (`Raised`); the arithmetic it needs is `ShareWithinAmount`: a percentage of at
  most 100, rounded half up, is not above the amount. `AmendmentIsOneStep` is the
  refinement of `FacilityAmendments`, and holds for overlapping amendments too: an
  approval applies one attempt's events to what the facility is by then.
* **`GiftQueue_proofs`**: `QueueTypeCorrect`, `OneTicket`, `NoRequestLost` for any
  values of the two maxima and any lost leases; `FinalTicket` and `PoisonReported`
  under their equality, `NobodyCallsAfterTicket` with reliable leases as well. The
  core of `QInv` is that receipts are handed out once (`Receipts`), so exactly
  one host can ever hold the receipt numbered `MaxRetries`, and is past the
  ticket once there is one (`TicketSpent`); `Turns` ties the steps of a host to
  its receipt, `Leased` says what a reliable lease gives.
  The second half is about `GiftPipeline`. `PipelineRefinesQueue`: a step of the
  pipeline is a step of the queue, or leaves it as it is; `PipelineOneTicket` is
  `OneTicket` carried over, and the other safety theorems carry over the same way.
  `DoneIsInGift` and `AmendmentsStay` follow from `PInv`: a host waits on a call
  that exists (`CallsAreKnown`), a 201 is for a facility GIFT shows
  (`ConfirmedIsShown`), and a creation counted as done has such an answer
  (`CompletedIsConfirmed`). Since GIFT enters through the two contracts only, and
  `CreationIsPublication` and `AmendmentIsOneStep` prove that the detailed modules
  implement them, the argument goes from the queue down to each single call.
* **`AcbsAuthentication_proofs`**: `TypeCorrect`; `TokensAreHonoured` for any
  number of calls, provided `CacheTtl # 0 /\ CacheTtl + Latency < Lifetime`. The
  invariant `Ages` bounds the age of a token at the time it is stored; a hit is at
  most `CacheTtl` later. The order in which concurrent calls store does not matter
  to it.

* **`TfsApi_proofs`**: for any requests in any number, any
  overlap, and any calls that fail. `IInv` says that a request is on the course of its
  operation and knows what it has made sure of (`InCourse`, `Knows`: the party being
  rated is in ACBS under the identifier of the request, the facility being charged is
  active, the parts being put back exist), that the store is one that the API could
  have written (`StoreOK`), that in a serial workload only one request has begun and
  not ended (`Serial`), and that one which is refused, or still only reading, has
  written nothing (`WroteNothing`). There is a lemma for each step of each handler
  (`CreatePartyStep`, `AmendLoanStep`, ...) which shows that it is a `Step`: it touches
  one request, stays on its course or ends, and adds one entity or replaces one by
  the same thing. From this alone `WroteKeeps` and `PostKeeps` give the store, and
  `KnowsStays` what other requests know: entities are never removed, a facility is
  never deactivated. What only holds when clients wait (`PartiesOf(...) = {}` until the
  party is created) needs `AloneInItsCourse`. So:
  `RefusalsChangeNothing`, `NotFoundMeansAbsent`, `CreatedDealsAreRestricted`,
  `AnsweredPartiesAreRated`, `RatingsFollowCustomerTypes`, `FeesAreCharged` and
  `LoanDatesDoAgree` hold under any overlap; `PartiesAreUnique` and the "only
  once" of a rating in serial workloads.
  `WholeSetsAreUpdated` and `PatchesKeepTheRest` have a premise, `PartsAreDistinct`:
  ACBS holds no two covenants of a facility with one identifier, no two guarantees
  of one type and guarantor. The API does not see to that, a PUT finds a part by
  those fields, and of two that are alike one would be overwritten and the other
  missed. (The premise holds in each state of the run `api_requests`.) Their
  invariant `PatchInv` says that the parts a PATCH has yet to put back are as they
  are in ACBS, and that whatever else its facility has is updated already
  (`IsLeft`).

* **`TfsApiTypes_proofs`**: what takes the types of the data.
  `TypeCorrectness` (`TypeOK`): whatever a client sends, everything that ACBS is sent,
  and keeps when it posts bundles, is of the DTO of its endpoint, and every answer of
  the DTO of its handler. `TypesOK` strengthens it to an invariant: `IsReady` is what a
  request has validated or read before each call, a handler at a time. There is a
  lemma for each mapping between a DTO of the API and one of ACBS (`DealSent`,
  `DealRead`, ...), and one for each step (`GetDealTyped`, ...). That an amount stays
  an integer when a bundle is posted takes that a sum of integers over a finite set is
  one: the sums of the model are folds, recursive functions on the subsets of a set,
  so `SumsExist`, `SumsAreInt`, `SumsAreOne` and `SumsSplit` argue by the smallest
  subset that would be a counterexample, which needs no induction scheme.
  `AmendmentsReachTheirLimits` (`AmendmentReachesItsLimit`): the invariant `LimitInv`
  says that in a serial workload no request is on its way while a bundle is to be
  posted, that the pending bundle of a request is the only one, that what an
  `amendAmount` has read is what ACBS has (`HasRead`) and that its bundle is for the
  difference (`AsksFor`). `DifferenceReaches` is the arithmetic: an increase is added
  and a decrease taken away, whichever it is, to reach the limit asked for.
  `FeesDoAddUp` (`FeeAmountsAddUp`) holds under any overlap, given `FeesAreSettled`: no
  bundle in the store that ACBS starts with has yet to change a fee (it would be counted
  to nobody; the premise is about the first state only). `FeeInv` says that each fee is
  the sum it should be (`AddsUp`), that a bundle has the messages its request asks
  for and that no other bundle has one about a fee (`IsOfItsRequest`), and that in a
  serial workload a bundle of amendments that is pending is later than every fee.
  The step that matters is that of a posting: what the messages of a bundle change of a
  fee is what the items of the body ask of it, signs and absolute amounts included
  (`FeeChange`, `AskedIsChanged`).

* **`TfsApiReadBack_proofs`**: `ConversionsReadBack`, for every request of each of the ten
  kinds that a `GET` shows: what the `POST` makes of it for ACBS, and the `GET` of that,
  has every field of the request (`IsReadBack`). `MayRead` lists what the code may
  turn a field into: a date capped at today, an amount rounded, a rate of zero that is
  dropped, an index change frequency that only a rate in dollars has, and a deal's
  value, which becomes 0. There is a lemma
  for each kind (`PartyReadBack`, `LoanReadBack`, ...), with what defaults, nulls and
  the schedules of a loan come to (`AccrualsReadBack`, `RepaymentsReadBack`).

  `CreatedAreReadBack` (`CreatedIsReadBack`) is the same of the whole system, for any
  serial workload: what a `POST` that answered 201 created is what a later `GET` answers
  with, in every field. `ReadInv` has the three things it takes. `WrittenAsAsked`: an
  entity that a request wrote is its body, converted (`IsSent`), unless ACBS has since
  posted a bundle of a later request (`LaterPosted`); the exception is needed, since an
  amendment changes a fee, a limit or a loan that somebody else created, and
  `CreatedIsReadBack` makes the same one. `HasCreated`: a 201 names what its request
  wrote, and a handler that writes several things (`POST /parties`, `POST /deals`)
  goes on with its own. `PendingIsLatest`: nothing in ACBS is of a later request than
  the bundle still to be posted, so that a bundle can spoil what a request
  reads back only by being posted between the two. Each step of a request is shown to
  serve them (`Serves`: it sends as asked, has created what it says, and a `GET` shows all
  it found), a handler at a time (`CreateFeeServes`, `GetDealServes`, ...);
  `DealFollows`, `LoanFollows`, ... put a `GET` and its `POST` together through
  `ConversionsReadBack`; and `NextKeepsReads` adds the steps of ACBS. That clients wait
  enters twice: the requests before the one that takes a step are done and none after
  it has begun (`TakesItsTurn`), so that whatever was written before a `GET` ends is of a
  request before it; and nothing is written while a bundle of an earlier request is
  pending (`LimitInv`), which keeps `PendingIsLatest`. The model's `ReadBy` is an
  operator rather than a function of strings put together with `@@`, of whose domain
  the provers can say nothing.

`LeftoversAreLogged` is about attempts that have come to their end; an open work
package of one that was stopped, or waits for ever, is logged by nobody, and what
holds of it is that it is never approved (`ApprovedIsComplete`). `DraftWithinFacility`
is about amendments one at a time; what overlapping ones do to the order of the
calls is the run `amendment_overlap`.

Only model-checked: liveness (`EveryAttemptAnswers`, `EveryRequestSettles`,
`EveryCallReturns`, `EveryRequestIsAnswered`), which is out of the prover's reach. Every
invariant and every action property of the passing runs is a theorem, with the premises
named above where it has any (`CacheTtl + Latency < Lifetime`, `Serial`,
`PartsAreDistinct`, `FeesAreSettled`, equal maxima).

## 5. Findings

1. The Halo ticket is not guaranteed (`create-halo-ticket.ts:96`, `:110`): a failed
   token or ticket call is logged and swallowed; the README says otherwise.
2. `GiftAmountAmendmentService.obligations` and both calls of the expiry-date
   service never look at the status; a refused event is approved without.
3. Amendment errors do not delete the work package the doc comment says is
   deleted, so it stays open in GIFT.
4. The expiry-date order is chosen from a stale facility.
5. The README's upper bound for the token cache's TTL is 100 times 30 minutes.

Observed while modelling, with no doc or test that says otherwise, and so not runs:
the timeout of 30 seconds that `gift.config.ts:20` reads from `GIFT_API_TIMEOUT`, and
`gift.config.test.ts:29` checks, is used by nothing (`gift.http.service.ts:56`), so a
call of GIFT that is never answered leaves a creation without its `finally` block and
without an answer; the value of a deal is written as `LimitAmount` next to a
`MemoLimitAmount` of 0 (`deal.service.ts:134`) and read back from `MemoLimitAmount`
(`:34`), so every deal that the API creates is shown with a value of 0 unless ACBS
changes it (`MayRead` has it so, and `CreatedIsReadBack` holds of the other fields);
an amendment that is confirmed between the approval of a creation whose answer is
lost and the clean-up that deletes the facility is lost with it
(`AmendmentsAreKept` therefore starts when the creation is done); a creation can be
done and still get a ticket, when the 201 of the last attempt is lost; an older
amendment can be retried after a newer one, as nothing orders them; a
`dealCustomerUsageRate` of 0 is dropped, while a null `spreadRateCtl` is sent;
`amendExpiryDate` writes the stage of its request, so `06` makes an issued facility
unissued; the GETs of a bundle do not look at the facility in their path, and the
operations on a loan do not check that it is of that facility; a PATCH of covenants or
guarantees misses one of two that ACBS identifies alike; the description of
`subtypeCode` calls it required for some product types, which nothing checks.

## 6. Not modelled, and why

* API-key authentication, the HTTP client and logging: a comparison or I/O.
* GIFT's DTOs and their validators, beyond what async validation reads: a payload
  that is refused is an outcome; the rules are declarative. The ACBS DTOs are
  modelled as sets, since defaults and nulls decide what is sent.
* The `GET` handlers of GIFT and its currencies and fee types as endpoints: they
  change nothing and decide nothing; where creation reads them they are modelled.
* MDM and DOM handlers that only pass on an answer.
* Dates in other formats, time zones (`getDay` uses local time), and the warning
  header of ACBS, which is logged.
* The text of errors, except where the code decides by it (`KnownErrors`).

## 7. Plan

Done: creation and its contract, async validation, amendment and its contract, the
queue, the pipeline over the two contracts, authentication, and the ACBS half with
one workload module; the proofs named above. Left, in order of worth:

1. `calculatePercentageAmount` against rational rounding for non-integer
   percentages, and the GIFT payload rules that relate fields to each other.
2. A ticket in the pipeline: when a request is both done and ticketed, and that
   nothing but a lost 201 or a lost lease leads there.
