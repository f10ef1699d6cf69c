------------------------------ MODULE GiftQueue ------------------------------
(***************************************************************************)
(* The gift-requests queue between tfs-api and tfs-functions: requests are *)
(* enqueued by GiftQueueService, taken one at a time by each Functions     *)
(* host, posted to tfs-api by processGiftQueueMessage, and on the last     *)
(* failure reported in a Halo ticket and moved to the poison queue.        *)
(*                                                                         *)
(* Azure Storage and the Functions runtime are external.  A message that   *)
(* is taken gets a new receipt, numbered here by its dequeueCount, and is  *)
(* hidden; the runtime renews that lease while it works on the message,    *)
(* discards a message taken more than maxDequeueCount times without        *)
(* running the function, moves it to the poison queue after a failure at   *)
(* maxDequeueCount, and releases it after an earlier one.  Deleting and    *)
(* releasing need the current receipt.                                     *)
(***************************************************************************)
EXTENDS Naturals

CONSTANTS
    Messages,
    NoMessage,        \* what an idle host works on
    Hosts,            \* Functions hosts, each with batchSize 1
    KindOf,           \* "creation", "delayedCreation", "amendment", "unroutable"
    MaxRetries,       \* GIFT_MAX_NUMBER_OF_RETRIES in the environment
    MaxDequeueCount,  \* maxDequeueCount in host.json
    RenewalMayFail,   \* whether a lease can expire under a working host
    MaxFaults         \* bound: host crashes and failed renewals

ASSUME QueueAssumption ==
    /\ NoMessage \notin Messages
    /\ KindOf \in [Messages -> {"creation", "delayedCreation", "amendment", "unroutable"}]
    /\ MaxRetries \in Nat \ {0}
    /\ MaxDequeueCount \in Nat \ {0}
    /\ RenewalMayFail \in BOOLEAN
    /\ MaxFaults \in Nat

VARIABLES
    sent,          \* messages tfs-api has enqueued
    stored,        \* messages in gift-requests
    hidden,        \* those of them that are delayed or leased
    dequeueCount,  \* how often each message has been taken
    step,          \* what each host is doing
    msg,           \* the message each host works on
    receipt,       \* the receipt it took the message with
    completed,     \* messages some attempt of which was answered 201
    reported,      \* messages for which createHaloTicket has been called
    tickets,       \* Halo: the number of tickets about each message
    poison,        \* gift-requests-poison: copies of each message
    logged,        \* messages processPoisonQueueItem has logged
    faults

store == <<sent, stored, hidden, dequeueCount>>
host == <<step, msg, receipt>>
halo == <<reported, tickets>>
poisoned == <<poison, logged>>
vars == <<sent, stored, hidden, dequeueCount, step, msg, receipt, completed,
          reported, tickets, poison, logged, faults>>

HostSteps == {"idle", "calling", "token", "ticket", "succeeded", "failed",
              "poisoning", "discarding"}

TypeOK ==
    /\ sent \subseteq Messages
    /\ stored \subseteq sent
    /\ hidden \subseteq stored
    /\ dequeueCount \in [Messages -> Nat]
    /\ step \in [Hosts -> HostSteps]
    /\ msg \in [Hosts -> Messages \cup {NoMessage}]
    /\ receipt \in [Hosts -> Nat]
    /\ \A h \in Hosts : step[h] # "idle" => msg[h] \in sent
    /\ \A h \in Hosts : step[h] \in {"token", "ticket"} => receipt[h] = MaxRetries
    /\ completed \subseteq sent
    /\ reported \subseteq sent
    /\ tickets \in [Messages -> Nat]
    /\ poison \in [Messages -> Nat]
    /\ logged \subseteq Messages
    /\ faults \in 0..MaxFaults

Init ==
    /\ sent = {} /\ stored = {} /\ hidden = {}
    /\ dequeueCount = [m \in Messages |-> 0]
    /\ step = [h \in Hosts |-> "idle"]
    /\ msg = [h \in Hosts |-> NoMessage]
    /\ receipt = [h \in Hosts |-> 0]
    /\ completed = {} /\ reported = {}
    /\ tickets = [m \in Messages |-> 0]
    /\ poison = [m \in Messages |-> 0]
    /\ logged = {}
    /\ faults = 0

-----------------------------------------------------------------------------
(***************************************************************************)
(* tfs-api                                                                 *)
(***************************************************************************)

\* postQueue and postAmendmentQueue: the request is enqueued unvalidated and
\* answered 202.  Only a creation with delayCreation starts out hidden.
Enqueue(m) ==
    /\ m \notin sent
    /\ sent' = sent \cup {m}
    /\ stored' = stored \cup {m}
    /\ hidden' = IF KindOf[m] = "delayedCreation" THEN hidden \cup {m} ELSE hidden
    /\ UNCHANGED <<dequeueCount, host, completed, halo, poisoned, faults>>

-----------------------------------------------------------------------------
(***************************************************************************)
(* Azure Storage and the Functions runtime (external)                      *)
(***************************************************************************)
Holds(h, m) == step[h] # "idle" /\ msg[h] = m /\ receipt[h] = dequeueCount[m]

\* The delay has passed, or the lease of a host that stopped has run out.
BecomeVisible(m) ==
    /\ m \in hidden
    /\ \A h \in Hosts : ~Holds(h, m)
    /\ hidden' = hidden \ {m}
    /\ UNCHANGED <<sent, stored, dequeueCount, host, completed, halo, poisoned, faults>>

\* The lease runs out while a host still works on the message.
RenewalFails(m) ==
    /\ RenewalMayFail
    /\ faults < MaxFaults
    /\ m \in hidden
    /\ \E h \in Hosts : Holds(h, m)
    /\ hidden' = hidden \ {m}
    /\ faults' = faults + 1
    /\ UNCHANGED <<sent, stored, dequeueCount, host, completed, halo, poisoned>>

Take(h, m) ==
    /\ step[h] = "idle"
    /\ m \in stored \ hidden
    /\ hidden' = hidden \cup {m}
    /\ dequeueCount' = [dequeueCount EXCEPT ![m] = @ + 1]
    /\ msg' = [msg EXCEPT ![h] = m]
    /\ receipt' = [receipt EXCEPT ![h] = dequeueCount[m] + 1]
    /\ step' = [step EXCEPT ![h] =
                  IF dequeueCount[m] < MaxDequeueCount THEN "calling" ELSE "poisoning"]
    /\ UNCHANGED <<sent, stored, completed, halo, poisoned, faults>>

Rest(h) == step' = [step EXCEPT ![h] = "idle"] /\ UNCHANGED <<msg, receipt>>

Goto(h, s) == step' = [step EXCEPT ![h] = s] /\ UNCHANGED <<msg, receipt>>

DeleteMessage(h) ==
    LET gone == {m \in {msg[h]} : Holds(h, m)}
    IN  stored' = stored \ gone /\ hidden' = hidden \ gone

\* The function returned: the message is deleted.
Complete(h) ==
    /\ step[h] = "succeeded"
    /\ DeleteMessage(h)
    /\ Rest(h)
    /\ UNCHANGED <<sent, dequeueCount, completed, halo, poisoned, faults>>

\* The function threw: the message is released, unless this was its last turn.
Release(h) ==
    /\ step[h] = "failed"
    /\ receipt[h] < MaxDequeueCount
    /\ hidden' = hidden \ {m \in {msg[h]} : Holds(h, m)}
    /\ Rest(h)
    /\ UNCHANGED <<sent, stored, dequeueCount, completed, halo, poisoned, faults>>

CopyToPoison(h) ==
    /\ \/ step[h] = "poisoning"
       \/ step[h] = "failed" /\ receipt[h] >= MaxDequeueCount
    /\ poison' = [poison EXCEPT ![msg[h]] = @ + 1]
    /\ Goto(h, "discarding")
    /\ UNCHANGED <<store, completed, halo, logged, faults>>

Discard(h) ==
    /\ step[h] = "discarding"
    /\ DeleteMessage(h)
    /\ Rest(h)
    /\ UNCHANGED <<sent, dequeueCount, completed, halo, poisoned, faults>>

\* The host stops; its lease runs out later.
Crash(h) ==
    /\ step[h] # "idle"
    /\ faults < MaxFaults
    /\ faults' = faults + 1
    /\ Rest(h)
    /\ UNCHANGED <<store, completed, halo, poisoned>>

-----------------------------------------------------------------------------
(***************************************************************************)
(* processGiftQueueMessage                                                 *)
(***************************************************************************)
LastAttemptOrLater(h) ==   \* variant: >= where the code has ===
    receipt[h] >= MaxRetries

LastAttemptEarly(h) ==   \* variant: counts the retries, not the attempts
    receipt[h] + 1 = MaxRetries

LastAttemptMissed(h) ==   \* variant: counts from 0
    receipt[h] = MaxRetries + 1

LastAttempt(h) == receipt[h] = MaxRetries

\* The catch block: on the last attempt a ticket is raised before rethrowing.
CatchError(h) ==
    /\ Goto(h, IF LastAttempt(h) THEN "token" ELSE "failed")
    /\ reported' = IF LastAttempt(h) THEN reported \cup {msg[h]} ELSE reported

\* postToTfsApi: anything but a 201 throws, and so do a message of an unknown
\* type and an amendment without a facility ID, before any call is made.
PostToTfsApi(h) ==
    /\ step[h] = "calling"
    /\ \/ /\ KindOf[msg[h]] # "unroutable"
          /\ completed' = completed \cup {msg[h]}
          /\ Goto(h, "succeeded")
          /\ UNCHANGED reported
       \/ CatchError(h) /\ UNCHANGED completed
    /\ UNCHANGED <<store, tickets, poisoned, faults>>

GetHaloAccessTokenNoRethrow(h) ==   \* variant: no error after a failed token
    /\ step[h] = "token"
    /\ Goto(h, "ticket") \/ Goto(h, "succeeded")
    /\ UNCHANGED <<store, completed, halo, poisoned, faults>>

\* getHaloAccessToken: a failure is logged, and createHaloTicket returns.
GetHaloAccessToken(h) ==
    /\ step[h] = "token"
    /\ Goto(h, "ticket") \/ Goto(h, "failed")
    /\ UNCHANGED <<store, completed, halo, poisoned, faults>>

\* The POST of the ticket.  Its error is logged too, with or without a ticket
\* in Halo; either way the error of the call to tfs-api is rethrown.
CreateHaloTicket(h) ==
    /\ step[h] = "ticket"
    /\ \/ tickets' = [tickets EXCEPT ![msg[h]] = @ + 1]
       \/ UNCHANGED tickets
    /\ Goto(h, "failed")
    /\ UNCHANGED <<store, completed, reported, poisoned, faults>>

\* processPoisonQueueItem: takes a poison message and logs its facility ID.
ProcessPoisonQueueItem(m) ==
    /\ poison[m] > 0
    /\ poison' = [poison EXCEPT ![m] = @ - 1]
    /\ logged' = logged \cup {m}
    /\ UNCHANGED <<store, host, completed, halo, faults>>

-----------------------------------------------------------------------------
Work(h) ==
    \/ PostToTfsApi(h)
    \/ GetHaloAccessToken(h)
    \/ CreateHaloTicket(h)
    \/ Complete(h)
    \/ Release(h)
    \/ CopyToPoison(h)
    \/ Discard(h)

Next ==
    \/ \E m \in Messages :
          \/ Enqueue(m)
          \/ BecomeVisible(m)
          \/ RenewalFails(m)
          \/ ProcessPoisonQueueItem(m)
          \/ \E h \in Hosts : Take(h, m)
    \/ \E h \in Hosts : Work(h) \/ Crash(h)

Spec == Init /\ [][Next]_vars

\* A call returns or throws, a lease that is not renewed runs out, and a host
\* with nothing to do polls its queues.
FairSpec ==
    /\ Spec
    /\ \A h \in Hosts : WF_vars(Work(h))
    /\ \A m \in Messages : WF_vars(BecomeVisible(m)) /\ WF_vars(ProcessPoisonQueueItem(m))
    /\ WF_vars(\E h \in Hosts, m \in Messages : Take(h, m))

-----------------------------------------------------------------------------
(***************************************************************************)
(* Properties                                                              *)
(***************************************************************************)

\* The support team gets at most one ticket about a request, however often it
\* is delivered, also when the two maxima have drifted apart and leases are
\* lost (the === on dequeueCount in the catch block).
AtMostOneTicket == \A m \in Messages : tickets[m] <= 1

\* A request leaves the queue only when some attempt of it was answered 201 or
\* a copy of it is, or has been, in the poison queue: no error is swallowed on
\* the way from postToTfsApi to the runtime.
NothingLost ==
    \A m \in sent \ stored : m \in completed \/ poison[m] > 0 \/ m \in logged

\* With both maxima equal, a request that its last attempt moved to the poison
\* queue has had createHaloTicket called for it.  Taken once more, after that
\* attempt was cut short, it is discarded by the runtime without that call.
PoisonIsReported ==
    \A m \in Messages :
        /\ poison[m] > 0 \/ m \in logged
        /\ dequeueCount[m] <= MaxDequeueCount
        => m \in reported

\* A host that is still calling though its message was taken again.
Superseded(h) == receipt[h] < dequeueCount[msg[h]]

\* A ticket is final, with both maxima equal: once there is one, the support
\* team may act on it by hand, and no attempt of the request succeeds any more
\* but one that was at work before, and lost its lease.
TicketIsFinal ==
    [][\A h \in Hosts :
          /\ step[h] = "calling" /\ step'[h] = "succeeded"
          /\ tickets[msg[h]] > 0
          => Superseded(h)]_vars

\* What tfs-functions/README.md says of a request that ends in the poison
\* queue: a Halo ticket was raised before the error was rethrown.
PoisonHasTicket ==
    \A m \in Messages : poison[m] > 0 \/ m \in logged => tickets[m] > 0

\* Every request ends with a 201 or in the log of the poison queue function,
\* whatever fails and though hosts crash (finitely often).
EveryRequestSettles ==
    \A m \in Messages : m \in sent ~> m \in completed \/ m \in logged
=============================================================================
