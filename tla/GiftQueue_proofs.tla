-------------------------- MODULE GiftQueue_proofs --------------------------
(***************************************************************************)
(* Safety of GiftQueue for any number of messages, hosts and faults and    *)
(* any values of the two maxima; then GiftPipeline, which implements the   *)
(* queue, so that what is proved of it holds there; and what is counted as *)
(* done is in GIFT for good.                                               *)
(***************************************************************************)
EXTENDS GiftPipeline, TLAPS

Busy(h) == step[h] # "idle"

\* Receipts are handed out once: two hosts at work on one message hold
\* different ones, none newer than the message's count.
Receipts ==
    /\ \A h \in Hosts : Busy(h) => receipt[h] <= dequeueCount[msg[h]]
    /\ \A h, g \in Hosts :
          Busy(h) /\ Busy(g) /\ msg[h] = msg[g] /\ receipt[h] = receipt[g] => h = g

\* The function only runs for the first maxDequeueCount receipts of a message,
\* and a failure at MaxRetries goes through createHaloTicket.
Turns ==
    \A h \in Hosts :
        /\ step[h] \in {"calling", "token", "ticket"} => receipt[h] <= MaxDequeueCount
        /\ step[h] \in {"token", "ticket"} => msg[h] \in reported
        /\ step[h] = "failed" /\ receipt[h] = MaxRetries => msg[h] \in reported
        /\ step[h] = "failed" => receipt[h] <= MaxDequeueCount
        /\ step[h] = "poisoning" => receipt[h] > MaxDequeueCount

\* The host that raised the ticket of a message is past doing so again.
TicketSpent ==
    \A m \in Messages : tickets[m] > 0 =>
        /\ dequeueCount[m] >= MaxRetries
        /\ \A h \in Hosts :
              msg[h] = m /\ receipt[h] = MaxRetries => step[h] \notin {"calling", "token", "ticket"}

\* What a host that is about to delete its message knows of it.
Accounted ==
    \A h \in Hosts :
        /\ step[h] = "succeeded" => msg[h] \in completed
        /\ step[h] = "discarding" => poison[msg[h]] > 0 \/ msg[h] \in logged

\* While no renewal fails, a message at work is leased with the newest receipt.
Leased ==
    ~RenewalMayFail =>
        \A h \in Hosts : Busy(h) => msg[h] \in hidden /\ receipt[h] = dequeueCount[msg[h]]

\* The inductive invariant.
QInv == TypeOK /\ Receipts /\ Turns /\ TicketSpent /\ Accounted /\ Leased
        /\ AtMostOneTicket /\ NothingLost

\* A new message has no receipt, no ticket and no host.
LEMMA EnqueueStep ==
  ASSUME NEW m \in Messages, QInv, Enqueue(m)
  PROVE  QInv'
<1> USE QueueAssumption DEF QInv, store, host, halo, poisoned, Enqueue
<1>1. TypeOK'
  BY DEF TypeOK, HostSteps
<1>2. Receipts'
  BY DEF TypeOK, Receipts, Busy
<1>3. Turns'
  BY DEF TypeOK, Turns
<1>4. TicketSpent'
  BY DEF TypeOK, TicketSpent
<1>5. Accounted'
  BY DEF TypeOK, Accounted
<1>6. Leased'
  BY DEF TypeOK, Leased, Busy
<1>7. AtMostOneTicket'
  BY DEF TypeOK, AtMostOneTicket
<1>8. NothingLost'
  BY DEF TypeOK, NothingLost
<1> QED
  BY <1>1, <1>2, <1>3, <1>4, <1>5, <1>6, <1>7, <1>8

\* A message becomes visible when no host holds its newest receipt, so none
\* is at work on it while renewals succeed.
LEMMA BecomeVisibleStep ==
  ASSUME NEW m \in Messages, QInv, BecomeVisible(m)
  PROVE  QInv'
<1> USE QueueAssumption DEF QInv, store, host, halo, poisoned, Holds, BecomeVisible
<1>1. TypeOK'
  BY DEF TypeOK, HostSteps
<1>2. Receipts'
  BY DEF TypeOK, Receipts, Busy
<1>3. Turns'
  BY DEF TypeOK, Turns
<1>4. TicketSpent'
  BY DEF TypeOK, TicketSpent
<1>5. Accounted'
  BY DEF TypeOK, Accounted
<1>6. Leased'
  BY DEF TypeOK, Leased, Busy
<1>7. AtMostOneTicket'
  BY DEF TypeOK, AtMostOneTicket
<1>8. NothingLost'
  BY DEF TypeOK, NothingLost
<1> QED
  BY <1>1, <1>2, <1>3, <1>4, <1>5, <1>6, <1>7, <1>8

\* A lost lease only shows the message again.
LEMMA RenewalFailsStep ==
  ASSUME NEW m \in Messages, QInv, RenewalFails(m)
  PROVE  QInv'
<1> USE QueueAssumption DEF QInv, store, host, halo, poisoned, Holds, RenewalFails
<1>1. TypeOK'
  BY DEF TypeOK, HostSteps
<1>2. Receipts'
  BY DEF TypeOK, Receipts, Busy
<1>3. Turns'
  BY DEF TypeOK, Turns
<1>4. TicketSpent'
  BY DEF TypeOK, TicketSpent
<1>5. Accounted'
  BY DEF TypeOK, Accounted
<1>6. Leased'
  BY DEF TypeOK, Leased, Busy
<1>7. AtMostOneTicket'
  BY DEF TypeOK, AtMostOneTicket
<1>8. NothingLost'
  BY DEF TypeOK, NothingLost
<1> QED
  BY <1>1, <1>2, <1>3, <1>4, <1>5, <1>6, <1>7, <1>8

\* The receipt handed out is newer than every other one of the message.
LEMMA TakeStep ==
  ASSUME NEW h \in Hosts, NEW m \in Messages, QInv, Take(h, m)
  PROVE  QInv'
<1> USE QueueAssumption DEF QInv, store, host, halo, poisoned, Take
<1>1. TypeOK'
  BY DEF TypeOK, HostSteps
<1>2. Receipts'
  BY DEF TypeOK, Receipts, Busy
<1>3. Turns'
  BY DEF TypeOK, Turns
<1>4. TicketSpent'
  BY DEF TypeOK, TicketSpent
<1>5. Accounted'
  BY DEF TypeOK, Accounted
<1>6. Leased'
  BY DEF TypeOK, Leased, Busy
<1>7. AtMostOneTicket'
  BY DEF TypeOK, AtMostOneTicket
<1>8. NothingLost'
  BY DEF TypeOK, NothingLost
<1> QED
  BY <1>1, <1>2, <1>3, <1>4, <1>5, <1>6, <1>7, <1>8

\* The call ends in a 201, or in the catch block, which goes on to a ticket
\* with the receipt numbered MaxRetries only.
LEMMA PostToTfsApiStep ==
  ASSUME NEW h \in Hosts, QInv, PostToTfsApi(h)
  PROVE  QInv'
<1> USE QueueAssumption DEF QInv, store, host, halo, poisoned, Goto, CatchError, LastAttempt, PostToTfsApi
<1>1. TypeOK'
  BY DEF TypeOK, HostSteps
<1>2. Receipts'
  BY DEF TypeOK, Receipts, Busy
<1>3. Turns'
  BY DEF TypeOK, Turns
<1>4. TicketSpent'
  BY DEF TypeOK, TicketSpent
<1>5. Accounted'
  BY DEF TypeOK, Accounted
<1>6. Leased'
  BY DEF TypeOK, Leased, Busy
<1>7. AtMostOneTicket'
  BY DEF TypeOK, AtMostOneTicket
<1>8. NothingLost'
  BY DEF TypeOK, NothingLost
<1> QED
  BY <1>1, <1>2, <1>3, <1>4, <1>5, <1>6, <1>7, <1>8

\* Without a token there is no ticket, and the error is rethrown.
LEMMA GetHaloAccessTokenStep ==
  ASSUME NEW h \in Hosts, QInv, GetHaloAccessToken(h)
  PROVE  QInv'
<1> USE QueueAssumption DEF QInv, store, host, halo, poisoned, Goto, GetHaloAccessToken
<1>1. TypeOK'
  BY DEF TypeOK, HostSteps
<1>2. Receipts'
  BY DEF TypeOK, Receipts, Busy
<1>3. Turns'
  BY DEF TypeOK, Turns
<1>4. TicketSpent'
  BY DEF TypeOK, TicketSpent
<1>5. Accounted'
  BY DEF TypeOK, Accounted
<1>6. Leased'
  BY DEF TypeOK, Leased, Busy
<1>7. AtMostOneTicket'
  BY DEF TypeOK, AtMostOneTicket
<1>8. NothingLost'
  BY DEF TypeOK, NothingLost
<1> QED
  BY <1>1, <1>2, <1>3, <1>4, <1>5, <1>6, <1>7, <1>8

\* The host posting a ticket is the only one that could: the receipt
\* numbered MaxRetries is its own, and none has been posted with it before.
LEMMA CreateHaloTicketStep ==
  ASSUME NEW h \in Hosts, QInv, CreateHaloTicket(h)
  PROVE  QInv'
<1> USE QueueAssumption DEF QInv, store, host, halo, poisoned, Goto, CreateHaloTicket
<1>1. TypeOK'
  BY DEF TypeOK, HostSteps
<1>2. Receipts'
  BY DEF TypeOK, Receipts, Busy
<1>3. Turns'
  BY DEF TypeOK, Turns
<1>4. TicketSpent'
  BY DEF TypeOK, TicketSpent, Turns, Receipts, Busy
<1>5. Accounted'
  BY DEF TypeOK, Accounted
<1>6. Leased'
  BY DEF TypeOK, Leased, Busy
<1>7. AtMostOneTicket'
  BY DEF TypeOK, AtMostOneTicket, TicketSpent, Turns
<1>8. NothingLost'
  BY DEF TypeOK, NothingLost
<1> QED
  BY <1>1, <1>2, <1>3, <1>4, <1>5, <1>6, <1>7, <1>8

\* A message is deleted after an answer of 201 has been counted.
LEMMA CompleteStep ==
  ASSUME NEW h \in Hosts, QInv, Complete(h)
  PROVE  QInv'
<1> USE QueueAssumption DEF QInv, store, host, halo, poisoned, Rest, DeleteMessage, Holds, Complete
<1>1. TypeOK'
  BY DEF TypeOK, HostSteps
<1>2. Receipts'
  BY DEF TypeOK, Receipts, Busy
<1>3. Turns'
  BY DEF TypeOK, Turns
<1>4. TicketSpent'
  BY DEF TypeOK, TicketSpent
<1>5. Accounted'
  BY DEF TypeOK, Accounted
<1>6. Leased'
  BY DEF TypeOK, Leased, Busy, Receipts
<1>7. AtMostOneTicket'
  BY DEF TypeOK, AtMostOneTicket
<1>8. NothingLost'
  BY DEF TypeOK, NothingLost, Accounted
<1> QED
  BY <1>1, <1>2, <1>3, <1>4, <1>5, <1>6, <1>7, <1>8

\* A released message shows again under the same count.
LEMMA ReleaseStep ==
  ASSUME NEW h \in Hosts, QInv, Release(h)
  PROVE  QInv'
<1> USE QueueAssumption DEF QInv, store, host, halo, poisoned, Rest, Holds, Release
<1>1. TypeOK'
  BY DEF TypeOK, HostSteps
<1>2. Receipts'
  BY DEF TypeOK, Receipts, Busy
<1>3. Turns'
  BY DEF TypeOK, Turns
<1>4. TicketSpent'
  BY DEF TypeOK, TicketSpent
<1>5. Accounted'
  BY DEF TypeOK, Accounted
<1>6. Leased'
  BY DEF TypeOK, Leased, Busy, Receipts
<1>7. AtMostOneTicket'
  BY DEF TypeOK, AtMostOneTicket
<1>8. NothingLost'
  BY DEF TypeOK, NothingLost
<1> QED
  BY <1>1, <1>2, <1>3, <1>4, <1>5, <1>6, <1>7, <1>8

\* The poison queue gets its copy before the message is deleted.
LEMMA CopyToPoisonStep ==
  ASSUME NEW h \in Hosts, QInv, CopyToPoison(h)
  PROVE  QInv'
<1> USE QueueAssumption DEF QInv, store, host, halo, poisoned, Goto, CopyToPoison
<1>1. TypeOK'
  <2>1. msg[h] \in Messages /\ step[h] # "idle"
    BY DEF TypeOK
  <2>2. poison' \in [Messages -> Nat] /\ step' \in [Hosts -> HostSteps]
    BY <2>1 DEF TypeOK, HostSteps
  <2>3. \A g \in Hosts : step'[g] # "idle" => msg'[g] \in sent'
    BY <2>1 DEF TypeOK
  <2> QED
    BY <2>2, <2>3 DEF TypeOK
<1>2. Receipts'
  BY DEF TypeOK, Receipts, Busy
<1>3. Turns'
  BY DEF TypeOK, Turns
<1>4. TicketSpent'
  BY DEF TypeOK, TicketSpent
<1>5. Accounted'
  BY DEF TypeOK, Accounted
<1>6. Leased'
  BY DEF TypeOK, Leased, Busy
<1>7. AtMostOneTicket'
  BY DEF TypeOK, AtMostOneTicket
<1>8. NothingLost'
  BY DEF TypeOK, NothingLost
<1> QED
  BY <1>1, <1>2, <1>3, <1>4, <1>5, <1>6, <1>7, <1>8

\* A message is deleted after its copy was made.
LEMMA DiscardStep ==
  ASSUME NEW h \in Hosts, QInv, Discard(h)
  PROVE  QInv'
<1> USE QueueAssumption DEF QInv, store, host, halo, poisoned, Rest, DeleteMessage, Holds, Discard
<1>1. TypeOK'
  BY DEF TypeOK, HostSteps
<1>2. Receipts'
  BY DEF TypeOK, Receipts, Busy
<1>3. Turns'
  BY DEF TypeOK, Turns
<1>4. TicketSpent'
  BY DEF TypeOK, TicketSpent
<1>5. Accounted'
  BY DEF TypeOK, Accounted
<1>6. Leased'
  BY DEF TypeOK, Leased, Busy, Receipts
<1>7. AtMostOneTicket'
  BY DEF TypeOK, AtMostOneTicket
<1>8. NothingLost'
  BY DEF TypeOK, NothingLost, Accounted
<1> QED
  BY <1>1, <1>2, <1>3, <1>4, <1>5, <1>6, <1>7, <1>8

\* A host that stops keeps nothing of its message but the lease.
LEMMA CrashStep ==
  ASSUME NEW h \in Hosts, QInv, Crash(h)
  PROVE  QInv'
<1> USE QueueAssumption DEF QInv, store, host, halo, poisoned, Rest, Crash
<1>1. TypeOK'
  BY DEF TypeOK, HostSteps
<1>2. Receipts'
  BY DEF TypeOK, Receipts, Busy
<1>3. Turns'
  BY DEF TypeOK, Turns
<1>4. TicketSpent'
  BY DEF TypeOK, TicketSpent
<1>5. Accounted'
  BY DEF TypeOK, Accounted
<1>6. Leased'
  BY DEF TypeOK, Leased, Busy
<1>7. AtMostOneTicket'
  BY DEF TypeOK, AtMostOneTicket
<1>8. NothingLost'
  BY DEF TypeOK, NothingLost
<1> QED
  BY <1>1, <1>2, <1>3, <1>4, <1>5, <1>6, <1>7, <1>8

\* A poison message that is taken is logged.
LEMMA ProcessPoisonQueueItemStep ==
  ASSUME NEW m \in Messages, QInv, ProcessPoisonQueueItem(m)
  PROVE  QInv'
<1> USE QueueAssumption DEF QInv, store, host, halo, poisoned, ProcessPoisonQueueItem
<1>1. TypeOK'
  BY DEF TypeOK, HostSteps
<1>2. Receipts'
  BY DEF TypeOK, Receipts, Busy
<1>3. Turns'
  BY DEF TypeOK, Turns
<1>4. TicketSpent'
  BY DEF TypeOK, TicketSpent
<1>5. Accounted'
  BY DEF TypeOK, Accounted
<1>6. Leased'
  BY DEF TypeOK, Leased, Busy
<1>7. AtMostOneTicket'
  BY DEF TypeOK, AtMostOneTicket
<1>8. NothingLost'
  BY DEF TypeOK, NothingLost
<1> QED
  BY <1>1, <1>2, <1>3, <1>4, <1>5, <1>6, <1>7, <1>8

\* The initial states satisfy the inductive invariant.
LEMMA QInitInductive == Init => QInv
<1> SUFFICES ASSUME Init PROVE QInv
  OBVIOUS
<1> USE QueueAssumption DEF Init
<1>1. TypeOK
  BY DEF TypeOK, HostSteps
<1>2. Receipts /\ Turns /\ TicketSpent /\ Accounted /\ Leased
  BY DEF Receipts, Turns, TicketSpent, Accounted, Leased, Busy
<1>3. AtMostOneTicket /\ NothingLost
  BY DEF AtMostOneTicket, NothingLost
<1> QED
  BY <1>1, <1>2, <1>3 DEF QInv

\* Every step keeps the inductive invariant.
LEMMA QNextInductive == QInv /\ [Next]_vars => QInv'
<1>1. ASSUME QInv, Next
      PROVE  QInv'
  BY <1>1, EnqueueStep, BecomeVisibleStep, RenewalFailsStep, TakeStep,
     PostToTfsApiStep, GetHaloAccessTokenStep, CreateHaloTicketStep,
     CompleteStep, ReleaseStep, CopyToPoisonStep, DiscardStep, CrashStep,
     ProcessPoisonQueueItemStep
     DEF Next, Work
<1>2. ASSUME QInv, UNCHANGED vars
      PROVE  QInv'
  BY <1>2 DEF vars, QInv, TypeOK, Receipts, Turns, TicketSpent, Accounted, Leased,
     Busy, AtMostOneTicket, NothingLost
<1> QED
  BY <1>1, <1>2

\* The inductive invariant holds in every reachable state of the queue.
THEOREM QueueInductive == Spec => []QInv
  BY QInitInductive, QNextInductive, PTL DEF Spec

\* The variables of the queue keep their types.
THEOREM QueueTypeCorrect == Spec => []TypeOK
<1>1. QInv => TypeOK
  BY DEF QInv
<1> QED
  BY QueueInductive, <1>1, PTL

\* At most one ticket is raised about a request, for any two maxima, any number
\* of hosts, and with lost leases and crashes.
THEOREM OneTicket == Spec => []AtMostOneTicket
<1>1. QInv => AtMostOneTicket
  BY DEF QInv
<1> QED
  BY QueueInductive, <1>1, PTL

\* A request that has left the queue was answered 201 or is, or has been, in
\* the poison queue.
THEOREM NoRequestLost == Spec => []NothingLost
<1>1. QInv => NothingLost
  BY DEF QInv
<1> QED
  BY QueueInductive, <1>1, PTL

\* A calling host has a receipt not above MaxRetries, and with a ticket that
\* one is spent, and so is every smaller one.
LEMMA CallingIsSuperseded ==
  ASSUME MaxRetries = MaxDequeueCount, QInv,
         NEW h \in Hosts, step[h] = "calling", tickets[msg[h]] > 0
  PROVE  Superseded(h)
<1>1. msg[h] \in Messages /\ receipt[h] <= MaxRetries
  BY DEF QInv, TypeOK, Turns
<1>2. dequeueCount[msg[h]] >= MaxRetries /\ receipt[h] # MaxRetries
  BY <1>1 DEF QInv, TicketSpent
<1> QED
  BY <1>1, <1>2, QueueAssumption DEF QInv, TypeOK, Superseded

\* With equal maxima no attempt succeeds after a ticket, unless its message has
\* been taken again while it was at work.
THEOREM FinalTicket == MaxRetries = MaxDequeueCount => (Spec => TicketIsFinal)
<1> SUFFICES ASSUME MaxRetries = MaxDequeueCount
             PROVE  Spec => TicketIsFinal
  OBVIOUS
<1>1. QInv =>
        \A h \in Hosts : step[h] = "calling" /\ tickets[msg[h]] > 0 => Superseded(h)
  BY CallingIsSuperseded
<1>2. QInv /\ [Next]_vars =>
        [\A h \in Hosts :
            /\ step[h] = "calling" /\ step'[h] = "succeeded"
            /\ tickets[msg[h]] > 0
            => Superseded(h)]_vars
  BY <1>1
<1> QED
  BY QueueInductive, <1>2, PTL DEF Spec, TicketIsFinal

\* With reliable leases that does not happen: nobody still calls after a ticket.
THEOREM NobodyCallsAfterTicket ==
  MaxRetries = MaxDequeueCount /\ ~RenewalMayFail =>
      (Spec => [](\A h \in Hosts : step[h] = "calling" => tickets[msg[h]] = 0))
<1> SUFFICES ASSUME MaxRetries = MaxDequeueCount, ~RenewalMayFail
             PROVE  Spec => [](\A h \in Hosts : step[h] = "calling" => tickets[msg[h]] = 0)
  OBVIOUS
<1>1. ASSUME QInv, NEW h \in Hosts, step[h] = "calling"
      PROVE  tickets[msg[h]] = 0
  <2>1. msg[h] \in Messages /\ receipt[h] = dequeueCount[msg[h]]
    BY <1>1 DEF QInv, TypeOK, Leased, Busy
  <2> QED
    BY <1>1, <2>1, CallingIsSuperseded DEF QInv, TypeOK, Superseded
<1>2. QInv => \A h \in Hosts : step[h] = "calling" => tickets[msg[h]] = 0
  BY <1>1
<1> QED
  BY QueueInductive, <1>2, PTL

\* A copy for the poison queue is made by the host of the last attempt, after
\* createHaloTicket, or of one attempt more, which the runtime cut short.
LEMMA ReportStep ==
  ASSUME MaxRetries = MaxDequeueCount, QInv, PoisonIsReported, [Next]_vars
  PROVE  PoisonIsReported'
<1> USE QueueAssumption DEF QInv
<1>1. ASSUME NEW h \in Hosts, CopyToPoison(h)
      PROVE  PoisonIsReported'
  <2>1. receipt[h] > MaxDequeueCount \/ msg[h] \in reported
    BY <1>1 DEF CopyToPoison, Turns, TypeOK
  <2>2. msg[h] \in Messages /\ receipt[h] <= dequeueCount[msg[h]]
    BY <1>1 DEF CopyToPoison, Receipts, Busy, TypeOK
  <2> QED
    BY <1>1, <2>1, <2>2 DEF CopyToPoison, store, halo, PoisonIsReported, TypeOK
<1>2. ASSUME NEW h \in Hosts, NEW m \in Messages, Take(h, m)
      PROVE  PoisonIsReported'
  BY <1>2 DEF Take, halo, poisoned, PoisonIsReported, TypeOK
<1>3. ASSUME NEW m \in Messages, ProcessPoisonQueueItem(m)
      PROVE  PoisonIsReported'
  BY <1>3 DEF ProcessPoisonQueueItem, store, halo, PoisonIsReported, TypeOK
<1>4. ASSUME NEW m \in Messages, Enqueue(m) \/ BecomeVisible(m) \/ RenewalFails(m)
      PROVE  PoisonIsReported'
  BY <1>4 DEF Enqueue, BecomeVisible, RenewalFails, halo, poisoned, PoisonIsReported
<1>5. ASSUME NEW h \in Hosts,
             \/ PostToTfsApi(h) \/ GetHaloAccessToken(h) \/ CreateHaloTicket(h)
             \/ Complete(h) \/ Release(h) \/ Discard(h) \/ Crash(h)
      PROVE  /\ UNCHANGED <<dequeueCount, poison, logged>>
             /\ reported \subseteq reported'
  BY <1>5 DEF PostToTfsApi, CatchError, GetHaloAccessToken, CreateHaloTicket, Complete,
     Release, Discard, Crash, store, halo, poisoned
<1>6. ASSUME NEW h \in Hosts,
             \/ PostToTfsApi(h) \/ GetHaloAccessToken(h) \/ CreateHaloTicket(h)
             \/ Complete(h) \/ Release(h) \/ Discard(h) \/ Crash(h)
      PROVE  PoisonIsReported'
  BY <1>5, <1>6 DEF PoisonIsReported
<1>7. CASE UNCHANGED vars
  BY <1>7 DEF vars, PoisonIsReported
<1> QED
  BY <1>1, <1>2, <1>3, <1>4, <1>6, <1>7 DEF Next, Work

\* With equal maxima, a request moved to the poison queue by its last attempt
\* has had createHaloTicket called for it.
THEOREM PoisonReported ==
  MaxRetries = MaxDequeueCount => (Spec => []PoisonIsReported)
<1> SUFFICES ASSUME MaxRetries = MaxDequeueCount
             PROVE  Spec => []PoisonIsReported
  OBVIOUS
<1>1. Init => PoisonIsReported
  BY QueueAssumption DEF Init, PoisonIsReported
<1>2. QInv /\ PoisonIsReported /\ [Next]_vars => PoisonIsReported'
  BY ReportStep
<1> QED
  BY QueueInductive, <1>1, <1>2, PTL DEF Spec

-----------------------------------------------------------------------------
(* The pipeline: the queue.                                                *)

\* Every step of the pipeline is a step of the queue, or none of its business.
LEMMA PipelineStepIsQueueStep == [PipelineNext]_pipelineVars => [Next]_vars
  BY DEF PipelineNext, pipelineVars, Deliver, PostFacility, PostAmendment

\* Whatever tfs-api and GIFT do, the queue behaves as GiftQueue says.
THEOREM PipelineRefinesQueue == PipelineSpec => ImplementsQueue
<1>1. PipelineInit => Init
  BY DEF PipelineInit
<1> QED
  BY <1>1, PipelineStepIsQueueStep, PTL DEF PipelineSpec, ImplementsQueue, Spec

\* So there is at most one ticket about a request, however many deliveries of
\* it tfs-api is still working on.
THEOREM PipelineOneTicket == PipelineSpec => []AtMostOneTicket
  BY PipelineRefinesQueue, OneTicket, PTL DEF ImplementsQueue

-----------------------------------------------------------------------------
(* The pipeline: GIFT.                                                     *)

\* A host that makes a call makes one of those tfs-api knows, or none.
CallsAreKnown ==
    \A h \in Hosts :
        /\ step[h] # "idle" => receipt[h] \in Nat \ {0}
        /\ step[h] = "calling" => receipt[h] <= MaxDequeueCount

\* A creation that was answered 201 is shown.
ConfirmedIsShown ==
    \A c \in CreationCalls : created[c] = "created" => content[FacilityOf[c[1]]] # {}

\* What the queue counts as done was answered 201 to one of its deliveries.
CompletedIsConfirmed ==
    \A m \in completed \cap Creations :
        \E n \in 1..MaxDequeueCount : created[<<m, n>>] = "created"

PInv ==
    /\ PipelineTypeOK
    /\ CallsAreKnown
    /\ ConfirmedIsShown
    /\ CompletedIsConfirmed

\* The facility of a creation is one.
LEMMA CallsHaveFacilities == \A c \in Calls : FacilityOf[c[1]] \in Facilities
  BY PipelineAssumption DEF Calls, CreationCalls, AmendmentCalls, Creations, Amendments

\* A delivery of a creation that is answered confirms that creation.
LEMMA DeliverStep ==
    ASSUME PInv, TypeOK', Deliver(Next)
    PROVE  PInv'
<1> USE QueueAssumption
<1>1. PipelineTypeOK'
  BY DEF PInv, PipelineTypeOK, Deliver, service
<1>2. CallsAreKnown'
  <2>1. ASSUME NEW h \in Hosts, NEW m \in Messages, Take(h, m)
        PROVE  CallsAreKnown'
    BY <2>1 DEF Take, PInv, PipelineTypeOK, TypeOK, CallsAreKnown
  <2>2. ASSUME NEW h \in Hosts, Work(h) \/ Crash(h)
        PROVE  CallsAreKnown'
    BY <2>2 DEF Work, Crash, Rest, Goto, PostToTfsApi, CatchError, GetHaloAccessToken,
                CreateHaloTicket, Complete, Release, CopyToPoison, Discard,
                PInv, PipelineTypeOK, TypeOK, CallsAreKnown
  <2>3. ASSUME NEW m \in Messages, \/ Enqueue(m) \/ BecomeVisible(m) \/ RenewalFails(m)
                                   \/ ProcessPoisonQueueItem(m)
        PROVE  CallsAreKnown'
    BY <2>3 DEF Enqueue, BecomeVisible, RenewalFails, ProcessPoisonQueueItem, host,
                PInv, CallsAreKnown
  <2> QED
    BY <2>1, <2>2, <2>3 DEF Deliver, Next
<1>3. ConfirmedIsShown'
  BY DEF PInv, ConfirmedIsShown, Deliver, service
<1>4. CompletedIsConfirmed'
  <2>1. ASSUME NEW m \in completed', m \notin completed
        PROVE  \E h \in Hosts : Returns(h) /\ msg[h] = m
    <3>1. PICK h \in Hosts : PostToTfsApi(h)
      BY <2>1 DEF Deliver, Next, Work, Enqueue, BecomeVisible, RenewalFails, Take, Crash,
                  ProcessPoisonQueueItem, GetHaloAccessToken, CreateHaloTicket, Complete,
                  Release, CopyToPoison, Discard
    <3> QED
      BY <2>1, <3>1 DEF PostToTfsApi, CatchError, Goto, Returns, PInv, PipelineTypeOK, TypeOK
  <2>2. ASSUME NEW m \in completed' \cap Creations, m \notin completed
        PROVE  \E n \in 1..MaxDequeueCount : created[<<m, n>>] = "created"
    <3>1. PICK h \in Hosts : Returns(h) /\ msg[h] = m
      BY <2>1, <2>2
    <3>2. receipt[h] \in 1..MaxDequeueCount
      BY <3>1 DEF Returns, PInv, CallsAreKnown
    <3>3. AnswerTo(<<m, receipt[h]>>) = "created"
      BY <3>1 DEF Deliver, Confirmed, CallOf
    <3> QED
      BY <2>2, <3>2, <3>3 DEF AnswerTo, CreationCalls
  <2> QED
    BY <2>2 DEF PInv, CompletedIsConfirmed, Deliver, service
<1> QED
  BY <1>1, <1>2, <1>3, <1>4 DEF PInv

\* A creation publishes what it is answered 201 for, and withdraws nothing that
\* anybody was answered 201 for.
LEMMA PostFacilityStep ==
    ASSUME PInv, NEW c \in CreationCalls, PostFacility(c)
    PROVE  /\ PInv'
           /\ \A m \in completed \cap Creations :
                 kept[FacilityOf[m]] \subseteq kept'[FacilityOf[m]]
<1> DEFINE f == FacilityOf[c[1]]
<1>1. /\ f \in Facilities
      /\ \A d \in CreationCalls : FacilityOf[d[1]] \in Facilities
  BY CallsHaveFacilities DEF Calls
<1>2. /\ UNCHANGED vars /\ UNCHANGED amended
      /\ created[c] = "none"
      /\ \E s \in {"none", "created", "refused", "error"} : created' = [created EXCEPT ![c] = s]
  BY DEF PostFacility, AtWork, AnswerTo, TakeBack, Creation!Publish, Creation!Withdraw,
         Creation!Fail, PInv, PipelineTypeOK
<1>3. \A d \in CreationCalls \ {c} : created'[d] = created[d]
  BY <1>2 DEF PInv, PipelineTypeOK
<1>4. CompletedIsConfirmed'
  <2>1. \A d \in CreationCalls : created[d] = "created" => created'[d] = "created"
    BY <1>2, <1>3
  <2> QED
    BY <1>2, <2>1 DEF PInv, CompletedIsConfirmed, CreationCalls, vars
<1>5. CallsAreKnown'
  BY <1>2 DEF PInv, CallsAreKnown, vars
<1>6. TypeOK' /\ created' \in [CreationCalls -> {"none", "created", "refused", "error"}]
  BY <1>2 DEF PInv, PipelineTypeOK, TypeOK, vars
<1>7. CASE Creation!Publish(c) /\ UNCHANGED kept
  <2>1. content' = [content EXCEPT ![f] = {f}]
    BY <1>7 DEF Creation!Publish, Whole
  <2>2. content' \in [Facilities -> SUBSET Facilities]
    BY <1>1, <2>1 DEF PInv, PipelineTypeOK
  <2>3. ConfirmedIsShown'
    BY <1>1, <1>3, <2>1 DEF PInv, PipelineTypeOK, ConfirmedIsShown
  <2> QED
    BY <1>2, <1>4, <1>5, <1>6, <1>7, <2>2, <2>3 DEF PInv, PipelineTypeOK
<1>8. CASE TakeBack(c)
  <2>1. /\ \A d \in CreationCalls : FacilityOf[d[1]] = f => created[d] # "created"
        /\ content' = [content EXCEPT ![f] = {}]
        /\ kept' = [kept EXCEPT ![f] = {}]
    BY <1>8 DEF TakeBack, Creation!Withdraw, Creation!NotConfirmed
  <2>2. created'[c] # "created"
    BY <1>2, <1>8 DEF TakeBack, Creation!Withdraw, PInv, PipelineTypeOK
  <2>3. ConfirmedIsShown'
    BY <1>1, <1>3, <2>1, <2>2 DEF PInv, PipelineTypeOK, ConfirmedIsShown
  <2>4. \A m \in completed \cap Creations : FacilityOf[m] # f
    BY <2>1 DEF PInv, CompletedIsConfirmed, CreationCalls
  <2>5. \A m \in completed \cap Creations : kept'[FacilityOf[m]] = kept[FacilityOf[m]]
    BY <2>1, <2>4, PipelineAssumption DEF PInv, PipelineTypeOK, Creations
  <2> QED
    BY <1>1, <1>2, <1>4, <1>5, <1>6, <2>1, <2>3, <2>5 DEF PInv, PipelineTypeOK
<1>9. CASE Creation!Fail(c) /\ UNCHANGED kept
  <2>1. UNCHANGED content /\ created'[c] # "created"
    BY <1>2, <1>9 DEF Creation!Fail, PInv, PipelineTypeOK
  <2>2. ConfirmedIsShown'
    BY <1>3, <2>1 DEF PInv, ConfirmedIsShown
  <2> QED
    BY <1>2, <1>4, <1>5, <1>6, <1>9, <2>1, <2>2 DEF PInv, PipelineTypeOK
<1> QED
  BY <1>7, <1>8, <1>9 DEF PostFacility

\* An amendment adds itself to what GIFT shows.
LEMMA PostAmendmentStep ==
    ASSUME PInv, NEW c \in AmendmentCalls, PostAmendment(c)
    PROVE  PInv' /\ \A f \in Facilities : kept[f] \subseteq kept'[f]
<1> DEFINE f == FacilityOf[c[1]]
<1>1. f \in Facilities /\ c[1] \in Amendments
  BY CallsHaveFacilities DEF Calls, AmendmentCalls
<1>2. /\ UNCHANGED vars /\ UNCHANGED <<content, created>>
      /\ \E s \in {"created", "refused", "error"} : amended' = [amended EXCEPT ![c] = s]
      /\ UNCHANGED kept \/ kept' = [kept EXCEPT ![f] = @ \cup {c[1]}]
  BY DEF PostAmendment, Amendment!Amend, Amendment!Reject, Amendment!Answers, AddsTo
<1>3. kept' \in [Facilities -> SUBSET Amendments] /\ \A g \in Facilities : kept[g] \subseteq kept'[g]
  BY <1>1, <1>2 DEF PInv, PipelineTypeOK
<1>4. PipelineTypeOK'
  BY <1>2, <1>3 DEF PInv, PipelineTypeOK, TypeOK, vars
<1>5. CallsAreKnown' /\ ConfirmedIsShown' /\ CompletedIsConfirmed'
  BY <1>2 DEF PInv, CallsAreKnown, ConfirmedIsShown, CompletedIsConfirmed, vars
<1> QED
  BY <1>3, <1>4, <1>5 DEF PInv

\* The invariant holds at first.
LEMMA PipelineInitInductive == PipelineInit => PInv
  BY QInitInductive, QueueAssumption
     DEF PipelineInit, PInv, PipelineTypeOK, CallsAreKnown, ConfirmedIsShown,
         CompletedIsConfirmed, QInv, Init, Creation!ContractInit, Amendment!AmendmentsInit

\* Every step of the pipeline keeps the invariant, for any messages, hosts,
\* facilities, maxima and faults.
THEOREM PipelineInductive == PipelineSpec => []PInv
<1>1. PInv /\ TypeOK' /\ [PipelineNext]_pipelineVars => PInv'
  <2>1. ASSUME PInv, UNCHANGED pipelineVars
        PROVE  PInv'
    BY <2>1 DEF PInv, PipelineTypeOK, TypeOK, CallsAreKnown, ConfirmedIsShown,
                CompletedIsConfirmed, pipelineVars, service, vars
  <2>2. ASSUME PInv, NEW c \in Calls, PostFacility(c) \/ PostAmendment(c)
        PROVE  PInv'
    BY <2>2, PostFacilityStep, PostAmendmentStep DEF PostFacility, PostAmendment
  <2> QED
    BY <2>1, <2>2, DeliverStep DEF PipelineNext
<1>2. PipelineSpec => []TypeOK
  BY PipelineRefinesQueue, QueueTypeCorrect, PTL DEF ImplementsQueue
<1> QED
  BY PipelineInitInductive, <1>1, <1>2, PTL DEF PipelineSpec

\* What the queue counts as done GIFT shows, for good.
THEOREM DoneIsInGift == PipelineSpec => []CompletedIsInGift
<1>1. ASSUME PInv, NEW m \in completed \cap Creations
      PROVE  content[FacilityOf[m]] # {}
  <2>1. PICK n \in 1..MaxDequeueCount : created[<<m, n>>] = "created"
    BY <1>1 DEF PInv, CompletedIsConfirmed
  <2>2. <<m, n>> \in CreationCalls /\ <<m, n>>[1] = m
    BY <1>1, <2>1 DEF CreationCalls
  <2> QED
    BY <1>1, <2>1, <2>2 DEF PInv, ConfirmedIsShown
<1>2. PInv => CompletedIsInGift
  BY <1>1 DEF CompletedIsInGift
<1> QED
  BY PipelineInductive, <1>2, PTL

\* And it keeps every amendment of such a facility.
THEOREM AmendmentsStay == PipelineSpec => AmendmentsAreKept
<1>1. PInv /\ [PipelineNext]_pipelineVars =>
        [\A m \in completed \cap Creations :
            kept[FacilityOf[m]] \subseteq kept'[FacilityOf[m]]]_pipelineVars
  <2>1. ASSUME PInv, NEW c \in Calls, PostFacility(c)
        PROVE  \A m \in completed \cap Creations :
                  kept[FacilityOf[m]] \subseteq kept'[FacilityOf[m]]
    BY <2>1, PostFacilityStep DEF PostFacility
  <2>2. ASSUME PInv, NEW c \in Calls, PostAmendment(c)
        PROVE  \A m \in completed \cap Creations :
                  kept[FacilityOf[m]] \subseteq kept'[FacilityOf[m]]
    BY <2>2, PostAmendmentStep, PipelineAssumption DEF PostAmendment, Creations
  <2>3. ASSUME Deliver(Next)
        PROVE  UNCHANGED kept
    BY <2>3 DEF Deliver, service
  <2> QED
    BY <2>1, <2>2, <2>3 DEF PipelineNext
<1> QED
  BY PipelineInductive, <1>1, PTL DEF PipelineSpec, AmendmentsAreKept
=============================================================================
