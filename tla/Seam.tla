-------------------------------- MODULE Seam --------------------------------
(***************************************************************************)
(* The asynchronous seam: the API's booking component, the outbox relay    *)
(* and the payment worker joined by their queues.  A hold's event goes     *)
(* through the outbox to the charge queue, the worker's result comes back  *)
(* through the result queue to be settled, and refunds are asked for       *)
(* through the refund queue.                                               *)
(***************************************************************************)
EXTENDS Integers, FiniteSets

CONSTANTS
    Guests, Listings, Ids, Stays, Rates, HoldTtl, DayLength, NoRow,
    Clients,          \* HTTP requests under way
    Consumers,        \* result jobs under way
    ExpiryTimers, CompletionTimers, Relays, Workers,
    BatchSize, Attempts, MaxStalls, Nobody,
    MaxTime, MaxApiFaults, MaxAborts, MaxWorkerCrashes, MaxLostLocks, \* bounds
    NoResult          \* a consumer without a job

VARIABLES
    now, listing, reservation, outbox, results, refunds, announced, task, apiFaults,
    published, queued, added, relay, aborts,
    job, payment, charge, refund, taken, returned, deadLetters, work,
    workerCrashes, lostLocks,
    delivery,  \* the result queue: where each result's job is, and who holds its lock
    serving,   \* the result each consumer is settling
    resultLocksLost

bookingVars == <<now, listing, reservation, outbox, results, refunds, announced, task, apiFaults>>
relayVars == <<published, queued, added, relay, aborts>>
workerVars == <<job, payment, charge, refund, taken, returned, deadLetters, work,
                workerCrashes, lostLocks>>
queueVars == <<delivery, serving, resultLocksLost>>
vars == <<bookingVars, relayVars, workerVars, queueVars>>

B == INSTANCE Booking WITH Requests <- Clients \cup Consumers, MaxCrashes <- MaxApiFaults,
                           crashes <- apiFaults
R == INSTANCE Relay
P == INSTANCE Payment WITH MaxCrashes <- MaxWorkerCrashes, crashes <- workerCrashes

\* What the modules assume of their constants.
ASSUME ApiAssumption ==
    /\ B!ProcsAssumption /\ B!BoundsAssumption /\ B!StaysAssumption /\ B!RatesAssumption
    /\ B!NoRowAssumption /\ B!NoClaimAssumption
ASSUME RelayAssumption == R!IdsAssumption /\ R!BatchAssumption
ASSUME WorkerAssumption == P!AttemptsAssumption /\ P!FaultsAssumption /\ P!NobodyAssumption
ASSUME ConsumersAssumption == Clients \cap Consumers = {} /\ Nobody \notin Consumers
ASSUME NoResultAssumption == NoResult \notin B!Result

DeliveryState == [state : {"waiting", "active", "completed", "failed"}, stalls : 0 .. MaxStalls + 1,
                  owner : Consumers \cup {Nobody}]

TypeOK ==
    /\ delivery \in [B!Result -> DeliveryState]
    /\ serving \in [Consumers -> B!Result \cup {NoResult}]
    /\ resultLocksLost \in 0 .. MaxLostLocks
    /\ \A m \in B!Result : /\ delivery[m].state # "waiting" => m \in results
                           /\ delivery[m].owner # Nobody <=> delivery[m].state = "active"
    /\ \A c \in Consumers : serving[c] # NoResult => serving[c] \in results

Init ==
    /\ B!Init /\ R!Init /\ P!Init
    /\ delivery = [m \in B!Result |-> [state |-> "waiting", stalls |-> 0, owner |-> Nobody]]
    /\ serving = [c \in Consumers |-> NoResult]
    /\ resultLocksLost = 0

-----------------------------------------------------------------------------
\* The API.

\* A step that touches nothing but the API's own tables.
Alone(step) == step /\ UNCHANGED <<relayVars, workerVars, queueVars>>

\* Slip: the reservation is released for good, but the job is never added.
RequestRefundInVain(p) ==
    /\ B!CancelRefund(p) \/ B!SettleRefund(p)
    /\ UNCHANGED <<relayVars, workerVars, queueVars>>

\* Both ways to ask for a refund add the same job.
RequestRefund(p) ==
    /\ B!CancelRefund(p) \/ B!SettleRefund(p)
    /\ P!AddJobs("refund", {task[p].id}, {})
    /\ UNCHANGED <<relayVars, queueVars>>

\* What a request does once it has begun.
ClientProceeds(p) ==
    \/ \E r \in Ids : Alone(B!ClaimCommits(p, r))
    \/ Alone(B!ClaimRejected(p)) \/ Alone(B!CancelUpdate(p)) \/ Alone(B!Announce(p))
    \/ RequestRefund(p)

\* Claims that deadlock with each other stay inside module Booking, and are left to it.
Client(p) ==
    \/ \E g \in Guests, l \in Listings, s \in Stays : Alone(B!HoldRead(p, g, l, s))
    \/ \E g \in Guests, r \in Ids : Alone(B!CancelRead(p, g, r))
    \/ ClientProceeds(p)

-----------------------------------------------------------------------------
\* The relay's passes; a row that is published is a charge job.

\* Slips: an event is skipped when its hold has ended meanwhile; one that is published again
\* is a new job.
ChargeAddedIfHeld(p) ==
    job' = [job EXCEPT !["charge"] =
              [r \in Ids |-> IF r \in relay[p].rows /\ job["charge"][r].state = "none"
                                /\ B!Has(r, "HELD")
                             THEN [P!NoJob EXCEPT !.state = "waiting"]
                             ELSE job["charge"][r]]]
ChargeAddedAnew(p) ==
    job' = [job EXCEPT !["charge"] =
              [r \in Ids |-> IF r \in relay[p].rows
                             THEN [P!NoJob EXCEPT !.state = "waiting"]
                             ELSE job["charge"][r]]]

\* The amount is the price the hold fixed; a job that is already there is left alone.
ChargeAdded(p) ==
    job' = P!WithJobs("charge", relay[p].rows,
                      {r \in relay[p].rows : reservation[r].priceTotalCents = 0})

RelayPublishes(p) ==
    /\ ChargeAdded(p)
    /\ R!Publish(p) \/ R!PublishLate(p)
    /\ UNCHANGED <<now, listing, reservation, results, refunds, announced, task, apiFaults,
                   payment, charge, refund, taken, returned, deadLetters, work,
                   workerCrashes, lostLocks, queueVars>>

RelayOther(p) ==
    /\ R!ClaimBatch(p) \/ R!Mark(p) \/ R!Abort(p)
    /\ UNCHANGED <<now, listing, reservation, results, refunds, announced, task, apiFaults,
                   workerVars, queueVars>>

-----------------------------------------------------------------------------
\* The worker; the results it adds are jobs of the result queue.
Apart(step) ==
    /\ step
    /\ UNCHANGED <<now, listing, reservation, outbox, refunds, announced, task, apiFaults,
                   relayVars, queueVars>>

Worker(w) == Apart(P!Deliver(w)) \/ Apart(P!Proceed(w)) \/ Apart(P!Throws(w)) \/ Apart(P!Crash(w))

-----------------------------------------------------------------------------
\* The result queue.

\* Slip: the type of the result is not looked at.
SettleAnyAsSuccess(c, m) ==
    /\ m \in results
    /\ serving[c] = NoResult
    /\ delivery[m].state = "waiting"
    /\ B!ApplyPaymentSucceeded(c, m.id)
    /\ delivery' = [delivery EXCEPT ![m].state = "active", ![m].owner = c]
    /\ serving' = [serving EXCEPT ![c] = m]
    /\ UNCHANGED <<relayVars, workerVars, resultLocksLost>>

\* A job is taken, parsed and applied according to its type.
Settle(c, m) ==
    /\ m \in results
    /\ serving[c] = NoResult
    /\ delivery[m].state = "waiting"
    /\ \/ m.type = "PaymentSucceeded" /\ B!ApplyPaymentSucceeded(c, m.id)
       \/ m.type = "PaymentFailed" /\ B!ApplyPaymentFailed(c, m.id)
    /\ delivery' = [delivery EXCEPT ![m].state = "active", ![m].owner = c]
    /\ serving' = [serving EXCEPT ![c] = m]
    /\ UNCHANGED <<relayVars, workerVars, resultLocksLost>>

Holds(c) == delivery[serving[c]].owner = c

\* A consumer that lost the lock cannot finish the job.
Ends(c, state) ==
    /\ delivery' = IF Holds(c)
                     THEN [delivery EXCEPT ![serving[c]].state = state, ![serving[c]].owner = Nobody]
                     ELSE delivery
    /\ serving' = [serving EXCEPT ![c] = NoResult]
    /\ UNCHANGED resultLocksLost

\* The handler returned.
SettleDone(c) ==
    /\ serving[c] # NoResult
    /\ task[c] = B!Idle
    /\ Ends(c, "completed")
    /\ UNCHANGED <<bookingVars, relayVars, workerVars>>

\* A call of the handler fails.  The result queue sets no attempts: the job has had its one.
FirstCallFails(m) ==
    /\ m \in results
    /\ delivery[m].state = "waiting"
    /\ apiFaults < MaxApiFaults
    /\ delivery' = [delivery EXCEPT ![m].state = "failed"]
    /\ UNCHANGED <<bookingVars, relayVars, workerVars, serving, resultLocksLost>>

SettleThrows(c) ==
    /\ serving[c] # NoResult
    /\ B!Crash(c)
    /\ Ends(c, "failed")
    /\ UNCHANGED <<relayVars, workerVars>>

\* The instance dies: the job is still active, and found stalled later.
SettleCrashes(c) ==
    /\ serving[c] # NoResult
    /\ B!Crash(c)
    /\ serving' = [serving EXCEPT ![c] = NoResult]
    /\ UNCHANGED <<delivery, relayVars, workerVars, resultLocksLost>>

\* The lock ran out: the result is delivered again, but only so often.
ReleaseResult(m) ==
    /\ delivery[m].state = "active"
    /\ delivery' = [delivery EXCEPT ![m] =
            [state |-> IF @.stalls < MaxStalls THEN "waiting" ELSE "failed", stalls |-> @.stalls + 1,
             owner |-> Nobody]]
    /\ UNCHANGED <<bookingVars, relayVars, workerVars, serving>>

\* Its consumer is dead.
ResultStalled(m) ==
    /\ ReleaseResult(m)
    /\ serving[delivery[m].owner] # m
    /\ UNCHANGED resultLocksLost

\* Its consumer is alive but did not renew the lock in time, and carries on.
LoseResultLock(m) ==
    /\ resultLocksLost < MaxLostLocks
    /\ ReleaseResult(m)
    /\ serving[delivery[m].owner] = m
    /\ resultLocksLost' = resultLocksLost + 1

-----------------------------------------------------------------------------
\* The rest of a settlement, up to the end of the job.
ConsumerProceeds(c) ==
    Alone(B!SettleReadBack(c)) \/ RequestRefund(c) \/ Alone(B!Announce(c)) \/ SettleDone(c)

Next ==
    \/ Alone(B!Tick)
    \/ \E l \in Listings : Alone(B!UpdateListing(l)) \/ Alone(B!RemoveListing(l))
    \/ \E p \in Clients : Client(p)
    \/ \E p \in ExpiryTimers : Alone(B!ExpirySweep(p))
    \/ \E p \in CompletionTimers : Alone(B!CompletionSweep(p))
    \/ \E p \in Clients \cup ExpiryTimers \cup CompletionTimers : Alone(B!Crash(p))
    \/ \E p \in Relays : RelayPublishes(p) \/ RelayOther(p)
    \/ \E w \in Workers : Worker(w)
    \/ \E q \in P!Queues, r \in Ids : Apart(P!Stalled(q, r)) \/ Apart(P!LoseLock(q, r))
    \/ \E c \in Consumers, m \in B!Result : Settle(c, m)
    \/ \E c \in Consumers : ConsumerProceeds(c) \/ SettleThrows(c) \/ SettleCrashes(c)
    \/ \E m \in B!Result : FirstCallFails(m) \/ ResultStalled(m) \/ LoseResultLock(m)

Spec == Init /\ [][Next]_vars

\* The clock runs, timers tick, queues deliver, and handlers that began go on.
Fairness ==
    /\ WF_vars(Alone(B!Tick))
    /\ \A p \in Clients : WF_vars(ClientProceeds(p))
    /\ \A p \in ExpiryTimers : WF_vars(Alone(B!ExpirySweep(p)))
    /\ \A p \in CompletionTimers : WF_vars(Alone(B!CompletionSweep(p)))
    /\ \A p \in Relays : WF_vars(RelayPublishes(p) \/ RelayOther(p))
    /\ \A w \in Workers : WF_vars(Apart(P!Deliver(w))) /\ WF_vars(Apart(P!Proceed(w)))
    /\ \A q \in P!Queues, r \in Ids : WF_vars(Apart(P!Stalled(q, r)))
    /\ \A c \in Consumers : /\ WF_vars(\E m \in B!Result : Settle(c, m))
                            /\ WF_vars(ConsumerProceeds(c))
    /\ \A m \in B!Result : WF_vars(ResultStalled(m))

FairSpec == Spec /\ Fairness

-----------------------------------------------------------------------------
(* Properties.                                                             *)

\* The relay, the worker and the queues are no more than what module Booking assumes of its
\* environment, so everything shown and proved there holds of the whole system.  The API is no
\* more than what module Relay assumes: it writes the event of a booking once; and no more than
\* what module Payment assumes: it asks for a refund only of a booking it was told is charged,
\* and a charge that is published again finds the job that is there.
ModulesAssumeRight == B!Spec /\ R!Spec /\ P!SpecLosingLocks

\* A confirmed booking is one whose money was taken and stays taken, across the API's table,
\* the worker's and the provider's ledger, whatever fails; it was taken once, unless a lost job
\* lock put two workers on one charge.
ConfirmedMoneyStays ==
    \A r \in Ids : B!Has(r, "CONFIRMED") =>
        /\ taken[r] > 0 /\ returned[r] = 0
        /\ lostLocks = 0 => taken[r] = 1

\* Even with two workers on one job: a success is reported, and money given back, only for a
\* booking whose money was taken, so the API confirms nothing that was not charged.
SuccessesWereTaken == P!SuccessesWereTaken

\* Money that arrives after the hold expired is given back, as long as no call of the API
\* fails and the refund itself does not (async-seam.md:156-157).
LateChargesAreReturned ==
    \A r \in Ids : B!Has(r, "EXPIRED") /\ B!Charged(r)
                      ~> returned[r] = 1 \/ job["refund"][r].state = "failed"

\* Every booking whose TTL ends within the modelled time is decided: it does not stay HELD, and
\* its charge ends with a result or as failed, whatever the worker went through.
BookingsAreDecided ==
    \A r \in Ids :
        B!Has(r, "HELD") /\ reservation[r].holdExpiresAt < MaxTime
            ~> ~B!Has(r, "HELD") /\ job["charge"][r].state \in {"completed", "failed"}

-----------------------------------------------------------------------------
(* A statement of the documents that the code does not keep.               *)

\* async-seam.md:155: "Guest cancels a paid booking -> the reservation is released and a
\* refund is requested".  cancel decides by the status it read; a payment settled before its
\* update is overwritten and never refunded.
CancelledIsRefunded ==
    \A r \in Ids : B!Has(r, "CANCELLED") /\ B!Charged(r) ~> r \in refunds
=============================================================================
