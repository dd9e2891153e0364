----------------------------- MODULE SeamProofs -----------------------------
(***************************************************************************)
(* The API, the relay and the worker, each proved correct on its own under *)
(* assumptions on its environment, keep those assumptions for each other:  *)
(* what is proved of the three modules holds of the whole system.          *)
(***************************************************************************)
EXTENDS Seam, TLAPS

\* The three modules, with what is proved of them.
BP == INSTANCE BookingProofs WITH Requests <- Clients \cup Consumers, MaxCrashes <- MaxApiFaults,
                                  crashes <- apiFaults
RP == INSTANCE RelayProofs
PP == INSTANCE PaymentProofs WITH MaxCrashes <- MaxWorkerCrashes, crashes <- workerCrashes

-----------------------------------------------------------------------------
(* The inductive invariant.                                                *)

\* What entitles the system to a job of either queue.
Asked(q) == IF q = "charge" THEN outbox ELSE refunds

\* A charge is queued for a committed event only, a refund for a request only.
JobsAsked == \A q \in P!Queues, r \in Ids : job[q][r].state # "none" => r \in Asked(q)

SeamInv ==
    /\ BP!TypeInv /\ BP!MoneyInv
    /\ RP!TypeOK /\ RP!RowsInv
    /\ PP!LosingInv
    /\ JobsAsked

-----------------------------------------------------------------------------
(* A module is the same where it is instantiated with its proofs.          *)

LEMMA SameApi == B!vars = BP!vars /\ (B!Init <=> BP!Init) /\ (B!Next <=> BP!Next)
<1>1. B!vars = BP!vars
  BY DEF B!vars, BP!vars
<1>2. B!Init <=> BP!Init
  BY DEF B!Init, BP!Init, B!Procs, BP!Procs, B!Idle, BP!Idle
<1>3. B!Next <=> BP!Next
  BY DEF B!Next, BP!Next, B!Tick, BP!Tick, B!UpdateListing, BP!UpdateListing, B!RemoveListing,
         BP!RemoveListing, B!ResultArrives, BP!ResultArrives, B!Hold, BP!Hold, B!HoldRead,
         BP!HoldRead, B!ClaimCommits, BP!ClaimCommits, B!ClaimRejected, BP!ClaimRejected,
         B!ClaimDeadlocks, BP!ClaimDeadlocks, B!Cancel, BP!Cancel, B!CancelRead, BP!CancelRead,
         B!CancelUpdate, BP!CancelUpdate, B!CancelRefund, BP!CancelRefund, B!Settle, BP!Settle,
         B!ApplyPaymentSucceeded, BP!ApplyPaymentSucceeded, B!ApplyPaymentFailed,
         BP!ApplyPaymentFailed, B!SettleUpdate, BP!SettleUpdate, B!SettleReadBack,
         BP!SettleReadBack, B!SettleRefund, BP!SettleRefund, B!Announce, BP!Announce, B!Crash,
         BP!Crash, B!ExpirySweep, BP!ExpirySweep, B!CompletionSweep, BP!CompletionSweep,
         B!ExpiryRead, BP!ExpiryRead, B!ExpiryUpdate, BP!ExpiryUpdate, B!CompletionRead,
         BP!CompletionRead, B!CompletionUpdate, BP!CompletionUpdate, B!SweepUpdate,
         BP!SweepUpdate, B!Become, BP!Become, B!Idle, BP!Idle, B!Claiming, BP!Claiming, B!Racing,
         BP!Racing, B!Overlap, BP!Overlap, B!Conflicts, BP!Conflicts, B!Live, BP!Live, B!Has,
         BP!Has, B!Booked, BP!Booked, B!StaleHolds, BP!StaleHolds, B!FinishedStays,
         BP!FinishedStays, B!WithStatus, BP!WithStatus, B!AllowedTransitions,
         BP!AllowedTransitions, B!Nights, BP!Nights, B!Procs, BP!Procs, B!Listing, BP!Listing,
         B!Status, BP!Status, B!ResultType, BP!ResultType
<1>4. QED
  BY <1>1, <1>2, <1>3

LEMMA ApiAssumed ==
    /\ BP!ProcsAssumption /\ BP!BoundsAssumption /\ BP!StaysAssumption /\ BP!RatesAssumption
    /\ BP!NoRowAssumption /\ BP!NoClaimAssumption
BY ApiAssumption
   DEF B!Reservation, BP!Reservation, B!Listing, BP!Listing, B!Status, BP!Status

LEMMA SameRelay == R!vars = RP!vars /\ (R!Init <=> RP!Init) /\ (R!Next <=> RP!Next)
<1>1. R!vars = RP!vars
  BY DEF R!vars, RP!vars
<1>2. R!Init <=> RP!Init
  BY DEF R!Init, RP!Init, R!Idle, RP!Idle
<1>3. R!Next <=> RP!Next
  BY DEF R!Next, RP!Next, R!EventWritten, RP!EventWritten, R!Tick, RP!Tick, R!ClaimBatch,
         RP!ClaimBatch, R!Publish, RP!Publish, R!Mark, RP!Mark, R!PublishLate, RP!PublishLate,
         R!Abort, RP!Abort, R!Go, RP!Go, R!AddRows, RP!AddRows, R!Open, RP!Open, R!Batch,
         RP!Batch, R!Oldest, RP!Oldest, R!Locked, RP!Locked, R!Idle, RP!Idle, R!Cardinality,
         RP!Cardinality
<1>4. QED
  BY <1>1, <1>2, <1>3

\* What the workers and the queue library do.
WorkerActs ==
    \/ \E w \in Workers : P!Deliver(w) \/ P!Proceed(w) \/ P!Throws(w) \/ P!Crash(w)
    \/ \E q \in P!Queues, r \in Ids : P!Stalled(q, r) \/ P!LoseLock(q, r)

LEMMA SameWorker ==
    /\ P!vars = PP!vars /\ (P!Init <=> PP!Init)
    /\ P!Next \/ P!LosesLocks <=> PP!NextLosing
    /\ WorkerActs =>
         \/ \E w \in Workers : PP!Deliver(w) \/ PP!Proceed(w) \/ PP!Throws(w) \/ PP!Crash(w)
         \/ \E q \in PP!Queues, r \in Ids : PP!Stalled(q, r) \/ PP!LoseLock(q, r)
<1> USE DEF P!Deliver, PP!Deliver, P!TakeJob, PP!TakeJob, P!Start, PP!Start, P!Proceed, PP!Proceed,
            P!Throws, PP!Throws, P!Crash, PP!Crash, P!FindPayment, PP!FindPayment, P!ClaimPayment,
            PP!ClaimPayment, P!AskProvider, PP!AskProvider, P!ProviderDecides,
            PP!ProviderDecides, P!RecordOutcome, PP!RecordOutcome, P!SendResult, PP!SendResult,
            P!Bury, PP!Bury, P!FindPaid, PP!FindPaid, P!AskBack, PP!AskBack, P!PayBack,
            PP!PayBack, P!RecordBack, PP!RecordBack, P!Finish, PP!Finish, P!Fail, PP!Fail,
            P!FailWith, PP!FailWith, P!Made, PP!Made, P!Allowed, PP!Allowed, P!Leave, PP!Leave,
            P!Holds, PP!Holds, P!Become, PP!Become, P!Idle, PP!Idle, P!ToCharge, PP!ToCharge,
            P!ToSend, PP!ToSend, P!TypeOf, PP!TypeOf, P!ToRecord, PP!ToRecord, P!ToRefund,
            PP!ToRefund, P!Outcome, PP!Outcome, P!Queues, PP!Queues, P!money, PP!money, P!faults,
            PP!faults, P!Stalled, PP!Stalled, P!LoseLock, PP!LoseLock, P!Release, PP!Release,
            P!WorksOn, PP!WorksOn
<1>1. P!vars = PP!vars
  BY DEF P!vars, PP!vars
<1>2. P!Init <=> PP!Init
  BY DEF P!Init, PP!Init, P!NoJob, PP!NoJob
<1>3. WorkerActs =>
         \/ \E w \in Workers : PP!Deliver(w) \/ PP!Proceed(w) \/ PP!Throws(w) \/ PP!Crash(w)
         \/ \E q \in PP!Queues, r \in Ids : PP!Stalled(q, r) \/ PP!LoseLock(q, r)
  BY DEF WorkerActs
<1>4. P!Next \/ P!LosesLocks <=> PP!NextLosing
  BY DEF P!Next, PP!Next, P!LosesLocks, PP!LosesLocks, PP!NextLosing, P!ChargesQueued,
         PP!ChargesQueued, P!RefundQueued, PP!RefundQueued, P!AddJobs, PP!AddJobs, P!WithJobs,
         PP!WithJobs, P!NewJob, PP!NewJob, P!Told, PP!Told
<1>5. QED
  BY <1>1, <1>2, <1>3, <1>4

-----------------------------------------------------------------------------
(* The kinds of steps.                                                     *)

\* The API does something of its own.
ApiOnly == B!Next /\ UNCHANGED <<results, refunds, relayVars, workerVars>>

\* It adds, or has added before, the job of a refund.
AsksRefund(p) ==
    /\ B!CancelRefund(p) \/ B!SettleRefund(p)
    /\ P!AddJobs("refund", {task[p].id}, {})
    /\ UNCHANGED relayVars

\* Only the result queue, which belongs to no module, changes.
QueueOnly == UNCHANGED <<bookingVars, relayVars, workerVars>>

LEMMA StepKinds ==
    ASSUME [Next]_vars
    PROVE  \/ ApiOnly
           \/ \E p \in Clients \cup Consumers : AsksRefund(p)
           \/ \E p \in Relays : RelayPublishes(p) \/ RelayOther(p)
           \/ Apart(WorkerActs)
           \/ QueueOnly
<1> DEFINE Req == Clients \cup Consumers
<1>1. ASSUME Alone(B!Tick) \/ \E l \in Listings : Alone(B!UpdateListing(l)) \/ Alone(B!RemoveListing(l))
      PROVE  ApiOnly
  BY <1>1 DEF ApiOnly, Alone, B!Next, B!Tick, B!UpdateListing, B!RemoveListing
<1>2. ASSUME NEW p \in Req,
             \/ \E g \in Guests, l \in Listings, t \in Stays : Alone(B!HoldRead(p, g, l, t))
             \/ \E r \in Ids : Alone(B!ClaimCommits(p, r))
             \/ Alone(B!ClaimRejected(p))
             \/ \E g \in Guests, r \in Ids : Alone(B!CancelRead(p, g, r))
             \/ Alone(B!CancelUpdate(p))
             \/ Alone(B!SettleReadBack(p)) \/ Alone(B!Announce(p))
      PROVE  ApiOnly
  <2>1. B!Next
    BY <1>2 DEF Alone, B!Next, B!Hold, B!Cancel
  <2>2. QED
    BY <1>2, <2>1 DEF ApiOnly, Alone, B!HoldRead, B!ClaimCommits, B!ClaimRejected, B!CancelRead,
                      B!CancelUpdate, B!SettleReadBack, B!Announce
<1>3. ASSUME \/ \E p \in ExpiryTimers : Alone(B!ExpirySweep(p))
             \/ \E p \in CompletionTimers : Alone(B!CompletionSweep(p))
      PROVE  ApiOnly
  BY <1>3 DEF ApiOnly, Alone, B!Next, B!ExpirySweep, B!CompletionSweep, B!ExpiryRead,
              B!CompletionRead, B!ExpiryUpdate, B!CompletionUpdate, B!SweepUpdate, B!Announce
<1>4. ASSUME NEW p \in Req \cup ExpiryTimers \cup CompletionTimers, B!Crash(p),
             UNCHANGED <<relayVars, workerVars>>
      PROVE  ApiOnly
  BY <1>4 DEF ApiOnly, B!Next, B!Procs, B!Crash
<1>5. ASSUME NEW c \in Consumers, NEW m \in B!Result, Settle(c, m)
      PROVE  ApiOnly
  <2>1. B!Settle(c)
    BY <1>5 DEF Settle, B!Settle
  <2>2. UNCHANGED <<results, refunds, relayVars, workerVars>>
    BY <1>5 DEF Settle, B!ApplyPaymentSucceeded, B!ApplyPaymentFailed, B!SettleUpdate
  <2>3. QED
    BY <2>1, <2>2 DEF ApiOnly, B!Next
<1>6. ASSUME NEW p, RequestRefund(p) PROVE AsksRefund(p)
  BY <1>6 DEF RequestRefund, AsksRefund
<1>7. ASSUME NEW p \in Clients, Client(p)
      PROVE  ApiOnly \/ AsksRefund(p)
  BY <1>2, <1>6, <1>7 DEF Client, ClientProceeds
<1>8. ASSUME NEW c \in Consumers, SettleDone(c) PROVE QueueOnly
  BY <1>8 DEF SettleDone, QueueOnly
<1>9. ASSUME NEW c \in Consumers, ConsumerProceeds(c)
      PROVE  ApiOnly \/ AsksRefund(c) \/ QueueOnly
  BY <1>2, <1>6, <1>8, <1>9 DEF ConsumerProceeds
<1>10. ASSUME NEW c \in Consumers, SettleThrows(c) \/ SettleCrashes(c) PROVE ApiOnly
  BY <1>4, <1>10 DEF SettleThrows, SettleCrashes
<1>11. ASSUME NEW m \in B!Result, FirstCallFails(m) \/ ResultStalled(m) \/ LoseResultLock(m)
       PROVE  QueueOnly
  BY <1>11 DEF FirstCallFails, ResultStalled, LoseResultLock, ReleaseResult, QueueOnly
<1>12. ASSUME \/ \E w \in Workers : Worker(w)
              \/ \E q \in P!Queues, r \in Ids : Apart(P!Stalled(q, r)) \/ Apart(P!LoseLock(q, r))
       PROVE  Apart(WorkerActs)
  BY <1>12 DEF Worker, Apart, WorkerActs
<1>13. CASE UNCHANGED vars
  BY <1>13 DEF vars, QueueOnly
<1>14. ASSUME NEW p \in Clients \cup ExpiryTimers \cup CompletionTimers, Alone(B!Crash(p))
       PROVE  ApiOnly
  BY <1>4, <1>14 DEF Alone
<1>15. QED
  BY <1>1, <1>3, <1>5, <1>7, <1>9, <1>10, <1>11, <1>12, <1>13, <1>14 DEF Next

-----------------------------------------------------------------------------
(* Each module is an environment the others assume.                        *)

\* The rows of a pass are bookings, committed ones.
LEMMA PassRows ==
    ASSUME SeamInv, NEW p \in Relays
    PROVE  relay[p].rows \subseteq outbox /\ outbox \subseteq Ids
BY DEF SeamInv, RP!RowsInv, RP!TypeOK

\* The relay publishes: to the worker, charges are queued.
LEMMA PublishQueues ==
    ASSUME SeamInv, NEW p \in Relays, RelayPublishes(p)
    PROVE  \E rows \in SUBSET outbox : \E free \in SUBSET rows :
              rows \in SUBSET Ids /\ P!ChargesQueued(rows, free)
<1> DEFINE rows == relay[p].rows
           free == {r \in rows : reservation[r].priceTotalCents = 0}
<1>1. rows \in SUBSET outbox /\ rows \in SUBSET Ids /\ free \in SUBSET rows
  BY PassRows
<1>2. P!ChargesQueued(rows, free)
  BY DEF RelayPublishes, ChargeAdded, P!ChargesQueued, P!AddJobs, P!money, P!faults
<1>3. QED
  BY <1>1, <1>2

\* A refund is asked for only of a booking that was charged.
LEMMA RefundIsTold ==
    ASSUME SeamInv, NEW p \in Clients \cup Consumers, AsksRefund(p)
    PROVE  task[p].id \in Ids /\ refunds' = refunds \cup {task[p].id} /\ P!RefundQueued(task[p].id)
<1>1. task[p].at \in {"cancelRefund", "settleRefund"} /\ refunds' = refunds \cup {task[p].id}
  BY DEF AsksRefund, B!CancelRefund, B!SettleRefund
<1>2. task[p] \in BP!Task /\ BP!TaskFacts(task[p])
  BY DEF SeamInv, BP!TypeInv, BP!TypeOK, BP!MoneyInv, BP!TasksHonest, BP!Procs
<1>3. BP!Charged(task[p].id) /\ task[p].id \in Ids
  BY <1>1, <1>2 DEF BP!TaskFacts, BP!Has, BP!Booked
<1>4. P!RefundQueued(task[p].id)
  BY <1>3 DEF AsksRefund, P!RefundQueued, P!Told, BP!Charged
<1>5. QED
  BY <1>1, <1>3, <1>4

\* The steps of the rest are steps of the worker's environment.
LEMMA WorkerStep ==
    ASSUME SeamInv, [Next]_vars
    PROVE  [P!Next \/ P!LosesLocks]_(P!vars)
<1>1. CASE ApiOnly \/ QueueOnly
  BY <1>1 DEF ApiOnly, QueueOnly, workerVars, bookingVars, P!vars
<1>2. CASE \E p \in Clients \cup Consumers : AsksRefund(p)
  BY <1>2, RefundIsTold DEF P!Next
<1>3. ASSUME NEW p \in Relays, RelayPublishes(p) PROVE P!Next
  BY <1>3, PublishQueues DEF P!Next
<1>4. CASE \E p \in Relays : RelayOther(p)
  BY <1>4 DEF RelayOther, workerVars, P!vars
<1>5. CASE Apart(WorkerActs)
  BY <1>5 DEF Apart, WorkerActs, P!Next, P!LosesLocks
<1>6. QED
  BY <1>1, <1>2, <1>3, <1>4, <1>5, StepKinds

\* The worker reports on committed bookings only; to the API the rest does nothing else.
LEMMA ApiStep ==
    ASSUME SeamInv, [Next]_vars
    PROVE  [B!Next]_(B!vars)
<1>1. CASE ApiOnly
  BY <1>1 DEF ApiOnly
<1>2. CASE \E p \in Clients \cup Consumers : AsksRefund(p)
  BY <1>2 DEF AsksRefund, B!Next, B!Cancel
<1>3. CASE \E p \in Relays : RelayPublishes(p) \/ RelayOther(p)
  BY <1>3 DEF RelayPublishes, RelayOther, R!Publish, R!PublishLate, R!ClaimBatch, R!Mark, R!Abort,
              workerVars, B!vars
<1>4. CASE Apart(WorkerActs)
  <2>1. [PP!NextLosing]_(PP!vars)
    BY WorkerStep, SameWorker DEF P!vars, PP!vars
  <2>2. \/ results' = results
        \/ \E r \in Ids, type \in PP!ResultType :
              /\ job["charge"][r].state # "none"
              /\ results' = results \cup {[id |-> r, type |-> type]}
    BY <2>1, WorkerAssumption, PP!ResultsComeFromCharges DEF SeamInv, PP!LosingInv
  <2>3. CASE results' = results
    BY <1>4, <2>3 DEF Apart, B!vars
  <2>4. ASSUME NEW r \in Ids, NEW type \in PP!ResultType, job["charge"][r].state # "none",
               results' = results \cup {[id |-> r, type |-> type]}
        PROVE  B!Next
    <3>1. r \in outbox
      BY <2>4 DEF SeamInv, JobsAsked, Asked, P!Queues
    <3>2. B!ResultArrives(r, type)
      BY <1>4, <2>4, <3>1 DEF Apart, B!ResultArrives
    <3>3. QED
      BY <3>2 DEF B!Next, B!ResultType, PP!ResultType
  <2>5. QED
    BY <2>2, <2>3, <2>4
<1>5. CASE QueueOnly
  BY <1>5 DEF QueueOnly, bookingVars, B!vars
<1>6. QED
  BY <1>1, <1>2, <1>3, <1>4, <1>5, StepKinds

\* The API commits an event once, with its booking.
LEMMA RelayStep ==
    ASSUME SeamInv, [Next]_vars
    PROVE  [R!Next]_(R!vars)
<1>1. [BP!Next]_(BP!vars)
  BY ApiStep, SameApi DEF B!vars, BP!vars
<1>2. CASE UNCHANGED relayVars
  <2>1. outbox' = outbox \/ \E p \in BP!Procs, r \in Ids : BP!ClaimCommits(p, r)
    BY <1>1, ApiAssumed, BP!Footprint DEF SeamInv
  <2>2. CASE outbox' = outbox
    BY <1>2, <2>2 DEF relayVars, R!vars
  <2>3. ASSUME NEW p \in BP!Procs, NEW r \in Ids, BP!ClaimCommits(p, r)
        PROVE  R!EventWritten(r)
    <3>1. r \notin outbox
      BY <2>3 DEF SeamInv, BP!MoneyInv, BP!EventsKnown, BP!Booked, BP!ClaimCommits
    <3>2. QED
      BY <1>2, <2>3, <3>1 DEF BP!ClaimCommits, R!EventWritten, relayVars
  <2>4. QED
    BY <2>1, <2>2, <2>3 DEF R!Next
<1>3. CASE \E p \in Relays : RelayPublishes(p) \/ RelayOther(p)
  BY <1>3 DEF RelayPublishes, RelayOther, R!Next, R!Tick
<1>4. QED
  BY <1>2, <1>3, StepKinds DEF ApiOnly, AsksRefund, Apart, QueueOnly

-----------------------------------------------------------------------------
(* The invariant.                                                          *)

LEMMA AskedStep == ASSUME SeamInv, [Next]_vars PROVE JobsAsked'
<1>1. outbox \subseteq outbox' /\ refunds \subseteq refunds'
  <2>1. [BP!Next]_(BP!vars)
    BY ApiStep, SameApi DEF B!vars, BP!vars
  <2>2. /\ outbox' = outbox \/ \E p \in BP!Procs, r \in Ids : BP!ClaimCommits(p, r)
        /\ refunds' = refunds \/ \E p \in BP!Procs : BP!CancelRefund(p) \/ BP!SettleRefund(p)
    BY <2>1, ApiAssumed, BP!Footprint DEF SeamInv
  <2>3. QED
    BY <2>2 DEF BP!ClaimCommits, BP!CancelRefund, BP!SettleRefund
<1>2. PP!TypeInv
  BY DEF SeamInv, PP!LosingInv
<1>3. CASE \A q \in P!Queues, r \in Ids : job[q][r].state = "none" => job'[q][r].state = "none"
  BY <1>1, <1>3 DEF SeamInv, JobsAsked, Asked
<1>4. ASSUME NEW q \in P!Queues, NEW rows \in SUBSET Ids, NEW free \in SUBSET Ids,
             P!AddJobs(q, rows, free), rows \subseteq Asked(q)'
      PROVE  JobsAsked'
  <2>1. PP!AddJobs(q, rows, free) /\ q \in PP!Queues
    BY <1>4 DEF P!AddJobs, PP!AddJobs, P!WithJobs, PP!WithJobs, P!NewJob, PP!NewJob, P!money,
                PP!money, P!faults, PP!faults, P!Queues, PP!Queues
  <2>2. \A t \in PP!Queues, s \in Ids :
           \/ job'[t][s] = job[t][s]
           \/ /\ t = q /\ s \in rows /\ job[t][s].state = "none"
              /\ job'[t][s].state = "waiting" /\ job'[t][s].owner = Nobody
    BY <1>2, <2>1, WorkerAssumption, PP!AddEffect
  <2>3. QED
    BY <1>1, <1>4, <2>2 DEF SeamInv, JobsAsked, Asked, P!Queues, PP!Queues
<1>5. CASE ApiOnly \/ QueueOnly \/ \E p \in Relays : RelayOther(p)
  BY <1>3, <1>5 DEF ApiOnly, QueueOnly, RelayOther, workerVars
<1>6. ASSUME NEW p \in Clients \cup Consumers, AsksRefund(p) PROVE JobsAsked'
  <2>1. task[p].id \in Ids /\ refunds' = refunds \cup {task[p].id}
    BY <1>6, RefundIsTold
  <2>2. P!AddJobs("refund", {task[p].id}, {}) /\ "refund" \in P!Queues
    BY <1>6 DEF AsksRefund, P!Queues
  <2>3. QED
    BY <1>4, <2>1, <2>2 DEF Asked
<1>7. ASSUME NEW p \in Relays, RelayPublishes(p) PROVE JobsAsked'
  <2>1. PICK rows \in SUBSET outbox, free \in SUBSET Ids :
           rows \in SUBSET Ids /\ P!ChargesQueued(rows, free)
    BY <1>7, PublishQueues
  <2>2. P!AddJobs("charge", rows, free) /\ "charge" \in P!Queues /\ rows \subseteq Asked("charge")'
    BY <1>1, <2>1 DEF P!ChargesQueued, P!Queues, Asked
  <2>3. QED
    BY <1>4, <2>1, <2>2
<1>8. CASE Apart(WorkerActs)
  <2>1. \A q \in PP!Queues, r \in Ids : job'[q][r].state = "none" <=> job[q][r].state = "none"
    BY <1>2, <1>8, SameWorker, WorkerAssumption, PP!JobsLast DEF Apart
  <2>2. QED
    BY <1>3, <2>1 DEF P!Queues, PP!Queues
<1>9. QED
  BY <1>5, <1>6, <1>7, <1>8, StepKinds

LEMMA SeamStep == SeamInv /\ [Next]_vars => SeamInv'
<1> SUFFICES ASSUME SeamInv, [Next]_vars PROVE SeamInv'
  OBVIOUS
<1>1. BP!TypeInv' /\ BP!MoneyInv'
  <2>1. [BP!Next]_(BP!vars)
    BY ApiStep, SameApi DEF B!vars, BP!vars
  <2>2. QED
    BY <2>1, ApiAssumed, BP!StepTyped, BP!MoneyStep DEF SeamInv
<1>2. RP!TypeOK' /\ RP!RowsInv'
  <2>1. [RP!Next]_(RP!vars)
    BY RelayStep, SameRelay DEF R!vars, RP!vars
  <2>2. QED
    BY <2>1, RelayAssumption, RP!TypesStep, RP!RowsStep DEF SeamInv
<1>3. PP!LosingInv'
  <2>1. [PP!NextLosing]_(PP!vars)
    BY WorkerStep, SameWorker DEF P!vars, PP!vars
  <2>2. QED
    BY <2>1, WorkerAssumption, PP!LosingStep DEF SeamInv
<1>4. QED
  BY <1>1, <1>2, <1>3, AskedStep DEF SeamInv

LEMMA SeamStart == Init => SeamInv
<1> SUFFICES ASSUME Init PROVE SeamInv
  OBVIOUS
<1>1. BP!TypeInv /\ BP!MoneyInv
  BY SameApi, ApiAssumed, BP!InitKnown, BP!InitMoney DEF Init
<1>2. RP!TypeOK /\ RP!RowsInv
  BY SameRelay, RelayAssumption, RP!InitHolds DEF Init, RP!RelayInv
<1>3. PP!LosingInv
  BY SameWorker, WorkerAssumption, PP!InitLosing DEF Init
<1>4. JobsAsked
  BY DEF Init, P!Init, P!NoJob, JobsAsked
<1>5. QED
  BY <1>1, <1>2, <1>3, <1>4 DEF SeamInv

LEMMA SeamKept == Spec => []SeamInv
  BY SeamStart, SeamStep, PTL DEF Spec

-----------------------------------------------------------------------------
(* The result queue, which belongs to no module.                           *)

\* A job that may be delivered, or is, has not stalled too often.
StallsLeft == \A m \in B!Result : delivery[m].state \in {"waiting", "active"} =>
                                    delivery[m].stalls <= MaxStalls

\* A consumer holds the lock of the job it has, unless a lock was lost.
OwnersSettle == resultLocksLost = 0 =>
    \A c \in Consumers : serving[c] # NoResult => Holds(c)

\* A handler is about the result of its job, and is under way only as long as it has one.
Settles(t, m) ==
    \/ t = B!Idle
    \/ m.type = "PaymentSucceeded" /\ t = [at |-> "readBack", id |-> m.id]
    \/ m.type = "PaymentSucceeded" /\ t = [at |-> "settleRefund", id |-> m.id]
    \/ t = [at |-> "announce", ids |-> {m.id},
            status |-> IF m.type = "PaymentSucceeded" THEN "CONFIRMED" ELSE "CANCELLED"]
HandlersSettle == \A c \in Consumers :
    IF serving[c] = NoResult THEN task[c] = B!Idle ELSE Settles(task[c], serving[c])

\* The booking is no hold any more, and money that came after it expired is asked back.
Decided(m) == /\ ~B!Has(m.id, "HELD")
              /\ m.type = "PaymentSucceeded" /\ B!Has(m.id, "EXPIRED") => m.id \in refunds

\* A handler that began has decided its booking, or is about to ask for the money.
HandlersDecide == \A c \in Consumers, m \in B!Result : serving[c] = m =>
    /\ ~B!Has(m.id, "HELD")
    /\ Decided(m) \/ task[c].at \in {"readBack", "settleRefund"}
DoneIsDecided == \A m \in B!Result : delivery[m].state = "completed" => Decided(m)

ResultQueueInv == TypeOK /\ StallsLeft /\ OwnersSettle /\ HandlersSettle

\* A result that was sent is not unsent.
LEMMA ResultsStay == SeamInv /\ [Next]_vars => results \subseteq results'
<1> SUFFICES ASSUME SeamInv, [Next]_vars PROVE results \subseteq results'
  OBVIOUS
<1>1. [BP!Next]_(BP!vars)
  BY ApiStep, SameApi DEF B!vars, BP!vars
<1>2. results' = results \/ \E r \in Ids, type \in BP!ResultType : BP!ResultArrives(r, type)
  BY <1>1, ApiAssumed, BP!Footprint DEF SeamInv
<1>3. QED
  BY <1>2 DEF BP!ResultArrives

\* A consumer that has a job goes on with it, or ends.
GoesOn(c) ==
    \/ B!SettleReadBack(c) \/ B!CancelRefund(c) \/ B!SettleRefund(c) \/ B!Announce(c)

\* What a step does to the result queue and its consumers.
LEMMA ResultQueueSteps ==
    ASSUME [Next]_vars
    PROVE  \/ /\ UNCHANGED queueVars
              /\ \/ task' = task
                 \/ \E p : p \notin Consumers /\ \E t : task' = [task EXCEPT ![p] = t]
                 \/ \E c \in Consumers : GoesOn(c)
           \/ \E c \in Consumers, m \in B!Result : Settle(c, m)
           \/ \E c \in Consumers : SettleDone(c) \/ SettleThrows(c) \/ SettleCrashes(c)
           \/ \E m \in B!Result : FirstCallFails(m) \/ ResultStalled(m) \/ LoseResultLock(m)
<1> DEFINE Others == Clients \cup ExpiryTimers \cup CompletionTimers
           Quiet == /\ UNCHANGED queueVars
                    /\ \/ task' = task
                       \/ \E p : p \notin Consumers /\ \E t : task' = [task EXCEPT ![p] = t]
                       \/ \E c \in Consumers : GoesOn(c)
<1>0. \A p \in Others : p \notin Consumers
  BY ApiAssumption, ConsumersAssumption DEF B!ProcsAssumption
<1>1. ASSUME \/ Alone(B!Tick)
             \/ \E l \in Listings : Alone(B!UpdateListing(l)) \/ Alone(B!RemoveListing(l))
      PROVE  Quiet
  BY <1>1 DEF Alone, B!Tick, B!UpdateListing, B!RemoveListing
<1>2. ASSUME NEW p \in Others,
             \/ \E g \in Guests, l \in Listings, t \in Stays : Alone(B!HoldRead(p, g, l, t))
             \/ \E r \in Ids : Alone(B!ClaimCommits(p, r))
             \/ Alone(B!ClaimRejected(p))
             \/ \E g \in Guests, r \in Ids : Alone(B!CancelRead(p, g, r))
             \/ Alone(B!CancelUpdate(p)) \/ Alone(B!Announce(p)) \/ RequestRefund(p)
             \/ Alone(B!ExpirySweep(p)) \/ Alone(B!CompletionSweep(p)) \/ Alone(B!Crash(p))
      PROVE  Quiet
  <2>1. UNCHANGED queueVars
    BY <1>2 DEF Alone, RequestRefund
  <2>2. \E t : task' = [task EXCEPT ![p] = t]
    BY <1>2 DEF Alone, RequestRefund, B!HoldRead, B!ClaimCommits, B!ClaimRejected, B!CancelRead,
                B!CancelUpdate, B!Announce, B!CancelRefund, B!SettleRefund, B!ExpirySweep,
                B!ExpiryRead, B!ExpiryUpdate, B!CompletionSweep, B!CompletionRead,
                B!CompletionUpdate, B!SweepUpdate, B!Crash, B!Become
  <2>3. QED
    BY <1>0, <2>1, <2>2
<1>3. ASSUME NEW p \in Clients, Client(p) PROVE Quiet
  BY <1>2, <1>3 DEF Client, ClientProceeds
<1>4. ASSUME NEW p \in Relays, RelayPublishes(p) \/ RelayOther(p) PROVE Quiet
  BY <1>4 DEF RelayPublishes, RelayOther
<1>5. ASSUME \/ \E w \in Workers : Worker(w)
             \/ \E q \in P!Queues, r \in Ids : Apart(P!Stalled(q, r)) \/ Apart(P!LoseLock(q, r))
      PROVE  Quiet
  BY <1>5 DEF Worker, Apart
<1>6. ASSUME NEW c \in Consumers, ConsumerProceeds(c) PROVE Quiet \/ SettleDone(c)
  BY <1>6 DEF ConsumerProceeds, Alone, RequestRefund, GoesOn
<1>7. CASE UNCHANGED vars
  BY <1>7 DEF vars, bookingVars
<1>8. QED
  BY <1>1, <1>2, <1>3, <1>4, <1>5, <1>6, <1>7 DEF Next

\* A handler that goes on stays with the result of its job.
LEMMA HandlerGoesOn ==
    ASSUME SeamInv, HandlersSettle, NEW c \in Consumers, GoesOn(c), UNCHANGED serving
    PROVE  HandlersSettle'
<1>1. task \in [BP!Procs -> BP!Task] /\ Consumers \subseteq BP!Procs
  BY DEF SeamInv, BP!TypeInv, BP!TypeOK, BP!Procs
<1>2. serving[c] # NoResult /\ Settles(task[c], serving[c])
  BY DEF HandlersSettle, GoesOn, B!SettleReadBack, B!CancelRefund, B!SettleRefund, B!Announce, B!Idle
<1>3. \E t : task' = [task EXCEPT ![c] = t] /\ Settles(t, serving[c])
  <2>1. CASE B!SettleReadBack(c)
    <3>1. /\ serving[c].type = "PaymentSucceeded"
          /\ task[c] = [at |-> "readBack", id |-> serving[c].id]
      BY <1>2, <2>1 DEF Settles, B!SettleReadBack, B!Idle
    <3>2. \/ task' = [task EXCEPT ![c] = B!Idle]
          \/ task' = [task EXCEPT ![c] = [at |-> "settleRefund", id |-> serving[c].id]]
      <4>1. task[c].id = serving[c].id
        BY <3>1
      <4>2. \/ task' = [task EXCEPT ![c] = B!Idle]
            \/ task' = [task EXCEPT ![c] = [at |-> "settleRefund", id |-> task[c].id]]
        BY <2>1, Zenon DEF B!SettleReadBack, B!Become
      <4>3. QED
        BY <4>1, <4>2
    <3>3. QED
      BY <3>1, <3>2 DEF Settles
  <2>2. CASE B!CancelRefund(c) \/ B!SettleRefund(c)
    BY <1>2, <2>2 DEF Settles, B!CancelRefund, B!SettleRefund, B!Become, B!Idle
  <2>3. CASE B!Announce(c)
    <3>1. task[c].ids = {serving[c].id}
      BY <1>2, <2>3 DEF Settles, B!Announce, B!Idle
    <3>2. task' = [task EXCEPT ![c] = B!Idle]
      BY <2>3, <3>1 DEF B!Announce, B!Become
    <3>3. QED
      BY <3>2 DEF Settles
  <2>4. QED
    BY <2>1, <2>2, <2>3 DEF GoesOn
<1>4. QED
  BY <1>1, <1>2, <1>3 DEF HandlersSettle, Settles

LEMMA ResultQueueStep == SeamInv /\ ResultQueueInv /\ [Next]_vars => ResultQueueInv'
<1> SUFFICES ASSUME SeamInv, ResultQueueInv, [Next]_vars PROVE ResultQueueInv'
  OBVIOUS
<1> USE DEF ResultQueueInv
<1>1. task \in [BP!Procs -> BP!Task] /\ Consumers \subseteq BP!Procs
  BY DEF SeamInv, BP!TypeInv, BP!TypeOK, BP!Procs
<1>2. results \subseteq results' /\ MaxStalls \in Nat /\ MaxLostLocks \in Nat
  BY ResultsStay, WorkerAssumption DEF P!AttemptsAssumption, P!FaultsAssumption
<1>3. ASSUME UNCHANGED queueVars,
             \/ task' = task
             \/ \E p : p \notin Consumers /\ \E t : task' = [task EXCEPT ![p] = t]
             \/ \E c \in Consumers : GoesOn(c)
      PROVE  ResultQueueInv'
  <2>1. TypeOK' /\ StallsLeft' /\ OwnersSettle'
    BY <1>2, <1>3 DEF queueVars, TypeOK, StallsLeft, OwnersSettle, Holds
  <2>2. ASSUME \A c \in Consumers : task'[c] = task[c] PROVE HandlersSettle'
    BY <1>3, <2>2 DEF queueVars, HandlersSettle
  <2>3. ASSUME NEW p, p \notin Consumers, NEW t, task' = [task EXCEPT ![p] = t]
        PROVE  HandlersSettle'
    <3>1. \A c \in Consumers : task'[c] = task[c]
      BY <1>1, <2>3
    <3>2. QED
      BY <2>2, <3>1
  <2>4. ASSUME NEW c \in Consumers, GoesOn(c) PROVE HandlersSettle'
    BY <1>3, <2>4, HandlerGoesOn DEF queueVars
  <2>5. HandlersSettle'
    BY <1>3, <2>2, <2>3, <2>4
  <2>6. QED
    BY <2>1, <2>5
<1>4. ASSUME NEW c \in Consumers, NEW m \in B!Result, Settle(c, m) PROVE ResultQueueInv'
  <2>1. /\ m \in results /\ serving[c] = NoResult /\ delivery[m].state = "waiting"
        /\ delivery' = [delivery EXCEPT ![m].state = "active", ![m].owner = c]
        /\ serving' = [serving EXCEPT ![c] = m] /\ m # NoResult
        /\ resultLocksLost' = resultLocksLost /\ c # Nobody
    BY <1>4, NoResultAssumption, ConsumersAssumption DEF Settle
  <2>2. TypeOK' /\ StallsLeft'
    BY <1>2, <2>1 DEF TypeOK, StallsLeft, DeliveryState
  <2>3. OwnersSettle'
    BY <2>1 DEF TypeOK, DeliveryState, OwnersSettle, Holds
  <2>4. \E t : task' = [task EXCEPT ![c] = t] /\ Settles(t, m)
    BY <1>4 DEF Settle, B!ApplyPaymentSucceeded, B!ApplyPaymentFailed, B!SettleUpdate, B!Become,
                Settles, B!Idle
  <2>5. HandlersSettle'
    BY <1>1, <2>1, <2>4 DEF HandlersSettle, Settles, TypeOK
  <2>6. QED
    BY <2>2, <2>3, <2>5
<1>5. ASSUME NEW c \in Consumers, SettleDone(c) \/ SettleThrows(c) \/ SettleCrashes(c)
      PROVE  ResultQueueInv'
  <2>1. /\ serving[c] # NoResult /\ serving' = [serving EXCEPT ![c] = NoResult]
        /\ resultLocksLost' = resultLocksLost
        /\ \/ /\ Holds(c)
              /\ \E state \in {"completed", "failed"} :
                   delivery' = [delivery EXCEPT ![serving[c]].state = state,
                                                ![serving[c]].owner = Nobody]
           \/ delivery' = delivery
    BY <1>5 DEF SettleDone, SettleThrows, SettleCrashes, Ends
  <2>2. serving[c] \in B!Result /\ serving[c] \in results
    BY <2>1 DEF TypeOK
  <2>3. TypeOK' /\ StallsLeft'
    <3>1. CASE delivery' = delivery
      BY <1>2, <2>1, <2>2, <3>1 DEF TypeOK, StallsLeft
    <3>2. ASSUME Holds(c), NEW state \in {"completed", "failed"},
                 delivery' = [delivery EXCEPT ![serving[c]].state = state,
                                              ![serving[c]].owner = Nobody]
          PROVE  TypeOK' /\ StallsLeft'
      <4>1. PICK m \in B!Result : m = serving[c]
        BY <2>2
      <4>2. delivery' = [delivery EXCEPT ![m] = [@ EXCEPT !.state = state, !.owner = Nobody]]
        BY <3>2, <4>1 DEF TypeOK, DeliveryState
      <4>3. delivery' \in [B!Result -> DeliveryState]
        BY <4>2 DEF TypeOK, DeliveryState
      <4>4. \A n \in B!Result : /\ n # m => delivery'[n] = delivery[n]
                                /\ delivery'[m].state = state /\ delivery'[m].owner = Nobody
        BY <4>2 DEF TypeOK, DeliveryState
      <4>5. QED
        BY <1>2, <2>1, <2>2, <4>1, <4>3, <4>4 DEF TypeOK, StallsLeft
    <3>3. QED
      BY <2>1, <3>1, <3>2
  <2>4. OwnersSettle'
    <3>1. \A d \in Consumers \ {c} : Holds(c) /\ Holds(d) => serving[d] # serving[c]
      BY DEF Holds
    <3>2. QED
      BY <2>1, <2>2, <3>1 DEF TypeOK, DeliveryState, OwnersSettle, Holds
  <2>5. task' = [task EXCEPT ![c] = B!Idle]
    BY <1>1, <1>5 DEF SettleDone, SettleThrows, SettleCrashes, B!Crash, B!Become, bookingVars
  <2>6. HandlersSettle'
    BY <1>1, <2>1, <2>5 DEF HandlersSettle, Settles, TypeOK
  <2>7. QED
    BY <2>3, <2>4, <2>6
<1>6. ASSUME NEW m \in B!Result, FirstCallFails(m) PROVE ResultQueueInv'
  <2>1. /\ serving' = serving /\ task' = task /\ resultLocksLost' = resultLocksLost
        /\ delivery[m].state = "waiting" /\ delivery' = [delivery EXCEPT ![m].state = "failed"]
        /\ m \in results
    BY <1>6 DEF FirstCallFails, bookingVars
  <2>2. TypeOK' /\ StallsLeft' /\ OwnersSettle'
    BY <1>2, <2>1 DEF TypeOK, StallsLeft, DeliveryState, OwnersSettle, Holds
  <2>3. HandlersSettle'
    BY <2>1 DEF HandlersSettle
  <2>4. QED
    BY <2>2, <2>3
<1>7. ASSUME NEW m \in B!Result, ResultStalled(m) \/ LoseResultLock(m) PROVE ResultQueueInv'
  <2>1. /\ serving' = serving /\ task' = task /\ delivery[m].state = "active"
        /\ delivery' = [delivery EXCEPT ![m] =
               [state |-> IF @.stalls < MaxStalls THEN "waiting" ELSE "failed",
                stalls |-> @.stalls + 1, owner |-> Nobody]]
        /\ \/ serving[delivery[m].owner] # m /\ resultLocksLost' = resultLocksLost
           \/ resultLocksLost < MaxLostLocks /\ resultLocksLost' = resultLocksLost + 1
    BY <1>7 DEF ResultStalled, LoseResultLock, ReleaseResult, bookingVars
  <2>2. TypeOK' /\ StallsLeft'
    BY <1>2, <2>1 DEF TypeOK, StallsLeft, DeliveryState
  <2>3. OwnersSettle'
    BY <1>2, <2>1 DEF TypeOK, DeliveryState, OwnersSettle, Holds
  <2>4. HandlersSettle'
    BY <2>1 DEF HandlersSettle
  <2>5. QED
    BY <2>2, <2>3, <2>4
<1>8. QED
  BY <1>3, <1>4, <1>5, <1>6, <1>7, ResultQueueSteps

LEMMA ResultQueueStart == Init => ResultQueueInv
BY NoResultAssumption, WorkerAssumption, ApiAssumption, ConsumersAssumption
   DEF Init, ResultQueueInv, TypeOK, StallsLeft, OwnersSettle, HandlersSettle, DeliveryState,
       B!Init, B!Procs, P!AttemptsAssumption, P!FaultsAssumption

\* What a handler decided stays decided.
LEMMA DecidedStays ==
    ASSUME SeamInv, [Next]_vars, NEW m \in results
    PROVE  /\ ~B!Has(m.id, "HELD") => ~B!Has(m.id, "HELD")'
           /\ ~B!Has(m.id, "HELD") /\ B!Has(m.id, "EXPIRED")' => B!Has(m.id, "EXPIRED")
           /\ refunds \subseteq refunds'
           /\ Decided(m) => Decided(m)'
<1>1. [BP!Next]_(BP!vars) /\ m.id \in BP!Booked
  BY ApiStep, SameApi DEF B!vars, BP!vars, SeamInv, BP!MoneyInv, BP!EventsKnown
<1>2. /\ ~B!Has(m.id, "HELD") => ~B!Has(m.id, "HELD")'
      /\ ~B!Has(m.id, "HELD") /\ B!Has(m.id, "EXPIRED")' => B!Has(m.id, "EXPIRED")
  <2>1. /\ \A r \in BP!Booked : ~BP!Has(r, "HELD") => ~BP!Has(r, "HELD")'
        /\ \A r \in BP!Booked : ~BP!Has(r, "HELD") /\ BP!Has(r, "EXPIRED")' => BP!Has(r, "EXPIRED")
    BY <1>1, BP!Lasting, ApiAssumed DEF SeamInv
  <2>2. /\ ~BP!Has(m.id, "HELD") => ~BP!Has(m.id, "HELD")'
        /\ ~BP!Has(m.id, "HELD") /\ BP!Has(m.id, "EXPIRED")' => BP!Has(m.id, "EXPIRED")
    BY <1>1, <2>1
  <2>3. QED
    BY <2>2 DEF B!Has, B!Booked, BP!Has, BP!Booked
<1>3. refunds \subseteq refunds'
  BY <1>1, ApiAssumed, BP!Footprint DEF SeamInv, BP!CancelRefund, BP!SettleRefund
<1>4. QED
  BY <1>2, <1>3 DEF Decided

DecideInv == HandlersDecide /\ DoneIsDecided

\* A handler decides by its first statement, and is done only after it has asked for the money
\* it found to be owed.
LEMMA DecideStep == SeamInv /\ ResultQueueInv /\ DecideInv /\ [Next]_vars => DecideInv'
<1> SUFFICES ASSUME SeamInv, ResultQueueInv, DecideInv, [Next]_vars PROVE DecideInv'
  OBVIOUS
<1> USE DEF DecideInv
<1>1. /\ task \in [BP!Procs -> BP!Task] /\ Consumers \subseteq BP!Procs
      /\ \A c \in Consumers : serving[c] # NoResult => serving[c] \in results
      /\ \A m \in B!Result : delivery[m].state = "completed" => m \in results
      /\ serving \in [Consumers -> B!Result \cup {NoResult}]
      /\ delivery \in [B!Result -> DeliveryState]
  BY DEF SeamInv, BP!TypeInv, BP!TypeOK, BP!Procs, ResultQueueInv, TypeOK
\* A consumer that keeps its job and its task keeps what it decided.
<1>2. ASSUME NEW c \in Consumers, NEW m \in B!Result, serving[c] = m
      PROVE  /\ m \in results /\ ~B!Has(m.id, "HELD")'
             /\ task'[c] = task[c] =>
                  Decided(m)' \/ task'[c].at \in {"readBack", "settleRefund"}
  BY <1>1, <1>2, DecidedStays, NoResultAssumption DEF HandlersDecide
<1>3. ASSUME NEW m \in B!Result, delivery[m].state = "completed" PROVE Decided(m)'
  BY <1>1, <1>3, DecidedStays DEF DoneIsDecided
<1>4. ASSUME UNCHANGED queueVars,
             \/ task' = task
             \/ \E p : p \notin Consumers /\ \E t : task' = [task EXCEPT ![p] = t]
             \/ \E c \in Consumers : GoesOn(c)
      PROVE  DecideInv'
  <2>1. DoneIsDecided'
    BY <1>3, <1>4 DEF DoneIsDecided, queueVars
  <2>2. ASSUME NEW c \in Consumers, NEW m \in B!Result, serving'[c] = m, task'[c] # task[c]
        PROVE  Decided(m)' \/ task'[c].at \in {"readBack", "settleRefund"}
    <3>1. serving[c] = m /\ m # NoResult /\ m \in results /\ Settles(task[c], m)
      BY <1>2, <1>4, <2>2, NoResultAssumption DEF queueVars, ResultQueueInv, HandlersSettle
    <3>2. ASSUME NEW p, p \notin Consumers, NEW t, task' = [task EXCEPT ![p] = t] PROVE FALSE
      BY <1>1, <2>2, <3>2
    <3>3. PICK d \in Consumers : GoesOn(d)
      BY <1>4, <2>2, <3>2
    <3>4. d = c
      BY <1>1, <2>2, <3>3 DEF GoesOn, B!SettleReadBack, B!CancelRefund, B!SettleRefund, B!Announce,
                              B!Become
    <3>5. CASE B!SettleReadBack(c)
      <4>1. task[c].id = m.id /\ m.type = "PaymentSucceeded"
        BY <3>1, <3>5 DEF Settles, B!SettleReadBack, B!Idle
      <4>2. \/ B!Has(m.id, "CONFIRMED") \/ m.id \notin B!Booked
            \/ task' = [task EXCEPT ![c] = [at |-> "settleRefund", id |-> m.id]]
        BY <3>5, <4>1, Zenon DEF B!SettleReadBack, B!Become
      <4>3. reservation' = reservation
        BY <3>5 DEF B!SettleReadBack
      <4>4. CASE B!Has(m.id, "CONFIRMED") \/ m.id \notin B!Booked
        <5>1. ~B!Has(m.id, "EXPIRED")' /\ ~B!Has(m.id, "HELD")'
          BY <4>3, <4>4 DEF B!Has, B!Booked
        <5>2. QED
          BY <5>1 DEF Decided
      <4>5. QED
        BY <1>1, <4>2, <4>4
    <3>6. CASE B!CancelRefund(c) \/ B!SettleRefund(c)
      <4>1. task[c].id = m.id /\ m.id \in refunds'
        BY <3>1, <3>6 DEF Settles, B!CancelRefund, B!SettleRefund, B!Idle
      <4>2. QED
        BY <1>2, <3>1, <4>1 DEF Decided
    <3>7. CASE B!Announce(c)
      <4>1. task[c].at \notin {"readBack", "settleRefund"}
        BY <3>7 DEF B!Announce
      <4>2. QED
        BY <3>1, <4>1, DecidedStays DEF HandlersDecide
    <3>8. QED
      BY <3>3, <3>4, <3>5, <3>6, <3>7 DEF GoesOn
  <2>3. HandlersDecide'
    BY <1>2, <1>4, <2>2 DEF HandlersDecide, queueVars
  <2>4. QED
    BY <2>1, <2>3
<1>5. ASSUME NEW c \in Consumers, NEW m \in B!Result, Settle(c, m) PROVE DecideInv'
  <2>1. /\ m \in results /\ m # NoResult /\ serving[c] = NoResult
        /\ delivery' = [delivery EXCEPT ![m].state = "active", ![m].owner = c]
        /\ serving' = [serving EXCEPT ![c] = m]
    BY <1>5, NoResultAssumption DEF Settle
  <2>2. DoneIsDecided'
    BY <1>1, <1>3, <2>1 DEF DoneIsDecided, DeliveryState
  <2>3. \E t : task' = [task EXCEPT ![c] = t]
    BY <1>5 DEF Settle, B!ApplyPaymentSucceeded, B!ApplyPaymentFailed, B!SettleUpdate, B!Become
  <2>4. /\ ~B!Has(m.id, "HELD")'
        /\ Decided(m)' \/ task'[c].at \in {"readBack", "settleRefund"}
    <3>1. m.id \in Ids /\ reservation \in [Ids -> B!Reservation \cup {NoRow}]
      BY DEF B!Result, SeamInv, BP!TypeInv, BP!TypeOK, B!Reservation, BP!Reservation, B!Status,
             BP!Status
    <3>2. CASE B!Has(m.id, "HELD")
      <4>1. PICK s \in {"CONFIRMED", "CANCELLED"} : reservation' = B!WithStatus({m.id}, s)
        BY <1>5, <3>2 DEF Settle, B!ApplyPaymentSucceeded, B!ApplyPaymentFailed, B!SettleUpdate
      <4>2. reservation'[m.id].status = s
        BY <3>1, <3>2, <4>1, ApiAssumption
           DEF B!WithStatus, B!Has, B!Booked, B!NoRowAssumption, B!Reservation
      <4>3. ~B!Has(m.id, "HELD")' /\ ~B!Has(m.id, "EXPIRED")'
        BY <4>2 DEF B!Has
      <4>4. QED
        BY <4>3 DEF Decided
    <3>3. CASE ~B!Has(m.id, "HELD")
      <4>1. ~B!Has(m.id, "HELD")'
        BY <2>1, <3>3, DecidedStays
      <4>2. CASE m.type = "PaymentSucceeded"
        <5>1. B!ApplyPaymentSucceeded(c, m.id)
          BY <1>5, <4>2 DEF Settle
        <5>2. task' = [task EXCEPT ![c] = [at |-> "readBack", id |-> m.id]]
          BY <3>3, <5>1 DEF B!ApplyPaymentSucceeded, B!SettleUpdate, B!Become
        <5>3. QED
          BY <1>1, <4>1, <5>2
      <4>3. CASE m.type # "PaymentSucceeded"
        BY <4>1, <4>3 DEF Decided
      <4>4. QED
        BY <4>1, <4>2, <4>3
    <3>4. QED
      BY <3>2, <3>3
  <2>5. \A d \in Consumers \ {c} : serving'[d] = serving[d] /\ task'[d] = task[d]
    BY <1>1, <2>1, <2>3
  <2>6. HandlersDecide'
    BY <1>1, <1>2, <2>1, <2>4, <2>5 DEF HandlersDecide
  <2>7. QED
    BY <2>2, <2>6
<1>6. ASSUME NEW c \in Consumers, SettleDone(c) \/ SettleThrows(c) \/ SettleCrashes(c)
      PROVE  DecideInv'
  <2>1. /\ serving[c] # NoResult /\ serving' = [serving EXCEPT ![c] = NoResult]
        /\ task' = [task EXCEPT ![c] = B!Idle]
    BY <1>1, <1>6 DEF SettleDone, SettleThrows, SettleCrashes, Ends, B!Crash, B!Become, bookingVars
  <2>2. HandlersDecide'
    BY <1>1, <1>2, <2>1, NoResultAssumption DEF HandlersDecide
  <2>3. PICK m \in B!Result : m = serving[c]
    BY <1>1, <2>1
  <2>4. ASSUME NEW n \in B!Result, delivery'[n].state = "completed" PROVE Decided(n)'
    <3>1. CASE SettleDone(c) /\ n = m
      <4>1. task[c].at \notin {"readBack", "settleRefund"}
        BY <3>1 DEF SettleDone, B!Idle
      <4>2. Decided(m)
        BY <2>3, <4>1 DEF HandlersDecide
      <4>3. QED
        BY <1>2, <2>3, <3>1, <4>2, DecidedStays
    <3>2. CASE ~(SettleDone(c) /\ n = m)
      <4>1. \/ delivery' = delivery
            \/ delivery' = [delivery EXCEPT ![m].state = "failed", ![m].owner = Nobody]
            \/ delivery' = [delivery EXCEPT ![m].state = "completed", ![m].owner = Nobody] /\ n # m
        BY <1>6, <2>3, <3>2 DEF SettleDone, SettleThrows, SettleCrashes, Ends
      <4>2. delivery[n].state = "completed"
        BY <1>1, <2>4, <4>1 DEF DeliveryState
      <4>3. QED
        BY <1>3, <4>2
    <3>3. QED
      BY <3>1, <3>2
  <2>5. QED
    BY <2>2, <2>4 DEF DoneIsDecided
<1>7. ASSUME NEW m \in B!Result, FirstCallFails(m) \/ ResultStalled(m) \/ LoseResultLock(m)
      PROVE  DecideInv'
  <2>1. serving' = serving /\ task' = task
    BY <1>7 DEF FirstCallFails, ResultStalled, LoseResultLock, ReleaseResult, bookingVars
  <2>2. \A n \in B!Result : delivery'[n].state = "completed" => delivery[n].state = "completed"
    BY <1>1, <1>7 DEF FirstCallFails, ResultStalled, LoseResultLock, ReleaseResult, DeliveryState
  <2>3. QED
    BY <1>2, <1>3, <2>1, <2>2 DEF HandlersDecide, DoneIsDecided
<1>8. QED
  BY <1>4, <1>5, <1>6, <1>7, ResultQueueSteps

-----------------------------------------------------------------------------
(* Theorems.                                                               *)

\* Each of the three modules is proved correct in an environment that may do no more than it
\* assumes; joined by their queues, the other two and the clients do no more than that.
THEOREM EnvironmentsFit == Spec => ModulesAssumeRight
<1>1. Init => B!Init /\ R!Init /\ P!Init
  BY DEF Init
<1>2. SeamInv /\ [Next]_vars
        => /\ [B!Next]_(B!vars) /\ [R!Next]_(R!vars)
           /\ [P!Next \/ P!LosesLocks]_(P!vars)
  BY ApiStep, RelayStep, WorkerStep
<1>3. QED
  BY <1>1, <1>2, SeamKept, PTL DEF Spec, ModulesAssumeRight, B!Spec, R!Spec, P!SpecLosingLocks

\* A success is reported, and money given back, only of money that was taken, although the
\* worker may be given a job twice over.
THEOREM SuccessesAreReal == Spec => []SuccessesWereTaken
<1>1. SeamInv => SuccessesWereTaken
  BY DEF SeamInv, PP!LosingInv, PP!TakenInv, SuccessesWereTaken, P!SuccessesWereTaken, P!Told,
         PP!Told
<1>2. QED
  BY <1>1, SeamKept, PTL

\* The money of a confirmed booking was taken and is not given back: the invariants of the API
\* and of the worker meet in the result that told the one of the other.
THEOREM ConfirmedIsPaid == Spec => []ConfirmedMoneyStays
<1>1. SeamInv => ConfirmedMoneyStays
  <2> SUFFICES ASSUME SeamInv, NEW r \in Ids, B!Has(r, "CONFIRMED")
               PROVE  /\ taken[r] > 0 /\ returned[r] = 0
                      /\ lostLocks = 0 => taken[r] = 1
    BY DEF ConfirmedMoneyStays
  <2>1. BP!Has(r, "CONFIRMED") /\ r \in BP!Live
    BY DEF B!Has, B!Booked, BP!Has, BP!Booked, BP!Live
  <2>2. PP!Told(r, "PaymentSucceeded")
    BY <2>1 DEF SeamInv, BP!MoneyInv, BP!OnlyPaidStays, BP!Charged, PP!Told
  <2>3. taken[r] > 0
    BY <2>2 DEF SeamInv, PP!LosingInv, PP!TakenInv
  <2>4. returned[r] = 0
    <3>1. r \notin refunds
      BY <2>1 DEF SeamInv, BP!MoneyInv, BP!RefundsAreOwed
    <3>2. job["refund"][r].state = "none"
      BY <3>1 DEF SeamInv, JobsAsked, Asked, P!Queues
    <3>3. QED
      BY <3>2 DEF SeamInv, PP!LosingInv, PP!JobsInv
  <2>5. lostLocks = 0 => taken[r] = 1
    BY <2>2 DEF SeamInv, PP!LosingInv, PP!OwnedInv, PP!BooksInv, PP!BooksFit
  <2>6. QED
    BY <2>3, <2>4, <2>5
<1>2. QED
  BY <1>1, SeamKept, PTL

\* So everything proved of the modules on their own is true of the system: the slots, the refunds
\* and the announcements of the API, the outbox of the relay, the money of the worker.
SystemIsSafe ==
    /\ B!NoOverlap /\ B!OnlyPaidStays /\ B!RefundsAreOwed /\ B!AnnouncementsAreTrue
    /\ R!MarkedIsQueued /\ R!DuplicatesComeFromAborts
    /\ lostLocks = 0 => P!RecordFollowsMoney

\* The invariants of all three modules, for the system they make up.
THEOREM SystemStaysSafe == Spec => []SystemIsSafe
<1>1. Spec => BP!Spec /\ RP!Spec
  <2>1. Init => BP!Init /\ RP!Init
    BY SameApi, SameRelay DEF Init
  <2>2. SeamInv /\ [Next]_vars => [BP!Next]_(BP!vars) /\ [RP!Next]_(RP!vars)
    BY ApiStep, RelayStep, SameApi, SameRelay DEF B!vars, BP!vars, R!vars, RP!vars
  <2>3. QED
    BY <2>1, <2>2, SeamKept, PTL DEF Spec, BP!Spec, RP!Spec
<1>2. BP!Spec => []BP!NoOverlap
  BY BP!NoOverlapHolds, ApiAssumed
<1>3. RP!Spec => [](RP!MarkedIsQueued /\ RP!DuplicatesComeFromAborts)
  <2>1. RP!Spec => []RP!MarkedIsQueued
    BY RP!NothingIsLost, RelayAssumption
  <2>2. RP!Spec => []RP!DuplicatesComeFromAborts
    BY RP!DuplicatesArePaidFor, RelayAssumption
  <2>3. QED
    BY <2>1, <2>2, PTL
<1>4. SeamInv /\ BP!NoOverlap /\ RP!MarkedIsQueued /\ RP!DuplicatesComeFromAborts => SystemIsSafe
  <2> SUFFICES ASSUME SeamInv, BP!NoOverlap, RP!MarkedIsQueued, RP!DuplicatesComeFromAborts
               PROVE  SystemIsSafe
    OBVIOUS
  <2>1. B!NoOverlap
    BY DEF B!NoOverlap, BP!NoOverlap, B!Live, BP!Live, B!Has, BP!Has, B!Booked, BP!Booked,
           B!Overlap, BP!Overlap
  <2>2. B!OnlyPaidStays /\ B!RefundsAreOwed /\ B!AnnouncementsAreTrue
    BY DEF SeamInv, BP!MoneyInv, B!OnlyPaidStays, BP!OnlyPaidStays, B!RefundsAreOwed,
           BP!RefundsAreOwed, B!AnnouncementsAreTrue, BP!AnnouncementsAreTrue, B!Charged,
           BP!Charged, B!Live, BP!Live, B!Has, BP!Has, B!Booked, BP!Booked
  <2>3. R!MarkedIsQueued /\ R!DuplicatesComeFromAborts
    BY DEF R!MarkedIsQueued, RP!MarkedIsQueued, R!DuplicatesComeFromAborts,
           RP!DuplicatesComeFromAborts
  <2>4. lostLocks = 0 => P!RecordFollowsMoney
    BY DEF SeamInv, PP!LosingInv, PP!OwnedInv, PP!BooksInv, PP!BooksFit, P!RecordFollowsMoney
  <2>5. QED
    BY <2>1, <2>2, <2>3, <2>4 DEF SystemIsSafe
<1>5. QED
  BY <1>1, <1>2, <1>3, <1>4, SeamKept, PTL

\* The result queue (payment-result.processor.ts).  Two consumers settle one result only after
\* a lock was lost; whatever was lost, a handler is about the result of its job and no other, a
\* result is delivered again only as often as it may stall, and one that is done has decided its
\* booking: it is no hold any more, and if it had expired its money was asked back.
ResultsAreSettled ==
    /\ resultLocksLost = 0 =>
         \A c, d \in Consumers : serving[c] # NoResult /\ serving[c] = serving[d] => c = d
    /\ HandlersSettle
    /\ StallsLeft
    /\ DoneIsDecided

\* Consumers may die, fail and lose their locks; what they did before is not lost with them.
THEOREM ResultsAreSettledOnce == Spec => []ResultsAreSettled
<1>1. Init => DecideInv
  BY NoResultAssumption DEF Init, DecideInv, HandlersDecide, DoneIsDecided
<1>2. ResultQueueInv /\ DecideInv => ResultsAreSettled
  BY DEF ResultQueueInv, OwnersSettle, Holds, DecideInv, ResultsAreSettled
<1>3. QED
  BY <1>1, <1>2, SeamKept, ResultQueueStart, ResultQueueStep, DecideStep, PTL DEF Spec
=============================================================================
