------------------------------ MODULE Payment ------------------------------
(***************************************************************************)
(* The payment worker: processes that take charge and refund jobs from the *)
(* queues the API fills, move the money through the provider, keep the     *)
(* payments table and send the results back.                               *)
(*                                                                         *)
(* One call to the database, to the provider's ledger in Redis or to a     *)
(* queue is one step.  A worker may throw or die between any two of them,  *)
(* and the queue delivers again what was not finished.                     *)
(***************************************************************************)
EXTENDS Integers, FiniteSets

CONSTANTS
    Ids,          \* reservation ids, which are the idempotency keys
    Workers,      \* worker processes, one job at a time each
    Attempts,     \* attempts a charge job is given
    MaxStalls,    \* times a stalled job is delivered again
    MaxCrashes,   \* bound: workers that die with a job in their hands
    MaxLostLocks, \* bound: jobs delivered again while their worker is alive
    Nobody        \* not a worker

ASSUME AttemptsAssumption == Attempts \in Nat \ {0} /\ MaxStalls \in Nat
ASSUME FaultsAssumption == MaxCrashes \in Nat /\ MaxLostLocks \in Nat
ASSUME NobodyAssumption == Nobody \notin Workers

Queues == {"charge", "refund"}

\* Attempts are asked for on the charge queue only; elsewhere a job has one.
Allowed(q) == IF q = "charge" THEN Attempts ELSE 1

-----------------------------------------------------------------------------
\* A job: where it is, the worker that holds its lock, how often it failed and
\* stalled, and whether its payload carries a positive amount.
JobState == {"none", "waiting", "active", "completed", "failed"}
Job == [state : JobState, owner : Workers \cup {Nobody},
        made : 0 .. Attempts, stalls : 0 .. MaxStalls + 1, priced : BOOLEAN]

NoJob == [state |-> "none", owner |-> Nobody, made |-> 0, stalls |-> 0, priced |-> TRUE]

PaymentStatus == {"NONE", "PENDING", "SUCCEEDED", "FAILED", "REFUNDED"}
Outcome == {"succeeded", "declined"}
ResultType == {"PaymentSucceeded", "PaymentFailed"}
Result == [id : Ids, type : ResultType]

\* What a worker is about to do, with which job, and what it learned so far.
Idle == [at |-> "idle"]
ChargeWork == [at : {"find", "claim", "ask", "decide"}, queue : {"charge"}, id : Ids]
RecordWork == [at : {"record"}, queue : {"charge"}, id : Ids, outcome : Outcome]
SendWork == [at : {"send"}, queue : {"charge"}, id : Ids, type : ResultType]
BuryWork == [at : {"bury"}, queue : {"charge"}, id : Ids]
RefundWork == [at : {"findPaid", "askBack", "payBack", "recordBack"},
               queue : {"refund"}, id : Ids]
FinishWork == [at : {"finish"}, queue : Queues, id : Ids]
Work == {Idle} \cup ChargeWork \cup RecordWork \cup SendWork \cup BuryWork
               \cup RefundWork \cup FinishWork

VARIABLES
    job,         \* the charge and refund queues, by job id
    payment,     \* the status of each row of the payments table
    charge,      \* the provider's ledger of charges, by idempotency key
    refund,      \* the keys in the provider's ledger of refunds
    taken,       \* how many times the provider took the money of a booking
    returned,    \* how many times it gave it back
    results,     \* the results added to the result queue (their job ids)
    deadLetters, \* charges in the dead-letter queue
    work,        \* what each worker is in the middle of
    crashes,     \* workers that died
    lostLocks    \* jobs whose lock was lost under a living worker

vars == <<job, payment, charge, refund, taken, returned, results, deadLetters,
          work, crashes, lostLocks>>

TypeOK ==
    /\ job \in [Queues -> [Ids -> Job]]
    /\ payment \in [Ids -> PaymentStatus]
    /\ charge \in [Ids -> Outcome \cup {"none"}]
    /\ refund \subseteq Ids
    /\ taken \in [Ids -> Nat] /\ returned \in [Ids -> Nat]
    /\ results \subseteq Result
    /\ deadLetters \subseteq Ids
    /\ work \in [Workers -> Work]
    /\ crashes \in 0 .. MaxCrashes /\ lostLocks \in 0 .. MaxLostLocks

Init ==
    /\ job = [q \in Queues |-> [r \in Ids |-> NoJob]]
    /\ payment = [r \in Ids |-> "NONE"]
    /\ charge = [r \in Ids |-> "none"]
    /\ refund = {}
    /\ taken = [r \in Ids |-> 0] /\ returned = [r \in Ids |-> 0]
    /\ results = {}
    /\ deadLetters = {}
    /\ work = [w \in Workers |-> Idle]
    /\ crashes = 0 /\ lostLocks = 0

Become(w, t) == work' = [work EXCEPT ![w] = t]

Told(r, type) == [id |-> r, type |-> type] \in results

money == <<charge, refund, taken, returned>>
faults == <<crashes, lostLocks>>

-----------------------------------------------------------------------------
\* The API's side of the queues.

NewJob(priced) ==
    [state |-> "waiting", owner |-> Nobody, made |-> 0, stalls |-> 0, priced |-> priced]

\* Jobs for the bookings of R, those of F without a price.  A job id that is already there is
\* ignored.
WithJobs(q, R, F) ==
    [job EXCEPT ![q] = [r \in Ids |->
        IF r \in R /\ job[q][r].state = "none" THEN NewJob(r \notin F) ELSE job[q][r]]]

AddJobs(q, R, F) ==
    /\ job' = WithJobs(q, R, F)
    /\ UNCHANGED <<payment, money, results, deadLetters, work, faults>>

\* The relay publishes a batch of BookingHeld events in one call; a price may be zero.
ChargesQueued(R, F) == AddJobs("charge", R, F)

\* The API asks for a refund of a booking it was told is charged.
RefundQueued(r) == Told(r, "PaymentSucceeded") /\ AddJobs("refund", {r}, {})

-----------------------------------------------------------------------------
\* The queue library: delivery, completion, retries, stalls.

Holds(w) == job[work[w].queue][work[w].id].owner = w

Start(q) == IF q = "charge" THEN "find" ELSE "findPaid"

TakeJob(w, q, r) ==
    /\ work[w] = Idle
    /\ job[q][r].state = "waiting"
    /\ job' = [job EXCEPT ![q][r].state = "active", ![q][r].owner = w]
    /\ Become(w, [at |-> Start(q), queue |-> q, id |-> r])
    /\ UNCHANGED <<payment, money, results, deadLetters, faults>>

\* The job without its lock, in a new state.
Leave(q, r, state, made, stalls) ==
    job' = [job EXCEPT ![q][r] = [job[q][r] EXCEPT !.owner = Nobody, !.state = state,
                                                   !.made = made, !.stalls = stalls]]

\* The handler returned.  A worker that lost the lock cannot complete the job.
Finish(w) ==
    LET q == work[w].queue
        r == work[w].id
    IN
    /\ work[w].at = "finish"
    /\ IF Holds(w) THEN Leave(q, r, "completed", job[q][r].made, job[q][r].stalls)
                   ELSE UNCHANGED job
    /\ Become(w, Idle)
    /\ UNCHANGED <<payment, money, results, deadLetters, faults>>

\* Attempts made once the one in progress has failed.
Made(w) == job[work[w].queue][work[w].id].made + 1

\* The handler threw.  The job is tried again, or it failed; a worker that lost the lock
\* cannot say so.
FailWith(w, again, buries) ==
    LET q == work[w].queue
        r == work[w].id
    IN  IF Holds(w)
          THEN /\ Leave(q, r, IF again THEN "waiting" ELSE "failed", Made(w), job[q][r].stalls)
               /\ Become(w, IF buries THEN [at |-> "bury", queue |-> q, id |-> r] ELSE Idle)
          ELSE Become(w, Idle) /\ UNCHANGED job

\* Slips: one attempt too many; a failure is buried before its retries; retries never end.
FailOnceMore(w) == FailWith(w, Made(w) <= Allowed(work[w].queue), FALSE)
FailAlwaysBuries(w) ==
    FailWith(w, Made(w) < Allowed(work[w].queue), work[w].queue = "charge")
FailUncounted(w) ==
    /\ IF Holds(w) THEN Leave(work[w].queue, work[w].id, "waiting", 0, 0) ELSE UNCHANGED job
    /\ Become(w, Idle)

\* Retries remain, or the 'failed' listener of the charge queue goes on to bury the job.
Fail(w) ==
    LET again == Made(w) < Allowed(work[w].queue) IN
        FailWith(w, again, work[w].queue = "charge" /\ ~again)

\* The lock of an active job ran out: it is delivered again, but only so often.
Release(q, r) ==
    LET stalls == job[q][r].stalls IN
        Leave(q, r, IF stalls < MaxStalls THEN "waiting" ELSE "failed", job[q][r].made, stalls + 1)

WorksOn(w, q, r) == work[w] # Idle /\ work[w].queue = q /\ work[w].id = r

\* Its worker is dead.
Stalled(q, r) ==
    /\ job[q][r].state = "active"
    /\ ~WorksOn(job[q][r].owner, q, r)
    /\ Release(q, r)
    /\ UNCHANGED <<payment, money, results, deadLetters, work, faults>>

\* Its worker is alive but did not renew the lock in time, and carries on.
LoseLock(q, r) ==
    /\ lostLocks < MaxLostLocks
    /\ job[q][r].state = "active"
    /\ WorksOn(job[q][r].owner, q, r)
    /\ Release(q, r)
    /\ lostLocks' = lostLocks + 1
    /\ UNCHANGED <<payment, money, results, deadLetters, work, crashes>>

Crash(w) ==
    /\ work[w] # Idle
    /\ crashes < MaxCrashes
    /\ crashes' = crashes + 1
    /\ Become(w, Idle)
    /\ UNCHANGED <<job, payment, money, results, deadLetters, lostLocks>>

-----------------------------------------------------------------------------
\* Charging.

ToCharge(w, at) == Become(w, [at |-> at, queue |-> "charge", id |-> work[w].id])

TypeOf(status) == IF status = "SUCCEEDED" THEN "PaymentSucceeded" ELSE "PaymentFailed"

\* The result is built from the status the payment row has.
ToSend(w, status) ==
    Become(w, [at |-> "send", queue |-> "charge", id |-> work[w].id, type |-> TypeOf(status)])

\* Slip: a refunded payment does not count as settled.
FindPaymentForgetsRefunds(w) ==
    /\ work[w].at = "find"
    /\ LET r == work[w].id IN
         IF ~job["charge"][r].priced THEN Fail(w)
         ELSE /\ \/ payment[r] \in {"SUCCEEDED", "FAILED"} /\ ToSend(w, payment[r])
                 \/ payment[r] \in {"PENDING", "REFUNDED"} /\ ToCharge(w, "ask")
                 \/ payment[r] = "NONE" /\ ToCharge(w, "claim")
              /\ UNCHANGED job
    /\ UNCHANGED <<payment, money, results, deadLetters, faults>>

\* The payload is parsed (an amount of zero does not parse) and the payment looked up.
FindPayment(w) ==
    /\ work[w].at = "find"
    /\ LET r == work[w].id IN
         IF ~job["charge"][r].priced THEN Fail(w)
         ELSE /\ \/ payment[r] \notin {"NONE", "PENDING"} /\ ToSend(w, payment[r])
                 \/ payment[r] = "PENDING" /\ ToCharge(w, "ask")
                 \/ payment[r] = "NONE" /\ ToCharge(w, "claim")
              /\ UNCHANGED job
    /\ UNCHANGED <<payment, money, results, deadLetters, faults>>

\* Slip: the payment is entered as settled before the provider was asked.
ClaimPaymentSettled(w) ==
    /\ work[w].at = "claim"
    /\ payment' = [payment EXCEPT ![work[w].id] = IF @ = "NONE" THEN "SUCCEEDED" ELSE @]
    /\ ToCharge(w, "ask")
    /\ UNCHANGED <<job, money, results, deadLetters, faults>>

\* The insert; if another delivery was first the unique key rejects it, which is fine.
ClaimPayment(w) ==
    /\ work[w].at = "claim"
    /\ payment' = [payment EXCEPT ![work[w].id] = IF @ = "NONE" THEN "PENDING" ELSE @]
    /\ ToCharge(w, "ask")
    /\ UNCHANGED <<job, money, results, deadLetters, faults>>

ToRecord(w, outcome) ==
    Become(w, [at |-> "record", queue |-> "charge", id |-> work[w].id, outcome |-> outcome])

\* Slip: the provider is not told the idempotency key.
AskProviderWithoutKey(w) ==
    /\ work[w].at = "ask"
    /\ ToCharge(w, "decide")
    /\ UNCHANGED <<job, payment, money, results, deadLetters, faults>>

\* The provider looks the key up in its ledger and replays what it finds.
AskProvider(w) ==
    /\ work[w].at = "ask"
    /\ LET known == charge[work[w].id] IN
         IF known = "none" THEN ToCharge(w, "decide") ELSE ToRecord(w, known)
    /\ UNCHANGED <<job, payment, money, results, deadLetters, faults>>

\* Later it charges the card, or declines, and writes the outcome under the key.
ProviderDecides(w, outcome) ==
    /\ work[w].at = "decide"
    /\ LET r == work[w].id IN
         /\ charge' = [charge EXCEPT ![r] = outcome]
         /\ taken' = [taken EXCEPT ![r] = IF outcome = "succeeded" THEN @ + 1 ELSE @]
    /\ ToRecord(w, outcome)
    /\ UNCHANGED <<job, payment, refund, returned, results, deadLetters, faults>>

\* The update of the payment row does not look at the status it overwrites.
RecordOutcome(w) ==
    /\ work[w].at = "record"
    /\ LET status == IF work[w].outcome = "succeeded" THEN "SUCCEEDED" ELSE "FAILED" IN
         /\ payment' = [payment EXCEPT ![work[w].id] = status]
         /\ ToSend(w, status)
    /\ UNCHANGED <<job, money, results, deadLetters, faults>>

\* The job id names the booking and the type: each type is added once.
SendResult(w) ==
    /\ work[w].at = "send"
    /\ results' = results \cup {[id |-> work[w].id, type |-> work[w].type]}
    /\ Become(w, [at |-> "finish", queue |-> "charge", id |-> work[w].id])
    /\ UNCHANGED <<job, payment, money, deadLetters, faults>>

Bury(w) ==
    /\ work[w].at = "bury"
    /\ deadLetters' = deadLetters \cup {work[w].id}
    /\ Become(w, Idle)
    /\ UNCHANGED <<job, payment, money, results, faults>>

-----------------------------------------------------------------------------
\* Refunding.

ToRefund(w, at) == Become(w, [at |-> at, queue |-> "refund", id |-> work[w].id])

\* Slip: the payment is marked refunded first and the money given back afterwards.
FindPaidMarksFirst(w) ==
    /\ work[w].at = "findPaid"
    /\ LET paid == payment[work[w].id] = "SUCCEEDED" IN
         /\ ToRefund(w, IF paid THEN "askBack" ELSE "finish")
         /\ payment' = [payment EXCEPT ![work[w].id] = IF paid THEN "REFUNDED" ELSE @]
    /\ UNCHANGED <<job, money, results, deadLetters, faults>>

\* Only a payment that succeeded is refunded; anything else is left alone.
FindPaid(w) ==
    /\ work[w].at = "findPaid"
    /\ ToRefund(w, IF payment[work[w].id] = "SUCCEEDED" THEN "askBack" ELSE "finish")
    /\ UNCHANGED <<job, payment, money, results, deadLetters, faults>>

AskBack(w) ==
    /\ work[w].at = "askBack"
    /\ ToRefund(w, IF work[w].id \in refund THEN "recordBack" ELSE "payBack")
    /\ UNCHANGED <<job, payment, money, results, deadLetters, faults>>

PayBack(w) ==
    /\ work[w].at = "payBack"
    /\ refund' = refund \cup {work[w].id}
    /\ returned' = [returned EXCEPT ![work[w].id] = @ + 1]
    /\ ToRefund(w, "recordBack")
    /\ UNCHANGED <<job, payment, charge, taken, results, deadLetters, faults>>

RecordBack(w) ==
    /\ work[w].at = "recordBack"
    /\ payment' = [payment EXCEPT ![work[w].id] = "REFUNDED"]
    /\ ToRefund(w, "finish")
    /\ UNCHANGED <<job, money, results, deadLetters, faults>>

-----------------------------------------------------------------------------
\* A transient fault of the provider, or any call that fails: the handler throws.
Throws(w) ==
    /\ work[w] # Idle
    /\ work[w].at \notin {"finish", "bury"}
    /\ Fail(w)
    /\ UNCHANGED <<payment, money, results, deadLetters, faults>>

\* What a worker that neither dies nor throws goes on to do.
Proceed(w) ==
    \/ FindPayment(w) \/ ClaimPayment(w) \/ AskProvider(w)
    \/ \E outcome \in Outcome : ProviderDecides(w, outcome)
    \/ RecordOutcome(w) \/ SendResult(w) \/ Bury(w)
    \/ FindPaid(w) \/ AskBack(w) \/ PayBack(w) \/ RecordBack(w)
    \/ Finish(w)

Deliver(w) == \E q \in Queues, r \in Ids : TakeJob(w, q, r)

Next ==
    \/ \E R \in SUBSET Ids : \E F \in SUBSET R : ChargesQueued(R, F)
    \/ \E r \in Ids : RefundQueued(r)
    \/ \E w \in Workers : Deliver(w) \/ Proceed(w) \/ Throws(w) \/ Crash(w)
    \/ \E q \in Queues, r \in Ids : Stalled(q, r)

\* As long as every worker keeps its jobs to itself.
Spec == Init /\ [][Next]_vars

\* The library does not promise that: with lost locks two workers may have one job.
LosesLocks == \E q \in Queues, r \in Ids : LoseLock(q, r)
SpecLosingLocks == Init /\ [][Next \/ LosesLocks]_vars

\* Jobs that wait are delivered, stalled ones are found, and a handler goes on.
Fairness ==
    /\ \A w \in Workers : WF_vars(Deliver(w)) /\ WF_vars(Proceed(w))
    /\ \A q \in Queues, r \in Ids : WF_vars(Stalled(q, r))

FairSpec == Spec /\ Fairness

-----------------------------------------------------------------------------
(* Properties.                                                             *)

\* Where the money of a booking is.  Counts no promise allows map to a place no promise knows.
place ==
    [r \in Ids |->
        CASE charge[r] = "none" /\ taken[r] = 0                        -> "guest"
          [] charge[r] = "declined" /\ taken[r] = 0                    -> "declined"
          [] charge[r] = "succeeded" /\ taken[r] = 1 /\ returned[r] = 0 -> "host"
          [] charge[r] = "succeeded" /\ taken[r] = 1 /\ returned[r] = 1 -> "returned"
          [] OTHER                                                     -> "lost"]

told == [r \in Ids |-> {m.type : m \in {n \in results : n.id = r}}]

Promise == INSTANCE Account WITH money <- place

\* Unless two workers have one job at once, whatever throws, dies and is delivered again,
\* PaymentService.charge and refund with the provider's keys move the money at most once each
\* way, and a result is true when it is sent.
AccountPromise == Promise!Spec

\* The payments table follows the money: a row says SUCCEEDED, FAILED or REFUNDED only of
\* money that was taken, declined or given back, and it lags behind by what a crash cost.
RecordFollowsMoney ==
    \A r \in Ids :
        /\ payment[r] = "SUCCEEDED" => taken[r] = 1
        /\ payment[r] = "FAILED" => charge[r] = "declined"
        /\ payment[r] = "REFUNDED" => returned[r] = 1
        /\ charge[r] # "none" => payment[r] # "NONE"

\* A charge job that completed was answered, and one that failed left its evidence in the
\* dead-letter queue, unless it stalled once too often or the worker died burying it; no
\* job is buried while retries remain (ChargeProcessor.process and onFailed).
ChargesAreAccountedFor ==
    \A r \in Ids :
        LET j == job["charge"][r] IN
        /\ j.state = "completed" => \E m \in results : m.id = r
        /\ r \in deadLetters => j.state = "failed" /\ j.made = Attempts
        /\ j.state = "failed" =>
             \/ r \in deadLetters
             \/ \E w \in Workers : work[w].at = "bury" /\ work[w].id = r
             \/ j.stalls > MaxStalls
             \/ crashes > 0

\* Even with two workers on one job: a success is reported, and money given back, only for a
\* booking whose money was taken, so the API confirms nothing that was not charged.
SuccessesWereTaken ==
    \A r \in Ids : Told(r, "PaymentSucceeded") \/ returned[r] > 0 => taken[r] > 0

\* A payment's status only moves forward: a settled row is not reopened, a declined one is
\* not turned into a charge, and a refunded one stays refunded, although updates are blind.
PaymentMovesForward ==
    [][\A r \in Ids : payment'[r] # payment[r] =>
         <<payment[r], payment'[r]>> \in {<<"NONE", "PENDING">>, <<"PENDING", "SUCCEEDED">>,
                                          <<"PENDING", "FAILED">>, <<"SUCCEEDED", "REFUNDED">>}]_vars

\* Every charge that is queued ends: it completes with a result or fails for good.  So does every
\* refund, and one that completes gave the money back.  One booking stands for all: nothing tells
\* them apart.
JobsEnd ==
    LET r == CHOOSE r \in Ids : TRUE IN
        /\ job["charge"][r].state = "waiting"
              ~> job["charge"][r].state \in {"completed", "failed"}
        /\ job["refund"][r].state = "waiting"
              ~> \/ job["refund"][r].state = "completed" /\ returned[r] = 1
                 \/ job["refund"][r].state = "failed"

=============================================================================
