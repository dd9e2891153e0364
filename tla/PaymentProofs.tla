--------------------------- MODULE PaymentProofs ---------------------------
(***************************************************************************)
(* What TLC checks of Payment on small instances, proved for any number of *)
(* bookings and workers, any number of attempts and stalls and any bounds. *)
(***************************************************************************)
EXTENDS Payment, TLAPS

-----------------------------------------------------------------------------
(* The inductive invariants.                                               *)

\* A job that can still be worked on has attempts and stalls left, an active one has an owner,
\* and one that failed has used up the one or the other.
JobFits(q, j) ==
    /\ j.state \in {"waiting", "active"} => j.made < Allowed(q) /\ j.stalls <= MaxStalls
    /\ j.state = "active" <=> j.owner # Nobody
    /\ j.state = "failed" => j.made = Allowed(q) \/ j.stalls > MaxStalls

TypeInv == TypeOK /\ \A q \in Queues, r \in Ids : JobFits(q, job[q][r])

\* Even with two workers on one job: everything that leads to a report of a success, or to money
\* given back, comes after the money was taken.
TakenInv ==
    /\ \A r \in Ids :
          /\ charge[r] = "succeeded" => taken[r] > 0
          /\ payment[r] \in {"SUCCEEDED", "REFUNDED"} => taken[r] > 0
          /\ Told(r, "PaymentSucceeded") \/ returned[r] > 0 => taken[r] > 0
    /\ \A w \in Workers :
          /\ work[w].at = "record" /\ work[w].outcome = "succeeded" => taken[work[w].id] > 0
          /\ work[w].at = "send" /\ work[w].type = "PaymentSucceeded" => taken[work[w].id] > 0
          /\ work[w].at \in {"askBack", "payBack", "recordBack"} => taken[work[w].id] > 0

\* Nobody works on a job that was never added, and money is given back only if that was asked for.
JobsInv ==
    /\ \A w \in Workers : work[w] # Idle => job[work[w].queue][work[w].id].state # "none"
    /\ \A r \in Ids : returned[r] # 0 => job["refund"][r].state # "none"

\* A worker in the middle of a job holds its lock, and one that buries a job ended it.
LockFits(w) ==
    /\ work[w] # Idle /\ work[w].at # "bury" => Holds(w)
    /\ work[w].at = "bury" =>
          /\ job["charge"][work[w].id].state = "failed"
          /\ job["charge"][work[w].id].made = Attempts

LockInv == \A w \in Workers : LockFits(w)

\* What the row of a payment, the two ledgers and the results say of one another.
BooksFit(r) ==
    /\ charge[r] \in {"none", "declined"} => taken[r] = 0
    /\ charge[r] = "succeeded" => taken[r] = 1
    /\ r \in refund => returned[r] = 1 /\ payment[r] \in {"SUCCEEDED", "REFUNDED"}
    /\ r \notin refund => returned[r] = 0
    /\ payment[r] = "NONE" => charge[r] = "none"
    /\ payment[r] \in {"SUCCEEDED", "REFUNDED"} => charge[r] = "succeeded"
    /\ payment[r] = "FAILED" => charge[r] = "declined"
    /\ payment[r] = "REFUNDED" => r \in refund
    /\ Told(r, "PaymentSucceeded") => payment[r] \in {"SUCCEEDED", "REFUNDED"}
    /\ r \in refund => Told(r, "PaymentSucceeded")
    /\ job["refund"][r].state # "none" => Told(r, "PaymentSucceeded")

BooksInv == \A r \in Ids : BooksFit(r)

\* What a worker has read is still so: nobody else works on its job.
ReadFits(w) ==
    LET t == work[w]
        r == work[w].id
    IN  /\ t.at = "claim" => payment[r] = "NONE"
        /\ t.at \in {"ask", "decide", "record"} => payment[r] = "PENDING"
        /\ t.at = "decide" => charge[r] = "none"
        /\ t.at = "record" => charge[r] = t.outcome
        /\ t.at = "send" /\ t.type = "PaymentSucceeded"
             => payment[r] \in {"SUCCEEDED", "REFUNDED"}
        /\ t.at = "send" /\ t.type = "PaymentFailed" => payment[r] \in {"FAILED", "REFUNDED"}
        /\ t.at \in {"askBack", "payBack", "recordBack"} => payment[r] = "SUCCEEDED"
        /\ t.at = "payBack" => r \notin refund
        /\ t.at = "recordBack" => r \in refund

ReadInv == \A w \in Workers : ReadFits(w)

\* A worker that is done with a charge has sent a result, and what became of a charge job is on
\* record.
AnswersInv ==
    /\ ChargesAreAccountedFor
    /\ \A w \in Workers : work[w].at = "finish" /\ work[w].queue = "charge"
                            => \E m \in results : m.id = work[w].id

NextLosing == Next \/ LosesLocks

-----------------------------------------------------------------------------
(* Lemmas about work and jobs.                                             *)

\* The position of a worker tells what it holds.
LEMMA WorkShape ==
    ASSUME NEW t \in Work
    PROVE  /\ t # Idle => t.at # "idle" /\ t.queue \in Queues /\ t.id \in Ids
           /\ t = Idle => t.at = "idle"
           /\ t.at \in {"find", "claim", "ask", "decide", "record", "send", "bury"}
                => t.queue = "charge"
           /\ t.at \in {"findPaid", "askBack", "payBack", "recordBack"} => t.queue = "refund"
           /\ t.at = "record" => t.outcome \in Outcome
           /\ t.at = "send" => t.type \in ResultType
<1>1. t = Idle \/ t \in ChargeWork \/ t \in RecordWork \/ t \in SendWork \/ t \in BuryWork
        \/ t \in RefundWork \/ t \in FinishWork
  BY DEF Work
<1>2. CASE t = Idle
  BY <1>2 DEF Idle
<1>3. CASE t \in ChargeWork
  BY <1>3 DEF ChargeWork, Queues, Idle
<1>4. CASE t \in RecordWork
  BY <1>4 DEF RecordWork, Queues, Idle
<1>5. CASE t \in SendWork
  BY <1>5 DEF SendWork, Queues, Idle
<1>6. CASE t \in BuryWork
  BY <1>6 DEF BuryWork, Queues, Idle
<1>7. CASE t \in RefundWork
  BY <1>7 DEF RefundWork, Queues, Idle
<1>8. CASE t \in FinishWork
  BY <1>8 DEF FinishWork, Queues, Idle
<1>9. QED
  BY <1>1, <1>2, <1>3, <1>4, <1>5, <1>6, <1>7, <1>8

\* What a worker may go on to do.
LEMMA Targets ==
    ASSUME NEW r \in Ids
    PROVE  /\ Idle \in Work
           /\ \A at \in {"find", "claim", "ask", "decide", "bury", "finish"} :
                 [at |-> at, queue |-> "charge", id |-> r] \in Work
           /\ \A at \in {"findPaid", "askBack", "payBack", "recordBack", "finish"} :
                 [at |-> at, queue |-> "refund", id |-> r] \in Work
           /\ \A o \in Outcome :
                 [at |-> "record", queue |-> "charge", id |-> r, outcome |-> o] \in Work
           /\ \A t \in ResultType :
                 [at |-> "send", queue |-> "charge", id |-> r, type |-> t] \in Work
<1>1. \A at \in {"find", "claim", "ask", "decide"} :
         [at |-> at, queue |-> "charge", id |-> r] \in ChargeWork
  BY DEF ChargeWork
<1>2. /\ [at |-> "bury", queue |-> "charge", id |-> r] \in BuryWork
      /\ [at |-> "finish", queue |-> "charge", id |-> r] \in FinishWork
      /\ [at |-> "finish", queue |-> "refund", id |-> r] \in FinishWork
  BY DEF BuryWork, FinishWork, Queues
<1>3. \A at \in {"findPaid", "askBack", "payBack", "recordBack"} :
         [at |-> at, queue |-> "refund", id |-> r] \in RefundWork
  BY DEF RefundWork
<1>4. \A o \in Outcome :
         [at |-> "record", queue |-> "charge", id |-> r, outcome |-> o] \in RecordWork
  BY DEF RecordWork
<1>5. \A t \in ResultType :
         [at |-> "send", queue |-> "charge", id |-> r, type |-> t] \in SendWork
  BY DEF SendWork
<1>6. QED
  BY <1>1, <1>2, <1>3, <1>4, <1>5 DEF Work

\* A worker that goes on leaves the others alone.
LEMMA BecomeEffect ==
    ASSUME TypeOK, NEW w \in Workers, NEW t, Become(w, t)
    PROVE  /\ work'[w] = t
           /\ \A v \in Workers \ {w} : work'[v] = work[v]
           /\ t \in Work => work' \in [Workers -> Work]
BY DEF TypeOK, Become

-----------------------------------------------------------------------------
(* Types.                                                                  *)

\* One job is replaced by another that fits.
LEMMA JobEdit ==
    ASSUME TypeInv, NEW q \in Queues, NEW r \in Ids, NEW j \in Job, JobFits(q, j),
           job' = [job EXCEPT ![q][r] = j]
    PROVE  /\ job' \in [Queues -> [Ids -> Job]]
           /\ job'[q][r] = j
           /\ \A p \in Queues, s \in Ids : <<p, s>> # <<q, r>> => job'[p][s] = job[p][s]
           /\ \A p \in Queues, s \in Ids : JobFits(p, job'[p][s])
<1>1. job \in [Queues -> [Ids -> Job]]
  BY DEF TypeInv, TypeOK
<1>2. job' \in [Queues -> [Ids -> Job]]
  BY <1>1
<1>3. job'[q][r] = j
  BY <1>1
<1>4. ASSUME NEW p \in Queues, NEW s \in Ids, <<p, s>> # <<q, r>>
      PROVE  job'[p][s] = job[p][s]
  <2>1. CASE p # q
    BY <1>1, <2>1
  <2>2. CASE p = q /\ s # r
    BY <1>1, <2>2
  <2>3. QED
    BY <1>4, <2>1, <2>2
<1>5. ASSUME NEW p \in Queues, NEW s \in Ids
      PROVE  JobFits(p, job'[p][s])
  BY <1>3, <1>4 DEF TypeInv
<1>6. QED
  BY <1>2, <1>3, <1>4, <1>5

LEMMA AllowedTyped == \A q \in Queues : Allowed(q) \in 1 .. Attempts
BY AttemptsAssumption DEF Queues, Allowed

LEMMA InitTyped == Init => TypeInv
<1> SUFFICES ASSUME Init PROVE TypeInv
  OBVIOUS
<1>1. NoJob \in Job
  BY AttemptsAssumption DEF NoJob, Job, JobState
<1>2. job \in [Queues -> [Ids -> Job]]
  BY <1>1 DEF Init
<1>3. \A q \in Queues, r \in Ids : JobFits(q, job[q][r])
  BY DEF Init, JobFits, NoJob
<1>4. TypeOK
  BY <1>2, FaultsAssumption DEF Init, TypeOK, PaymentStatus, Work
<1>5. QED
  BY <1>3, <1>4 DEF TypeInv

\* Jobs are added where there were none.
LEMMA AddEffect ==
    ASSUME TypeInv, NEW q \in Queues, NEW R \in SUBSET Ids, NEW F \in SUBSET Ids,
           AddJobs(q, R, F)
    PROVE  /\ job' \in [Queues -> [Ids -> Job]]
           /\ \A p \in Queues, s \in Ids : JobFits(p, job'[p][s])
           /\ \A p \in Queues, s \in Ids :
                 \/ job'[p][s] = job[p][s]
                 \/ /\ p = q /\ s \in R /\ job[p][s].state = "none"
                    /\ job'[p][s].state = "waiting" /\ job'[p][s].owner = Nobody
<1>1. job \in [Queues -> [Ids -> Job]]
  BY DEF TypeInv, TypeOK
<1>2. ASSUME NEW b \in BOOLEAN
      PROVE  /\ NewJob(b) \in Job /\ NewJob(b).state = "waiting" /\ NewJob(b).owner = Nobody
             /\ JobFits(q, NewJob(b))
  <2>1. NewJob(b) \in Job
    BY AttemptsAssumption DEF NewJob, Job, JobState
  <2>2. JobFits(q, NewJob(b))
    BY AllowedTyped, AttemptsAssumption DEF NewJob, JobFits
  <2>3. QED
    BY <2>1, <2>2 DEF NewJob
<1>3. ASSUME NEW p \in Queues, NEW s \in Ids
      PROVE  \/ job'[p][s] = job[p][s]
             \/ /\ p = q /\ s \in R /\ job[p][s].state = "none"
                /\ \E b \in BOOLEAN : job'[p][s] = NewJob(b)
  <2>1. CASE p = q /\ s \in R /\ job[p][s].state = "none"
    <3>1. job'[p][s] = NewJob(s \notin F)
      BY <1>1, <2>1 DEF AddJobs, WithJobs
    <3>2. QED
      BY <2>1, <3>1
  <2>2. CASE ~(p = q /\ s \in R /\ job[p][s].state = "none")
    BY <1>1, <2>2 DEF AddJobs, WithJobs
  <2>3. QED
    BY <2>1, <2>2
<1>4. job' \in [Queues -> [Ids -> Job]]
  <2>1. [s \in Ids |-> IF s \in R /\ job[q][s].state = "none" THEN NewJob(s \notin F)
                     ELSE job[q][s]]
          \in [Ids -> Job]
    BY <1>1, <1>2
  <2>2. QED
    BY <1>1, <2>1 DEF AddJobs, WithJobs
<1>5. QED
  BY <1>2, <1>3, <1>4 DEF TypeInv

LEMMA TakeEffect ==
    ASSUME TypeInv, NEW w \in Workers, NEW q \in Queues, NEW r \in Ids, TakeJob(w, q, r)
    PROVE  /\ job' \in [Queues -> [Ids -> Job]]
           /\ \A p \in Queues, s \in Ids : JobFits(p, job'[p][s])
           /\ \A p \in Queues, s \in Ids : <<p, s>> # <<q, r>> => job'[p][s] = job[p][s]
           /\ job[q][r].state = "waiting"
           /\ job'[q][r].state = "active" /\ job'[q][r].owner = w
           /\ work' \in [Workers -> Work] /\ work[w] = Idle
           /\ work'[w] = [at |-> Start(q), queue |-> q, id |-> r]
           /\ \A v \in Workers \ {w} : work'[v] = work[v]
<1> DEFINE j == [job[q][r] EXCEPT !.state = "active", !.owner = w]
<1>1. job \in [Queues -> [Ids -> Job]] /\ job[q][r] \in Job /\ job[q][r].state = "waiting"
  BY DEF TypeInv, TypeOK, TakeJob
<1>2. j \in Job /\ j.state = "active" /\ j.owner = w /\ j.made = job[q][r].made
      /\ j.stalls = job[q][r].stalls
  BY <1>1 DEF Job, JobState
<1>3. JobFits(q, j)
  BY <1>1, <1>2, NobodyAssumption DEF TypeInv, JobFits
<1>4. job' = [job EXCEPT ![q][r] = j]
  BY <1>1 DEF TakeJob
<1>5. [at |-> Start(q), queue |-> q, id |-> r] \in Work
  BY Targets DEF Start, Queues
<1>6. Become(w, [at |-> Start(q), queue |-> q, id |-> r]) /\ work[w] = Idle
  BY DEF TakeJob
<1> HIDE DEF j
<1>7. /\ job' \in [Queues -> [Ids -> Job]] /\ job'[q][r] = j
      /\ \A p \in Queues, s \in Ids : JobFits(p, job'[p][s])
      /\ \A p \in Queues, s \in Ids : <<p, s>> # <<q, r>> => job'[p][s] = job[p][s]
  BY <1>2, <1>3, <1>4, JobEdit, ZenonT(30)
<1>8. /\ work' \in [Workers -> Work]
      /\ work'[w] = [at |-> Start(q), queue |-> q, id |-> r]
      /\ \A v \in Workers \ {w} : work'[v] = work[v]
  BY <1>5, <1>6, BecomeEffect DEF TypeInv
<1>9. QED
  BY <1>1, <1>2, <1>6, <1>7, <1>8

\* A job that loses its lock keeps the rest of its record.
LEMMA LeaveEffect ==
    ASSUME TypeInv, NEW q \in Queues, NEW r \in Ids, NEW state \in JobState \ {"active"},
           NEW made \in 0 .. Attempts, NEW stalls \in 0 .. MaxStalls + 1,
           state = "waiting" => made < Allowed(q) /\ stalls <= MaxStalls,
           state = "failed" => made = Allowed(q) \/ stalls > MaxStalls,
           Leave(q, r, state, made, stalls)
    PROVE  /\ job' \in [Queues -> [Ids -> Job]]
           /\ \A p \in Queues, s \in Ids : JobFits(p, job'[p][s])
           /\ \A p \in Queues, s \in Ids : <<p, s>> # <<q, r>> => job'[p][s] = job[p][s]
           /\ job'[q][r].state = state /\ job'[q][r].owner = Nobody
           /\ job'[q][r].made = made /\ job'[q][r].stalls = stalls
<1> DEFINE j == [job[q][r] EXCEPT !.owner = Nobody, !.state = state, !.made = made,
                                  !.stalls = stalls]
<1>1. job \in [Queues -> [Ids -> Job]] /\ job[q][r] \in Job
  BY DEF TypeInv, TypeOK
<1>2. /\ j \in Job /\ j.state = state /\ j.owner = Nobody /\ j.made = made
      /\ j.stalls = stalls
  BY <1>1 DEF Job
<1>3. JobFits(q, j)
  BY <1>2 DEF JobFits
<1>4. job' = [job EXCEPT ![q][r] = j]
  BY DEF Leave
<1> HIDE DEF j
<1>5. /\ job' \in [Queues -> [Ids -> Job]] /\ job'[q][r] = j
      /\ \A p \in Queues, s \in Ids : JobFits(p, job'[p][s])
      /\ \A p \in Queues, s \in Ids : <<p, s>> # <<q, r>> => job'[p][s] = job[p][s]
  BY <1>2, <1>3, <1>4, JobEdit, ZenonT(30)
<1>6. QED
  BY <1>2, <1>5

\* A worker that holds the lock of its job has an active job with attempts and stalls left.
LEMMA HeldJob ==
    ASSUME TypeInv, NEW w \in Workers, work[w] # Idle,
           NEW q, NEW r, q = work[w].queue, r = work[w].id
    PROVE  /\ q \in Queues /\ r \in Ids
           /\ Allowed(q) \in 1 .. Attempts /\ Attempts \in Nat /\ MaxStalls \in Nat
           /\ job[q][r].made \in 0 .. Attempts /\ job[q][r].stalls \in 0 .. MaxStalls + 1
           /\ Made(w) = job[q][r].made + 1
           /\ Holds(w) <=> job[q][r].owner = w
           /\ Holds(w) => /\ job[q][r].state = "active"
                          /\ job[q][r].made < Allowed(q) /\ job[q][r].stalls <= MaxStalls
<1>1. q \in Queues /\ r \in Ids
  BY WorkShape DEF TypeInv, TypeOK
<1>2. job[q][r] \in Job /\ JobFits(q, job[q][r])
  BY <1>1 DEF TypeInv, TypeOK
<1>3. Allowed(q) \in 1 .. Attempts /\ Attempts \in Nat /\ MaxStalls \in Nat
  BY <1>1, AllowedTyped, AttemptsAssumption
<1>4. Holds(w) <=> job[q][r].owner = w
  BY DEF Holds
<1>5. Made(w) = job[q][r].made + 1
  BY DEF Made
<1>6. QED
  BY <1>1, <1>2, <1>3, <1>4, <1>5, NobodyAssumption DEF JobFits, Job

\* A worker that holds the lock of its job completes it.
LEMMA FinishEffect ==
    ASSUME TypeInv, NEW w \in Workers, Finish(w),
           NEW q, NEW r, q = work[w].queue, r = work[w].id
    PROVE  /\ q \in Queues /\ r \in Ids
           /\ job' \in [Queues -> [Ids -> Job]]
           /\ \A p \in Queues, s \in Ids : JobFits(p, job'[p][s])
           /\ \A p \in Queues, s \in Ids : <<p, s>> # <<q, r>> => job'[p][s] = job[p][s]
           /\ ~Holds(w) => job' = job
           /\ Holds(w) => /\ job[q][r].state = "active" /\ job[q][r].owner = w
                          /\ job'[q][r].state = "completed" /\ job'[q][r].owner = Nobody
           /\ work' \in [Workers -> Work] /\ work'[w] = Idle
           /\ \A v \in Workers \ {w} : work'[v] = work[v]
<1>1. work[w] \in Work /\ work[w].at = "finish"
  BY DEF TypeInv, TypeOK, Finish
<1>2. work[w] # Idle
  BY <1>1 DEF Idle
<1>3. Become(w, Idle) /\ Idle \in Work
  BY DEF Finish, Work
<1>4. /\ work' \in [Workers -> Work] /\ work'[w] = Idle
      /\ \A v \in Workers \ {w} : work'[v] = work[v]
  BY <1>3, BecomeEffect DEF TypeInv
<1>5. CASE Holds(w)
  <2>1. Leave(q, r, "completed", job[q][r].made, job[q][r].stalls)
    BY <1>5 DEF Finish
  <2>2. QED
    BY <1>2, <1>4, <1>5, <2>1, HeldJob, LeaveEffect DEF JobState
<1>6. CASE ~Holds(w)
  BY <1>2, <1>4, <1>6, HeldJob DEF Finish, TypeInv, TypeOK
<1>7. QED
  BY <1>5, <1>6

\* A worker that throws gives its job back or ends it; the end of a charge is buried next.
LEMMA FailEffect ==
    ASSUME TypeInv, NEW w \in Workers, work[w] # Idle, Fail(w),
           NEW q, NEW r, q = work[w].queue, r = work[w].id
    PROVE  /\ q \in Queues /\ r \in Ids
           /\ job' \in [Queues -> [Ids -> Job]]
           /\ \A p \in Queues, s \in Ids : JobFits(p, job'[p][s])
           /\ \A p \in Queues, s \in Ids : <<p, s>> # <<q, r>> => job'[p][s] = job[p][s]
           /\ ~Holds(w) => job' = job /\ work'[w] = Idle
           /\ Holds(w) =>
                 /\ job[q][r].state = "active" /\ job[q][r].owner = w
                 /\ job'[q][r].owner = Nobody
                 /\ \/ job'[q][r].state = "waiting" /\ work'[w] = Idle
                    \/ job'[q][r].state = "failed" /\ q = "refund" /\ work'[w] = Idle
                    \/ /\ job'[q][r].state = "failed" /\ q = "charge"
                       /\ job'[q][r].made = Attempts
                       /\ work'[w] = [at |-> "bury", queue |-> "charge", id |-> r]
           /\ work' \in [Workers -> Work]
           /\ \A v \in Workers \ {w} : work'[v] = work[v]
<1>1. q \in Queues /\ r \in Ids
  BY HeldJob
<1>2. Idle \in Work /\ (q = "charge" => [at |-> "bury", queue |-> q, id |-> r] \in Work)
  BY <1>1, Targets
<1>3. CASE ~Holds(w)
  <2>1. Become(w, Idle) /\ UNCHANGED job
    BY <1>3 DEF Fail, FailWith
  <2>2. /\ work' \in [Workers -> Work] /\ work'[w] = Idle
        /\ \A v \in Workers \ {w} : work'[v] = work[v]
    BY <1>2, <2>1, BecomeEffect DEF TypeInv
  <2>3. QED
    BY <1>1, <1>3, <2>1, <2>2 DEF TypeInv, TypeOK
<1>4. CASE Holds(w) /\ Made(w) < Allowed(q)
  <2>1. Leave(q, r, "waiting", Made(w), job[q][r].stalls) /\ Become(w, Idle)
    BY <1>4 DEF Fail, FailWith
  <2>2. Made(w) \in 0 .. Attempts
    BY <1>4, HeldJob
  <2>3. /\ work' \in [Workers -> Work] /\ work'[w] = Idle
        /\ \A v \in Workers \ {w} : work'[v] = work[v]
    BY <1>2, <2>1, BecomeEffect DEF TypeInv
  <2>4. /\ job' \in [Queues -> [Ids -> Job]]
        /\ \A p \in Queues, s \in Ids : JobFits(p, job'[p][s])
        /\ \A p \in Queues, s \in Ids : <<p, s>> # <<q, r>> => job'[p][s] = job[p][s]
        /\ job'[q][r].state = "waiting" /\ job'[q][r].owner = Nobody
    BY <1>4, <2>1, <2>2, HeldJob, LeaveEffect DEF JobState
  <2>5. QED
    BY <1>4, <2>3, <2>4, HeldJob
<1>5. CASE Holds(w) /\ ~(Made(w) < Allowed(q))
  <2>1. /\ Leave(q, r, "failed", Made(w), job[q][r].stalls)
        /\ Become(w, IF q = "charge" THEN [at |-> "bury", queue |-> q, id |-> r] ELSE Idle)
    BY <1>5 DEF Fail, FailWith
  <2>2. Made(w) \in 0 .. Attempts /\ Made(w) = Allowed(q)
    BY <1>5, HeldJob
  <2>3. /\ work' \in [Workers -> Work]
        /\ work'[w] = IF q = "charge" THEN [at |-> "bury", queue |-> q, id |-> r] ELSE Idle
        /\ \A v \in Workers \ {w} : work'[v] = work[v]
    BY <1>2, <2>1, BecomeEffect DEF TypeInv
  <2>4. /\ job' \in [Queues -> [Ids -> Job]]
        /\ \A p \in Queues, s \in Ids : JobFits(p, job'[p][s])
        /\ \A p \in Queues, s \in Ids : <<p, s>> # <<q, r>> => job'[p][s] = job[p][s]
        /\ job'[q][r].state = "failed" /\ job'[q][r].owner = Nobody
        /\ job'[q][r].made = Made(w)
    BY <1>5, <2>1, <2>2, HeldJob, LeaveEffect DEF JobState
  <2>5. QED
    BY <1>1, <1>5, <2>2, <2>3, <2>4, HeldJob DEF Queues, Allowed
<1>6. QED
  BY <1>3, <1>4, <1>5

\* A job whose lock ran out waits again, or has stalled once too often.
LEMMA ReleaseEffect ==
    ASSUME TypeInv, NEW q \in Queues, NEW r \in Ids, job[q][r].state = "active", Release(q, r)
    PROVE  /\ job' \in [Queues -> [Ids -> Job]]
           /\ \A p \in Queues, s \in Ids : JobFits(p, job'[p][s])
           /\ \A p \in Queues, s \in Ids : <<p, s>> # <<q, r>> => job'[p][s] = job[p][s]
           /\ job'[q][r].owner = Nobody
           /\ \/ job'[q][r].state = "waiting"
              \/ job'[q][r].state = "failed" /\ job'[q][r].stalls > MaxStalls
<1> DEFINE stalls == job[q][r].stalls
           made == job[q][r].made
           state == IF stalls < MaxStalls THEN "waiting" ELSE "failed"
<1>1. job[q][r] \in Job /\ JobFits(q, job[q][r])
  BY DEF TypeInv, TypeOK
<1>2. /\ stalls \in Nat /\ stalls <= MaxStalls /\ MaxStalls \in Nat
      /\ made \in 0 .. Attempts /\ made < Allowed(q)
  BY <1>1, AttemptsAssumption DEF JobFits, Job
<1>3. Leave(q, r, state, made, stalls + 1)
  BY DEF Release
<1>4. state \in JobState \ {"active"} /\ stalls + 1 \in 0 .. MaxStalls + 1
  BY <1>2 DEF JobState
<1>5. (state = "waiting" => stalls + 1 <= MaxStalls) /\ (state = "failed" => stalls + 1 > MaxStalls)
  BY <1>2
<1>6. state \in {"waiting", "failed"}
  OBVIOUS
<1> HIDE DEF state, stalls, made
<1>7. QED
  BY <1>2, <1>3, <1>4, <1>5, <1>6, LeaveEffect

LEMMA TypesStep == TypeInv /\ [NextLosing]_vars => TypeInv'
<1> SUFFICES ASSUME TypeInv, [NextLosing]_vars PROVE TypeInv'
  OBVIOUS
<1> USE DEF money, faults
<1>1. ASSUME NEW R \in SUBSET Ids, NEW F \in SUBSET R, ChargesQueued(R, F) PROVE TypeInv'
  <2>1. AddJobs("charge", R, F) /\ "charge" \in Queues /\ F \in SUBSET Ids
    BY <1>1 DEF ChargesQueued, Queues
  <2>2. /\ job' \in [Queues -> [Ids -> Job]]
        /\ \A p \in Queues, s \in Ids : JobFits(p, job'[p][s])
    BY <2>1, AddEffect
  <2>3. QED
    BY <2>1, <2>2 DEF AddJobs, TypeInv, TypeOK
<1>2. ASSUME NEW r \in Ids, RefundQueued(r) PROVE TypeInv'
  <2>1. AddJobs("refund", {r}, {}) /\ "refund" \in Queues
    BY <1>2 DEF RefundQueued, Queues
  <2>2. /\ job' \in [Queues -> [Ids -> Job]]
        /\ \A p \in Queues, s \in Ids : JobFits(p, job'[p][s])
    BY <2>1, AddEffect
  <2>3. QED
    BY <2>1, <2>2 DEF AddJobs, TypeInv, TypeOK
<1>3. ASSUME NEW w \in Workers, NEW q \in Queues, NEW r \in Ids, TakeJob(w, q, r)
      PROVE  TypeInv'
  BY <1>3, TakeEffect DEF TakeJob, TypeInv, TypeOK
<1>4. ASSUME NEW w \in Workers, work[w] # Idle, Fail(w),
             UNCHANGED <<payment, money, results, deadLetters, faults>>
      PROVE  TypeInv'
  BY <1>4, FailEffect DEF TypeInv, TypeOK
<1>5. ASSUME NEW w \in Workers, Proceed(w) PROVE TypeInv'
  <2> DEFINE r == work[w].id
  <2>1. work[w] # Idle /\ r \in Ids /\ work[w] \in Work
    <3>1. work[w].at # "idle"
      BY <1>5 DEF Proceed, FindPayment, ClaimPayment, AskProvider, ProviderDecides,
                  RecordOutcome, SendResult, Bury, FindPaid, AskBack, PayBack, RecordBack, Finish
    <3>2. QED
      BY <3>1, WorkShape DEF TypeInv, TypeOK
  <2>2. CASE FindPayment(w)
    <3>1. CASE Fail(w)
      BY <2>1, <2>2, <3>1, <1>4 DEF FindPayment
    <3>2. CASE ~Fail(w)
      <4>1. /\ UNCHANGED <<job, payment, money, results, deadLetters, faults>>
            /\ \/ Become(w, [at |-> "send", queue |-> "charge", id |-> r,
                             type |-> TypeOf(payment[r])])
               \/ Become(w, [at |-> "ask", queue |-> "charge", id |-> r])
               \/ Become(w, [at |-> "claim", queue |-> "charge", id |-> r])
        BY <2>2, <3>2 DEF FindPayment, ToSend, ToCharge
      <4>2. TypeOf(payment[r]) \in ResultType
        BY DEF TypeOf, ResultType
      <4>3. \E t \in Work : Become(w, t)
        BY <2>1, <4>1, <4>2, Targets, Zenon
      <4>4. work' \in [Workers -> Work]
        BY <4>3, BecomeEffect DEF TypeInv
      <4>5. QED
        BY <4>1, <4>4 DEF TypeInv, TypeOK
    <3>3. QED
      BY <3>1, <3>2
  <2>3. CASE ClaimPayment(w)
    <3>1. work' \in [Workers -> Work]
      BY <2>1, <2>3, Targets, BecomeEffect DEF ClaimPayment, ToCharge, TypeInv
    <3>2. payment' \in [Ids -> PaymentStatus]
      BY <2>3 DEF ClaimPayment, TypeInv, TypeOK, PaymentStatus
    <3>3. QED
      BY <2>3, <3>1, <3>2 DEF ClaimPayment, TypeInv, TypeOK
  <2>4. CASE AskProvider(w)
    <3>1. charge[r] # "none" => charge[r] \in Outcome
      BY <2>1 DEF TypeInv, TypeOK
    <3>2. \/ Become(w, [at |-> "decide", queue |-> "charge", id |-> r])
          \/ /\ charge[r] \in Outcome
             /\ Become(w, [at |-> "record", queue |-> "charge", id |-> r, outcome |-> charge[r]])
      BY <2>4, <3>1 DEF AskProvider, ToCharge, ToRecord
    <3>3. \E t \in Work : Become(w, t)
      BY <2>1, <3>2, Targets, Zenon
    <3>4. work' \in [Workers -> Work]
      BY <3>3, BecomeEffect DEF TypeInv
    <3>5. QED
      BY <2>4, <3>4 DEF AskProvider, TypeInv, TypeOK
  <2>5. ASSUME NEW o \in Outcome, ProviderDecides(w, o) PROVE TypeInv'
    <3>1. work' \in [Workers -> Work]
      BY <2>1, <2>5, Targets, BecomeEffect DEF ProviderDecides, ToRecord, TypeInv
    <3>2. charge' \in [Ids -> Outcome \cup {"none"}] /\ taken' \in [Ids -> Nat]
      BY <2>1, <2>5 DEF ProviderDecides, TypeInv, TypeOK
    <3>3. QED
      BY <2>5, <3>1, <3>2 DEF ProviderDecides, TypeInv, TypeOK
  <2>6. CASE RecordOutcome(w)
    <3>1. ASSUME NEW status \in {"SUCCEEDED", "FAILED"}
          PROVE  status \in PaymentStatus /\ TypeOf(status) \in ResultType
      BY DEF TypeOf, ResultType, PaymentStatus
    <3>2. PICK status \in {"SUCCEEDED", "FAILED"} :
             /\ payment' = [payment EXCEPT ![r] = status]
             /\ Become(w, [at |-> "send", queue |-> "charge", id |-> r, type |-> TypeOf(status)])
      BY <2>6 DEF RecordOutcome, ToSend
    <3>3. \E t \in Work : Become(w, t)
      BY <2>1, <3>1, <3>2, Targets, Zenon
    <3>4. work' \in [Workers -> Work]
      BY <3>3, BecomeEffect DEF TypeInv
    <3>5. payment' \in [Ids -> PaymentStatus]
      BY <3>1, <3>2 DEF TypeInv, TypeOK
    <3>6. QED
      BY <2>6, <3>4, <3>5 DEF RecordOutcome, TypeInv, TypeOK
  <2>7. CASE SendResult(w)
    <3>1. work' \in [Workers -> Work]
      BY <2>1, <2>7, Targets, BecomeEffect DEF SendResult, TypeInv
    <3>2. [id |-> r, type |-> work[w].type] \in Result
      BY <2>1, <2>7, WorkShape DEF SendResult, Result
    <3>3. QED
      BY <2>7, <3>1, <3>2 DEF SendResult, TypeInv, TypeOK
  <2>8. CASE Bury(w)
    <3>1. work' \in [Workers -> Work]
      BY <2>1, <2>8, Targets, BecomeEffect DEF Bury, TypeInv
    <3>2. QED
      BY <2>1, <2>8, <3>1 DEF Bury, TypeInv, TypeOK
  <2>9. CASE FindPaid(w) \/ AskBack(w)
    <3>1. \E at \in {"askBack", "payBack", "recordBack", "finish"} :
             Become(w, [at |-> at, queue |-> "refund", id |-> r])
      BY <2>9 DEF FindPaid, AskBack, ToRefund
    <3>2. \E t \in Work : Become(w, t)
      BY <2>1, <3>1, Targets
    <3>3. work' \in [Workers -> Work]
      BY <3>2, BecomeEffect DEF TypeInv
    <3>4. QED
      BY <2>9, <3>3 DEF FindPaid, AskBack, TypeInv, TypeOK
  <2>10. CASE PayBack(w)
    <3>1. work' \in [Workers -> Work]
      BY <2>1, <2>10, Targets, BecomeEffect DEF PayBack, ToRefund, TypeInv
    <3>2. refund' \subseteq Ids /\ returned' \in [Ids -> Nat]
      BY <2>1, <2>10 DEF PayBack, TypeInv, TypeOK
    <3>3. QED
      BY <2>10, <3>1, <3>2 DEF PayBack, TypeInv, TypeOK
  <2>11. CASE RecordBack(w)
    <3>1. work' \in [Workers -> Work]
      BY <2>1, <2>11, Targets, BecomeEffect DEF RecordBack, ToRefund, TypeInv
    <3>2. payment' \in [Ids -> PaymentStatus]
      BY <2>11 DEF RecordBack, TypeInv, TypeOK, PaymentStatus
    <3>3. QED
      BY <2>11, <3>1, <3>2 DEF RecordBack, TypeInv, TypeOK
  <2>12. CASE Finish(w)
    BY <2>12, FinishEffect DEF Finish, TypeInv, TypeOK
  <2>13. QED
    BY <1>5, <2>2, <2>3, <2>4, <2>5, <2>6, <2>7, <2>8, <2>9, <2>10, <2>11, <2>12 DEF Proceed
<1>6. ASSUME NEW w \in Workers, Crash(w) PROVE TypeInv'
  <2>1. work' \in [Workers -> Work]
    BY <1>6, BecomeEffect DEF Crash, TypeInv, Work
  <2>2. crashes' \in 0 .. MaxCrashes
    BY <1>6, FaultsAssumption DEF Crash, TypeInv, TypeOK
  <2>3. QED
    BY <1>6, <2>1, <2>2 DEF Crash, TypeInv, TypeOK
<1>7. ASSUME NEW q \in Queues, NEW r \in Ids, Stalled(q, r) PROVE TypeInv'
  BY <1>7, ReleaseEffect DEF Stalled, TypeInv, TypeOK
<1>8. ASSUME NEW q \in Queues, NEW r \in Ids, LoseLock(q, r) PROVE TypeInv'
  <2>1. lostLocks' \in 0 .. MaxLostLocks
    BY <1>8, FaultsAssumption DEF LoseLock, TypeInv, TypeOK
  <2>2. QED
    BY <1>8, <2>1, ReleaseEffect DEF LoseLock, TypeInv, TypeOK
<1>9. CASE UNCHANGED vars
  BY <1>9 DEF vars, TypeInv, TypeOK
<1>10. QED
  BY <1>1, <1>2, <1>3, <1>4, <1>5, <1>6, <1>7, <1>8, <1>9
     DEF NextLosing, Next, LosesLocks, Deliver, Throws

-----------------------------------------------------------------------------
(* Money that is reported was taken.                                       *)

\* Steps that touch no book, after which no worker is about to.
LEMMA TakenQuiet ==
    ASSUME TypeInv, TakenInv, UNCHANGED <<payment, charge, taken, returned, results>>,
           \A v \in Workers :
              \/ work'[v] = work[v]
              \/ work'[v].at \notin {"record", "send", "askBack", "payBack", "recordBack"}
    PROVE  TakenInv'
<1>1. \A r \in Ids :
          /\ charge'[r] = "succeeded" => taken'[r] > 0
          /\ payment'[r] \in {"SUCCEEDED", "REFUNDED"} => taken'[r] > 0
          /\ Told(r, "PaymentSucceeded")' \/ returned'[r] > 0 => taken'[r] > 0
  BY DEF TakenInv, Told
<1>2. ASSUME NEW v \in Workers
      PROVE  /\ work'[v].at = "record" /\ work'[v].outcome = "succeeded"
                  => taken'[work'[v].id] > 0
             /\ work'[v].at = "send" /\ work'[v].type = "PaymentSucceeded"
                  => taken'[work'[v].id] > 0
             /\ work'[v].at \in {"askBack", "payBack", "recordBack"} => taken'[work'[v].id] > 0
  BY DEF TakenInv
<1>3. QED
  BY <1>1, <1>2 DEF TakenInv

LEMMA TakenStep == TypeInv /\ TakenInv /\ [NextLosing]_vars => TakenInv'
<1> SUFFICES ASSUME TypeInv, TakenInv, [NextLosing]_vars PROVE TakenInv'
  OBVIOUS
<1> USE DEF money, faults
<1>1. ASSUME NEW R \in SUBSET Ids, NEW F \in SUBSET R, ChargesQueued(R, F) PROVE TakenInv'
  BY <1>1, TakenQuiet DEF ChargesQueued, AddJobs
<1>2. ASSUME NEW r \in Ids, RefundQueued(r) PROVE TakenInv'
  BY <1>2, TakenQuiet DEF RefundQueued, AddJobs
<1>3. ASSUME NEW w \in Workers, NEW q \in Queues, NEW r \in Ids, TakeJob(w, q, r)
      PROVE  TakenInv'
  <2>1. /\ work'[w] = [at |-> Start(q), queue |-> q, id |-> r]
        /\ \A v \in Workers \ {w} : work'[v] = work[v]
    BY <1>3, TakeEffect
  <2>2. work'[w].at \notin {"record", "send", "askBack", "payBack", "recordBack"}
    BY <2>1 DEF Start
  <2>3. QED
    BY <1>3, <2>1, <2>2, TakenQuiet DEF TakeJob
<1>4. ASSUME NEW w \in Workers, work[w] # Idle, Fail(w),
             UNCHANGED <<payment, money, results, deadLetters, faults>>
      PROVE  TakenInv'
  <2>1. /\ \/ work'[w] = Idle
           \/ work'[w] = [at |-> "bury", queue |-> "charge", id |-> work[w].id]
        /\ \A v \in Workers \ {w} : work'[v] = work[v]
    BY <1>4, FailEffect
  <2>2. work'[w].at \in {"idle", "bury"}
    BY <2>1 DEF Idle
  <2>3. QED
    BY <1>4, <2>1, <2>2, TakenQuiet
<1>5. ASSUME NEW w \in Workers, Proceed(w) PROVE TakenInv'
  <2> DEFINE r == work[w].id
  <2>1. work[w] # Idle /\ r \in Ids /\ work[w] \in Work
    <3>1. work[w].at # "idle"
      BY <1>5 DEF Proceed, FindPayment, ClaimPayment, AskProvider, ProviderDecides,
                  RecordOutcome, SendResult, Bury, FindPaid, AskBack, PayBack, RecordBack, Finish
    <3>2. QED
      BY <3>1, WorkShape DEF TypeInv, TypeOK
  <2>2. CASE FindPayment(w)
    <3>1. CASE Fail(w)
      BY <2>1, <2>2, <3>1, <1>4 DEF FindPayment
    <3>2. CASE ~Fail(w)
      <4>1. /\ UNCHANGED <<job, payment, money, results, deadLetters, faults>>
            /\ \/ Become(w, [at |-> "send", queue |-> "charge", id |-> r,
                             type |-> TypeOf(payment[r])])
               \/ Become(w, [at |-> "ask", queue |-> "charge", id |-> r])
               \/ Become(w, [at |-> "claim", queue |-> "charge", id |-> r])
        BY <2>2, <3>2 DEF FindPayment, ToSend, ToCharge
      <4>2. TypeOf(payment[r]) = "PaymentSucceeded" => payment[r] = "SUCCEEDED"
        BY DEF TypeOf
      <4>3. /\ work'[w].at \in {"send", "ask", "claim"} /\ work'[w].id = r
            /\ work'[w].at = "send" => work'[w].type = TypeOf(payment[r])
            /\ \A v \in Workers \ {w} : work'[v] = work[v]
        BY <4>1, BecomeEffect DEF TypeInv
      <4>4. QED
        BY <2>1, <4>1, <4>2, <4>3 DEF TakenInv, Told
    <3>3. QED
      BY <3>1, <3>2
  <2>3. CASE ClaimPayment(w)
    <3>1. \A s \in Ids : payment'[s] = payment[s] \/ payment'[s] = "PENDING"
      BY <2>3 DEF ClaimPayment, TypeInv, TypeOK
    <3>2. work'[w].at = "ask" /\ \A v \in Workers \ {w} : work'[v] = work[v]
      BY <2>3, BecomeEffect DEF ClaimPayment, ToCharge, TypeInv
    <3>3. QED
      BY <2>3, <3>1, <3>2 DEF ClaimPayment, TakenInv, Told
  <2>4. CASE AskProvider(w)
    <3>1. \/ work'[w].at = "decide"
          \/ work'[w].at = "record" /\ work'[w].outcome = charge[r] /\ work'[w].id = r
      BY <2>4, BecomeEffect DEF AskProvider, ToCharge, ToRecord, TypeInv
    <3>2. \A v \in Workers \ {w} : work'[v] = work[v]
      BY <2>4, BecomeEffect DEF AskProvider, ToCharge, ToRecord, TypeInv
    <3>3. QED
      BY <2>1, <2>4, <3>1, <3>2 DEF AskProvider, TakenInv, Told
  <2>5. ASSUME NEW o \in Outcome, ProviderDecides(w, o) PROVE TakenInv'
    <3>1. /\ work'[w] = [at |-> "record", queue |-> "charge", id |-> r, outcome |-> o]
          /\ \A v \in Workers \ {w} : work'[v] = work[v]
      BY <2>5, BecomeEffect DEF ProviderDecides, ToRecord, TypeInv
    <3>2. \A s \in Ids : taken[s] > 0 => taken'[s] > 0
      BY <2>1, <2>5 DEF ProviderDecides, TypeInv, TypeOK
    <3>3. o = "succeeded" => taken'[r] > 0
      BY <2>1, <2>5 DEF ProviderDecides, TypeInv, TypeOK
    <3>4. \A s \in Ids : charge'[s] = charge[s] \/ (s = r /\ charge'[s] = o)
      BY <2>1, <2>5 DEF ProviderDecides, TypeInv, TypeOK
    <3>5. \A v \in Workers : v # w /\ work[v] # Idle => work[v].id \in Ids
      BY WorkShape DEF TypeInv, TypeOK
    <3>6. \A v \in Workers : work[v].at # "idle" => work[v] # Idle
      BY DEF Idle
    <3>7. UNCHANGED <<payment, results, returned>>
      BY <2>5 DEF ProviderDecides
    <3>8. QED
      BY <2>1, <3>1, <3>2, <3>3, <3>4, <3>5, <3>6, <3>7 DEF TakenInv, Told
  <2>6. CASE RecordOutcome(w)
    <3>1. /\ UNCHANGED <<charge, taken, returned, results>>
          /\ \A s \in Ids : \/ payment'[s] = payment[s]
                            \/ s = r /\ (payment'[s] = "FAILED" \/ work[w].outcome = "succeeded")
          /\ work'[w].at = "send" /\ work'[w].id = r
          /\ work'[w].type = "PaymentSucceeded" => work[w].outcome = "succeeded"
          /\ \A v \in Workers \ {w} : work'[v] = work[v]
      BY <2>1, <2>6, BecomeEffect DEF RecordOutcome, ToSend, TypeOf, TypeInv, TypeOK
    <3>2. work[w].at = "record"
      BY <2>6 DEF RecordOutcome
    <3>3. QED
      BY <2>1, <3>1, <3>2 DEF TakenInv, Told
  <2>7. CASE SendResult(w)
    <3>1. /\ work[w].at = "send" /\ work'[w].at = "finish"
          /\ \A v \in Workers \ {w} : work'[v] = work[v]
          /\ UNCHANGED <<payment, charge, taken, returned>>
      BY <2>7, BecomeEffect DEF SendResult, TypeInv
    <3>2. \A s \in Ids : Told(s, "PaymentSucceeded")' =>
             \/ Told(s, "PaymentSucceeded")
             \/ s = r /\ work[w].type = "PaymentSucceeded"
      BY <2>7 DEF SendResult, Told
    <3>3. QED
      BY <2>1, <3>1, <3>2 DEF TakenInv
  <2>8. CASE Bury(w)
    BY <2>8, TakenQuiet, BecomeEffect DEF Bury, Idle, TypeInv
  <2>9. CASE FindPaid(w)
    <3>1. /\ work'[w].id = r /\ work'[w].at \in {"askBack", "finish"}
          /\ work'[w].at = "askBack" => payment[r] = "SUCCEEDED"
          /\ \A v \in Workers \ {w} : work'[v] = work[v]
          /\ UNCHANGED <<payment, charge, taken, returned, results>>
      BY <2>9, BecomeEffect DEF FindPaid, ToRefund, TypeInv
    <3>2. QED
      BY <2>1, <3>1 DEF TakenInv, Told
  <2>10. CASE AskBack(w)
    <3>1. /\ work[w].at = "askBack"
          /\ work'[w].id = r /\ work'[w].at \in {"payBack", "recordBack"}
          /\ \A v \in Workers \ {w} : work'[v] = work[v]
          /\ UNCHANGED <<payment, charge, taken, returned, results>>
      BY <2>10, BecomeEffect DEF AskBack, ToRefund, TypeInv
    <3>2. QED
      BY <2>1, <3>1 DEF TakenInv, Told
  <2>11. CASE PayBack(w)
    <3>1. /\ work[w].at = "payBack"
          /\ work'[w].id = r /\ work'[w].at = "recordBack"
          /\ \A v \in Workers \ {w} : work'[v] = work[v]
          /\ UNCHANGED <<payment, charge, taken, results>>
      BY <2>11, BecomeEffect DEF PayBack, ToRefund, TypeInv
    <3>2. \A s \in Ids : s # r => returned'[s] = returned[s]
      BY <2>1, <2>11 DEF PayBack, TypeInv, TypeOK
    <3>3. QED
      BY <2>1, <3>1, <3>2 DEF TakenInv, Told
  <2>12. CASE RecordBack(w)
    <3>1. /\ work[w].at = "recordBack" /\ work'[w].at = "finish"
          /\ \A v \in Workers \ {w} : work'[v] = work[v]
          /\ UNCHANGED <<charge, taken, returned, results>>
      BY <2>12, BecomeEffect DEF RecordBack, ToRefund, TypeInv
    <3>2. \A s \in Ids : s # r => payment'[s] = payment[s]
      BY <2>1, <2>12 DEF RecordBack, TypeInv, TypeOK
    <3>3. QED
      BY <2>1, <3>1, <3>2 DEF TakenInv, Told
  <2>13. CASE Finish(w)
    <3>1. work'[w].at = "idle" /\ \A v \in Workers \ {w} : work'[v] = work[v]
      BY <2>13, FinishEffect DEF Idle
    <3>2. QED
      BY <2>13, <3>1, TakenQuiet DEF Finish
  <2>14. QED
    BY <1>5, <2>2, <2>3, <2>4, <2>5, <2>6, <2>7, <2>8, <2>9, <2>10, <2>11, <2>12, <2>13
       DEF Proceed
<1>6. ASSUME NEW w \in Workers, Crash(w) PROVE TakenInv'
  BY <1>6, TakenQuiet, BecomeEffect DEF Crash, Idle, TypeInv
<1>7. ASSUME NEW q \in Queues, NEW r \in Ids, Stalled(q, r) \/ LoseLock(q, r) PROVE TakenInv'
  BY <1>7, TakenQuiet DEF Stalled, LoseLock
<1>8. CASE UNCHANGED vars
  BY <1>8, TakenQuiet DEF vars
<1>9. QED
  BY <1>1, <1>2, <1>3, <1>4, <1>5, <1>6, <1>7, <1>8
     DEF NextLosing, Next, LosesLocks, Deliver, Throws

LEMMA InitTaken == Init => TakenInv
BY DEF Init, TakenInv, Told, Idle

-----------------------------------------------------------------------------
(* One worker to a job.                                                    *)

\* A worker that goes on stays with its job, unless it throws, buries or finishes.
LEMMA ProceedShape ==
    ASSUME TypeInv, NEW w \in Workers, Proceed(w)
    PROVE  /\ work[w] \in Work /\ work[w] # Idle /\ work[w].id \in Ids
           /\ \/ FindPayment(w) /\ Fail(w)
              \/ Bury(w)
              \/ Finish(w)
              \/ /\ UNCHANGED job
                 /\ work[w].at \notin {"bury", "finish"}
                 /\ work'[w].at \notin {"idle", "bury"}
                 /\ work'[w].queue = work[w].queue /\ work'[w].id = work[w].id
                 /\ \A v \in Workers \ {w} : work'[v] = work[v]
<1>1. work[w] \in Work /\ work[w] # Idle /\ work[w].id \in Ids
  <2>1. work[w].at # "idle"
    BY DEF Proceed, FindPayment, ClaimPayment, AskProvider, ProviderDecides,
           RecordOutcome, SendResult, Bury, FindPaid, AskBack, PayBack, RecordBack, Finish
  <2>2. QED
    BY <2>1, WorkShape DEF TypeInv, TypeOK
<1>2. work[w].at \in {"find", "claim", "ask", "decide", "record", "send"}
        => work[w].queue = "charge"
  BY <1>1, WorkShape
<1>3. work[w].at \in {"findPaid", "askBack", "payBack", "recordBack"}
        => work[w].queue = "refund"
  BY <1>1, WorkShape
<1>4. CASE FindPayment(w) /\ ~Fail(w)
  <2>1. \/ Become(w, [at |-> "send", queue |-> "charge", id |-> work[w].id,
                      type |-> TypeOf(payment[work[w].id])])
        \/ Become(w, [at |-> "ask", queue |-> "charge", id |-> work[w].id])
        \/ Become(w, [at |-> "claim", queue |-> "charge", id |-> work[w].id])
    BY <1>4 DEF FindPayment, ToSend, ToCharge
  <2>2. UNCHANGED job /\ work[w].at = "find"
    BY <1>4 DEF FindPayment
  <2>3. QED
    BY <1>1, <1>2, <2>1, <2>2, BecomeEffect DEF TypeInv
<1>5. CASE ClaimPayment(w)
  BY <1>1, <1>2, <1>5, BecomeEffect DEF ClaimPayment, ToCharge, TypeInv
<1>6. CASE AskProvider(w)
  <2>1. \/ Become(w, [at |-> "decide", queue |-> "charge", id |-> work[w].id])
        \/ Become(w, [at |-> "record", queue |-> "charge", id |-> work[w].id,
                      outcome |-> charge[work[w].id]])
    BY <1>6 DEF AskProvider, ToCharge, ToRecord
  <2>2. UNCHANGED job /\ work[w].at = "ask"
    BY <1>6 DEF AskProvider
  <2>3. QED
    BY <1>1, <1>2, <2>1, <2>2, BecomeEffect DEF TypeInv
<1>7. CASE \E o \in Outcome : ProviderDecides(w, o)
  BY <1>1, <1>2, <1>7, BecomeEffect DEF ProviderDecides, ToRecord, TypeInv
<1>8. CASE RecordOutcome(w)
  BY <1>1, <1>2, <1>8, BecomeEffect DEF RecordOutcome, ToSend, TypeInv
<1>9. CASE SendResult(w)
  BY <1>1, <1>2, <1>9, BecomeEffect DEF SendResult, TypeInv
<1>10. CASE FindPaid(w) \/ AskBack(w)
  <2>1. \E at \in {"askBack", "payBack", "recordBack", "finish"} :
           Become(w, [at |-> at, queue |-> "refund", id |-> work[w].id])
    BY <1>10 DEF FindPaid, AskBack, ToRefund
  <2>2. UNCHANGED job /\ work[w].at \in {"findPaid", "askBack"}
    BY <1>10 DEF FindPaid, AskBack
  <2>3. QED
    BY <1>1, <1>3, <2>1, <2>2, BecomeEffect DEF TypeInv
<1>11. CASE PayBack(w)
  BY <1>1, <1>3, <1>11, BecomeEffect DEF PayBack, ToRefund, TypeInv
<1>12. CASE RecordBack(w)
  BY <1>1, <1>3, <1>12, BecomeEffect DEF RecordBack, ToRefund, TypeInv
<1>13. QED
  BY <1>1, <1>4, <1>5, <1>6, <1>7, <1>8, <1>9, <1>10, <1>11, <1>12 DEF Proceed

\* What a worker holds or has ended is not up for grabs.
LEMMA OwnJob ==
    ASSUME TypeInv, NEW v \in Workers, LockFits(v), work[v] # Idle
    PROVE  LET j == job[work[v].queue][work[v].id] IN
           /\ work[v].queue \in Queues /\ work[v].id \in Ids
           /\ j.state \in {"active", "failed"}
           /\ work[v].at # "bury" => j.state = "active" /\ j.owner = v
           /\ work[v].at = "bury" => work[v].queue = "charge" /\ j.state = "failed"
<1>1. work[v].queue \in Queues /\ work[v].id \in Ids
        /\ (work[v].at = "bury" => work[v].queue = "charge")
  BY WorkShape DEF TypeInv, TypeOK
<1>2. job[work[v].queue][work[v].id].owner = v
        => job[work[v].queue][work[v].id].state = "active"
  BY <1>1, NobodyAssumption DEF TypeInv, JobFits
<1>3. QED
  BY <1>1, <1>2 DEF LockFits, Holds

\* A worker is not disturbed by what happens to other jobs.
LEMMA LockKept ==
    ASSUME NEW v \in Workers, LockFits(v), work'[v] = work[v],
           work[v] = Idle \/ job'[work[v].queue][work[v].id] = job[work[v].queue][work[v].id],
           work[v].at = "bury" => work[v].queue = "charge"
    PROVE  LockFits(v)'
<1>1. Idle.at # "bury"
  BY DEF Idle
<1>2. QED
  BY <1>1 DEF LockFits, Holds

LEMMA LockStep == TypeInv /\ LockInv /\ [Next]_vars => LockInv'
<1> SUFFICES ASSUME TypeInv, LockInv, [Next]_vars PROVE LockInv'
  OBVIOUS
<1>1. \A v \in Workers : LockFits(v)
  BY DEF LockInv
<1>2. \A v \in Workers : work[v].at = "bury" => work[v].queue = "charge"
  BY WorkShape DEF TypeInv, TypeOK
<1>3. Idle.at = "idle"
  BY DEF Idle
<1>4. ASSUME NEW q \in Queues, NEW R \in SUBSET Ids, NEW F \in SUBSET Ids, AddJobs(q, R, F)
      PROVE  LockInv'
  <2>1. UNCHANGED work
    BY <1>4 DEF AddJobs
  <2>2. \A p \in Queues, s \in Ids : job'[p][s] = job[p][s] \/ job[p][s].state = "none"
    <3>1. \A p \in Queues, s \in Ids :
             \/ job'[p][s] = job[p][s]
             \/ /\ p = q /\ s \in R /\ job[p][s].state = "none"
                /\ job'[p][s].state = "waiting" /\ job'[p][s].owner = Nobody
      BY <1>4, AddEffect
    <3>2. QED
      BY <3>1
  <2>3. QED
    BY <1>1, <1>2, <2>1, <2>2, OwnJob, LockKept DEF LockInv
<1>5. ASSUME NEW w \in Workers, NEW q \in Queues, NEW r \in Ids, TakeJob(w, q, r)
      PROVE  LockInv'
  <2>1. /\ job[q][r].state = "waiting" /\ job'[q][r].owner = w
        /\ work'[w] = [at |-> Start(q), queue |-> q, id |-> r]
        /\ \A p \in Queues, s \in Ids : <<p, s>> # <<q, r>> => job'[p][s] = job[p][s]
        /\ \A v \in Workers \ {w} : work'[v] = work[v]
    BY <1>5, TakeEffect
  <2>2. LockFits(w)'
    <3>1. Start(q) # "bury"
      BY DEF Start
    <3>2. QED
      BY <2>1, <3>1 DEF LockFits, Holds
  <2>3. ASSUME NEW v \in Workers \ {w} PROVE LockFits(v)'
    BY <1>1, <1>2, <2>1, OwnJob, LockKept
  <2>4. QED
    BY <2>2, <2>3 DEF LockInv
<1>6. ASSUME NEW w \in Workers, work[w] # Idle, work[w].at # "bury", Fail(w) \/ Finish(w)
      PROVE  LockInv'
  <2> DEFINE q == work[w].queue
             r == work[w].id
  <2>1. q \in Queues /\ r \in Ids /\ job[q][r].owner = w /\ job[q][r].state = "active"
    BY <1>1, <1>6, OwnJob
  <2>2. /\ \A p \in Queues, s \in Ids : <<p, s>> # <<q, r>> => job'[p][s] = job[p][s]
        /\ \A v \in Workers \ {w} : work'[v] = work[v]
        /\ \/ work'[w] = Idle
           \/ /\ work'[w] = [at |-> "bury", queue |-> "charge", id |-> r]
              /\ job'["charge"][r].state = "failed" /\ job'["charge"][r].made = Attempts
    <3>1. CASE Fail(w)
      BY <1>6, <3>1, FailEffect
    <3>2. CASE Finish(w)
      BY <3>2, FinishEffect
    <3>3. QED
      BY <1>6, <3>1, <3>2
  <2>3. LockFits(w)'
    BY <1>3, <2>2 DEF LockFits, Holds
  <2>4. ASSUME NEW v \in Workers \ {w} PROVE LockFits(v)'
    <3>1. CASE work[v] = Idle
      BY <1>1, <1>2, <2>2, <3>1, LockKept
    <3>2. CASE work[v] # Idle
      <4>1. <<work[v].queue, work[v].id>> # <<q, r>>
        BY <1>1, <2>1, <3>2, OwnJob
      <4>2. QED
        BY <1>1, <1>2, <2>2, <3>2, <4>1, OwnJob, LockKept
    <3>3. QED
      BY <3>1, <3>2
  <2>5. QED
    BY <2>3, <2>4 DEF LockInv
<1>7. ASSUME NEW w \in Workers, UNCHANGED job, work'[w] = Idle,
             \A v \in Workers \ {w} : work'[v] = work[v]
      PROVE  LockInv'
  BY <1>1, <1>2, <1>3, <1>7, LockKept DEF LockInv, LockFits
<1>8. ASSUME NEW w \in Workers, Proceed(w) PROVE LockInv'
  <2>1. CASE Bury(w)
    BY <1>7, <2>1, BecomeEffect DEF Bury, TypeInv
  <2>2. CASE (FindPayment(w) /\ Fail(w)) \/ Finish(w)
    BY <1>6, <1>8, <2>2, ProceedShape DEF FindPayment, Finish
  <2>3. CASE /\ UNCHANGED job
             /\ work[w].at \notin {"bury", "finish"}
             /\ work'[w].at \notin {"idle", "bury"}
             /\ work'[w].queue = work[w].queue /\ work'[w].id = work[w].id
             /\ \A v \in Workers \ {w} : work'[v] = work[v]
    <3>1. LockFits(w)'
      BY <1>1, <1>8, <2>3, ProceedShape DEF LockFits, Holds
    <3>2. QED
      BY <1>1, <1>2, <2>3, <3>1, LockKept DEF LockInv
  <2>4. QED
    BY <1>8, <2>1, <2>2, <2>3, ProceedShape
<1>9. ASSUME NEW w \in Workers, Crash(w) PROVE LockInv'
  BY <1>7, <1>9, BecomeEffect DEF Crash, TypeInv
<1>10. ASSUME NEW q \in Queues, NEW r \in Ids, Stalled(q, r) PROVE LockInv'
  <2>1. /\ job[q][r].state = "active" /\ ~WorksOn(job[q][r].owner, q, r) /\ UNCHANGED work
    BY <1>10 DEF Stalled
  <2>2. \A p \in Queues, s \in Ids : <<p, s>> # <<q, r>> => job'[p][s] = job[p][s]
    BY <1>10, ReleaseEffect DEF Stalled
  <2>3. ASSUME NEW v \in Workers, work[v] # Idle
        PROVE  <<work[v].queue, work[v].id>> # <<q, r>>
    BY <1>1, <2>1, <2>3, OwnJob DEF WorksOn
  <2>4. QED
    BY <1>1, <1>2, <2>1, <2>2, <2>3, OwnJob, LockKept DEF LockInv
<1>11. CASE UNCHANGED vars
  BY <1>1, <1>2, <1>11, LockKept DEF LockInv, vars
<1>12. CASE \E R \in SUBSET Ids : \E F \in SUBSET R : ChargesQueued(R, F)
  BY <1>4, <1>12 DEF ChargesQueued, Queues
<1>13. CASE \E r \in Ids : RefundQueued(r)
  <2>1. PICK r \in Ids : AddJobs("refund", {r}, {})
    BY <1>13 DEF RefundQueued
  <2>2. QED
    BY <1>4, <2>1 DEF Queues
<1>14. CASE \E w \in Workers : Throws(w)
  BY <1>6, <1>14 DEF Throws
<1>15. QED
  BY <1>5, <1>8, <1>9, <1>10, <1>11, <1>12, <1>13, <1>14 DEF Next, Deliver

-----------------------------------------------------------------------------
(* Jobs come from the API.                                                 *)

\* No step of a worker or of the queue library makes a job of nothing, or loses one.
LEMMA JobsLast ==
    ASSUME TypeInv,
           \/ \E w \in Workers : Deliver(w) \/ Proceed(w) \/ Throws(w) \/ Crash(w)
           \/ \E q \in Queues, r \in Ids : Stalled(q, r) \/ LoseLock(q, r)
    PROVE  \A q \in Queues, r \in Ids : job'[q][r].state = "none" <=> job[q][r].state = "none"
<1> DEFINE Last == \A q \in Queues, r \in Ids :
                      job'[q][r].state = "none" <=> job[q][r].state = "none"
<1>1. ASSUME NEW w \in Workers, NEW q \in Queues, NEW r \in Ids, TakeJob(w, q, r) PROVE Last
  <2>1. /\ job[q][r].state = "waiting" /\ job'[q][r].state = "active"
        /\ work'[w] = [at |-> Start(q), queue |-> q, id |-> r]
        /\ \A p \in Queues, s \in Ids : <<p, s>> # <<q, r>> => job'[p][s] = job[p][s]
    BY <1>1, TakeEffect
  <2>2. QED
    BY <2>1
<1>2. ASSUME NEW w \in Workers, work[w] # Idle, Fail(w) PROVE Last
  <2>1. PICK q, r : q = work[w].queue /\ r = work[w].id
    OBVIOUS
  <2>2. /\ q \in Queues /\ r \in Ids
        /\ \A p \in Queues, s \in Ids : <<p, s>> # <<q, r>> => job'[p][s] = job[p][s]
        /\ ~Holds(w) => job' = job
        /\ Holds(w) => job[q][r].state = "active" /\ job'[q][r].state \in {"waiting", "failed"}
        /\ \/ work'[w] = Idle
           \/ work'[w] = [at |-> "bury", queue |-> "charge", id |-> r]
    BY <1>2, <2>1, FailEffect
  <2>3. QED
    BY <2>2
<1>3. ASSUME NEW w \in Workers, Finish(w) PROVE Last
  <2>1. PICK q, r : q = work[w].queue /\ r = work[w].id
    OBVIOUS
  <2>2. /\ q \in Queues /\ r \in Ids
        /\ \A p \in Queues, s \in Ids : <<p, s>> # <<q, r>> => job'[p][s] = job[p][s]
        /\ ~Holds(w) => job' = job
        /\ Holds(w) => job[q][r].state = "active" /\ job'[q][r].state = "completed"
    BY <1>3, <2>1, FinishEffect
  <2>3. QED
    BY <2>2
<1>4. ASSUME NEW q \in Queues, NEW r \in Ids, job[q][r].state = "active", Release(q, r) PROVE Last
  <2>1. /\ job'[q][r].state \in {"waiting", "failed"}
        /\ \A p \in Queues, s \in Ids : <<p, s>> # <<q, r>> => job'[p][s] = job[p][s]
    BY <1>4, ReleaseEffect
  <2>2. QED
    BY <1>4, <2>1
<1>5. CASE UNCHANGED job
  BY <1>5
<1>6. ASSUME NEW w \in Workers, Proceed(w) PROVE Last
  BY <1>2, <1>3, <1>5, <1>6, ProceedShape DEF Bury
<1>7. ASSUME NEW w \in Workers, Deliver(w) \/ Throws(w) \/ Crash(w) PROVE Last
  BY <1>1, <1>2, <1>5, <1>7 DEF Deliver, Throws, Crash
<1>8. ASSUME NEW q \in Queues, NEW r \in Ids, Stalled(q, r) \/ LoseLock(q, r) PROVE Last
  BY <1>4, <1>8 DEF Stalled, LoseLock
<1>9. QED
  BY <1>6, <1>7, <1>8

\* Nothing is lost as long as a worker goes on with a job that is there.
LEMMA JobsKept ==
    ASSUME JobsInv, UNCHANGED returned,
           \A q \in Queues, r \in Ids : job[q][r].state # "none" => job'[q][r].state # "none",
           \A v \in Workers :
              \/ work'[v] = Idle
              \/ /\ work'[v].queue \in Queues /\ work'[v].id \in Ids
                 /\ job[work'[v].queue][work'[v].id].state # "none"
    PROVE  JobsInv'
BY DEF JobsInv, Queues

LEMMA JobsStep == TypeInv /\ JobsInv /\ [NextLosing]_vars => JobsInv'
<1> SUFFICES ASSUME TypeInv, JobsInv, [NextLosing]_vars PROVE JobsInv'
  OBVIOUS
<1> USE DEF money, faults
<1>1. ASSUME NEW v \in Workers
      PROVE  \/ work[v] = Idle
             \/ /\ work[v].queue \in Queues /\ work[v].id \in Ids
                /\ job[work[v].queue][work[v].id].state # "none"
  BY HeldJob DEF JobsInv
<1>2. ASSUME NEW q \in Queues, NEW R \in SUBSET Ids, NEW F \in SUBSET Ids, AddJobs(q, R, F)
      PROVE  JobsInv'
  <2>1. UNCHANGED <<work, returned>>
    BY <1>2 DEF AddJobs
  <2>2. \A p \in Queues, s \in Ids : job[p][s].state # "none" => job'[p][s].state # "none"
    <3>1. \A p \in Queues, s \in Ids :
             \/ job'[p][s] = job[p][s]
             \/ /\ p = q /\ s \in R /\ job[p][s].state = "none"
                /\ job'[p][s].state = "waiting" /\ job'[p][s].owner = Nobody
      BY <1>2, AddEffect
    <3>2. QED
      BY <3>1
  <2>3. QED
    BY <1>1, <2>1, <2>2, JobsKept
<1>3. CASE \E w \in Workers : Deliver(w) \/ Proceed(w) \/ Throws(w) \/ Crash(w)
  <2>1. PICK w \in Workers : Deliver(w) \/ Proceed(w) \/ Throws(w) \/ Crash(w)
    BY <1>3
  <2>2. \A q \in Queues, r \in Ids : job[q][r].state # "none" => job'[q][r].state # "none"
    BY <1>3, JobsLast
  <2>3. CASE PayBack(w)
    <3>1. /\ work[w] # Idle /\ work[w].id \in Ids /\ work[w].queue = "refund"
          /\ work'[w].queue = "refund" /\ work'[w].id = work[w].id
          /\ \A v \in Workers \ {w} : work'[v] = work[v]
      <4>1. work[w].at = "payBack" /\ work[w] \in Work
        BY <2>3 DEF PayBack, TypeInv, TypeOK
      <4>2. work[w] # Idle /\ work[w].id \in Ids /\ work[w].queue = "refund"
        BY <4>1, WorkShape
      <4>3. QED
        BY <4>2, <2>3, BecomeEffect DEF PayBack, ToRefund, TypeInv
    <3>2. job["refund"][work[w].id].state # "none" /\ job' = job
      BY <1>1, <2>3, <3>1 DEF PayBack
    <3>3. \A r \in Ids : returned'[r] # 0 => job'["refund"][r].state # "none"
      BY <2>3, <3>1, <3>2 DEF PayBack, JobsInv, TypeInv, TypeOK
    <3>4. QED
      BY <1>1, <3>1, <3>2, <3>3 DEF JobsInv
  <2>4. CASE ~PayBack(w)
    <3>1. UNCHANGED returned
      BY <2>1, <2>4
         DEF Deliver, TakeJob, Proceed, Throws, Crash, FindPayment, ClaimPayment, AskProvider,
             ProviderDecides, RecordOutcome, SendResult, Bury, FindPaid, AskBack, RecordBack, Finish
    <3>2. \A v \in Workers :
             \/ work'[v] = Idle
             \/ /\ work'[v].queue \in Queues /\ work'[v].id \in Ids
                /\ job[work'[v].queue][work'[v].id].state # "none"
      <4>1. ASSUME NEW q \in Queues, NEW r \in Ids, TakeJob(w, q, r)
            PROVE  /\ work'[w].queue = q /\ work'[w].id = r /\ job[q][r].state # "none"
                   /\ \A v \in Workers \ {w} : work'[v] = work[v]
        <5>1. /\ work'[w] = [at |-> Start(q), queue |-> q, id |-> r]
              /\ job[q][r].state = "waiting"
              /\ \A v \in Workers \ {w} : work'[v] = work[v]
          BY <4>1, TakeEffect
        <5>2. QED
          BY <5>1
      <4>2. ASSUME work[w] # Idle, Fail(w) \/ Finish(w)
            PROVE  /\ \/ work'[w] = Idle
                      \/ work'[w].queue = work[w].queue /\ work'[w].id = work[w].id
                   /\ \A v \in Workers \ {w} : work'[v] = work[v]
        <5>1. PICK q, r : q = work[w].queue /\ r = work[w].id
          OBVIOUS
        <5>2. CASE Fail(w)
          <6>1. /\ \/ work'[w] = Idle
                   \/ /\ q = "charge"
                      /\ work'[w] = [at |-> "bury", queue |-> "charge", id |-> r]
                /\ \A v \in Workers \ {w} : work'[v] = work[v]
            BY <4>2, <5>1, <5>2, FailEffect
          <6>2. QED
            BY <5>1, <6>1
        <5>3. CASE Finish(w)
          BY <5>1, <5>3, FinishEffect
        <5>4. QED
          BY <4>2, <5>2, <5>3
      <4>3. ASSUME Bury(w) \/ Crash(w)
            PROVE  work'[w] = Idle /\ \A v \in Workers \ {w} : work'[v] = work[v]
        BY <4>3, BecomeEffect DEF Bury, Crash, TypeInv
      <4>4. CASE Deliver(w)
        BY <1>1, <4>1, <4>4 DEF Deliver
      <4>5. CASE Throws(w)
        BY <1>1, <4>2, <4>5 DEF Throws
      <4>6. CASE Crash(w)
        BY <1>1, <4>3, <4>6
      <4>7. CASE Proceed(w)
        BY <1>1, <4>2, <4>3, <4>7, ProceedShape
      <4>8. QED
        BY <2>1, <4>4, <4>5, <4>6, <4>7
    <3>3. QED
      BY <2>2, <3>1, <3>2, JobsKept
  <2>5. QED
    BY <2>3, <2>4
<1>4. CASE \E q \in Queues, r \in Ids : Stalled(q, r) \/ LoseLock(q, r)
  <2>1. UNCHANGED <<work, returned>>
    BY <1>4 DEF Stalled, LoseLock
  <2>2. QED
    BY <1>1, <1>4, <2>1, JobsLast, JobsKept
<1>5. CASE UNCHANGED vars
  BY <1>5 DEF vars, JobsInv
<1>6. CASE \E R \in SUBSET Ids : \E F \in SUBSET R : ChargesQueued(R, F)
  BY <1>2, <1>6 DEF ChargesQueued, Queues
<1>7. CASE \E r \in Ids : RefundQueued(r)
  <2>1. PICK r \in Ids : AddJobs("refund", {r}, {})
    BY <1>7 DEF RefundQueued
  <2>2. QED
    BY <1>2, <2>1 DEF Queues
<1>8. QED
  BY <1>3, <1>4, <1>5, <1>6, <1>7 DEF NextLosing, Next, LosesLocks

\* The results a worker adds are those of charge jobs.
LEMMA ResultsComeFromCharges ==
    ASSUME TypeInv, JobsInv, [NextLosing]_vars
    PROVE  \/ results' = results
           \/ \E r \in Ids, type \in ResultType :
                 /\ job["charge"][r].state # "none"
                 /\ results' = results \cup {[id |-> r, type |-> type]}
<1>1. ASSUME NEW w \in Workers, SendResult(w)
      PROVE  \E r \in Ids, type \in ResultType :
                /\ job["charge"][r].state # "none"
                /\ results' = results \cup {[id |-> r, type |-> type]}
  <2>1. work[w].at = "send" /\ work[w] \in Work
    BY <1>1 DEF SendResult, TypeInv, TypeOK
  <2>2. /\ work[w] # Idle /\ work[w].id \in Ids /\ work[w].queue = "charge"
        /\ work[w].type \in ResultType
    BY <2>1, WorkShape
  <2>3. QED
    BY <1>1, <2>2 DEF SendResult, JobsInv
<1>2. ASSUME NEW w \in Workers, Deliver(w) \/ Proceed(w) \/ Throws(w) \/ Crash(w)
      PROVE  results' = results \/ SendResult(w)
  BY <1>2 DEF Deliver, TakeJob, Proceed, Throws, Crash, FindPayment, ClaimPayment, AskProvider,
              ProviderDecides, RecordOutcome, Bury, FindPaid, AskBack, PayBack, RecordBack, Finish
<1>3. CASE ~\E w \in Workers : Deliver(w) \/ Proceed(w) \/ Throws(w) \/ Crash(w)
  BY <1>3 DEF NextLosing, Next, ChargesQueued, RefundQueued, AddJobs, Stalled, LosesLocks, LoseLock,
              vars
<1>4. QED
  BY <1>1, <1>2, <1>3

LEMMA InitJobs == Init => JobsInv
BY DEF Init, JobsInv

-----------------------------------------------------------------------------
(* The books agree.                                                        *)

\* Two workers in the middle of one job are one.
LEMMA Alone ==
    ASSUME TypeInv, LockInv, NEW v \in Workers, NEW w \in Workers, v # w
    PROVE  /\ /\ work[v].at \in {"find", "claim", "ask", "decide", "record", "send"}
              /\ work[w].at \in {"find", "claim", "ask", "decide", "record", "send"}
              => work[v].id # work[w].id
           /\ /\ work[v].at \in {"findPaid", "askBack", "payBack", "recordBack"}
              /\ work[w].at \in {"findPaid", "askBack", "payBack", "recordBack"}
              => work[v].id # work[w].id
<1>1. \A u \in Workers : work[u].at \notin {"idle", "bury"} => Holds(u)
  BY DEF LockInv, LockFits, Idle
<1>2. \A u \in Workers :
         /\ work[u].at \in {"find", "claim", "ask", "decide", "record", "send"}
              => work[u].queue = "charge"
         /\ work[u].at \in {"findPaid", "askBack", "payBack", "recordBack"}
              => work[u].queue = "refund"
  BY WorkShape DEF TypeInv, TypeOK
<1>3. QED
  BY <1>1, <1>2 DEF Holds

\* Steps that touch no book, after which no worker relies on what it read.
LEMMA BooksQuiet ==
    ASSUME BooksInv, UNCHANGED <<payment, charge, refund, taken, returned, results>>,
           \A s \in Ids : job'["refund"][s].state # "none"
                            => job["refund"][s].state # "none" \/ Told(s, "PaymentSucceeded")
    PROVE  BooksInv'
BY DEF BooksInv, BooksFit, Told

LEMMA ReadQuiet ==
    ASSUME ReadInv, UNCHANGED <<payment, charge, refund>>,
           \A v \in Workers :
              \/ work'[v] = work[v]
              \/ work'[v].at \in {"idle", "find", "findPaid", "finish", "bury"}
    PROVE  ReadInv'
<1>1. ASSUME NEW v \in Workers PROVE ReadFits(v)'
  BY DEF ReadInv, ReadFits
<1>2. QED
  BY <1>1 DEF ReadInv

LEMMA InitBooks == Init => LockInv /\ BooksInv /\ ReadInv
<1> SUFFICES ASSUME Init PROVE LockInv /\ BooksInv /\ ReadInv
  OBVIOUS
<1>1. LockInv
  BY DEF Init, LockInv, LockFits, Idle
<1>2. BooksInv
  BY DEF Init, BooksInv, BooksFit, NoJob, Told, Queues
<1>3. ReadInv
  BY DEF Init, ReadInv, ReadFits, Idle
<1>4. QED
  BY <1>1, <1>2, <1>3

\* A refund job that is there is there because the API was told of a success.
LEMMA QueueQuiet ==
    ASSUME TypeInv, LockInv, BooksInv, ReadInv,
           UNCHANGED <<payment, charge, refund, taken, returned, results>>
    PROVE  /\ \A q \in Queues, R \in SUBSET Ids, F \in SUBSET Ids :
                 /\ AddJobs(q, R, F)
                 /\ q = "refund" => \A s \in R : Told(s, "PaymentSucceeded")
                 => BooksInv' /\ ReadInv'
           /\ \A w \in Workers, q \in Queues, r \in Ids : TakeJob(w, q, r) => BooksInv' /\ ReadInv'
           /\ \A w \in Workers : work[w] # Idle /\ Fail(w) => BooksInv' /\ ReadInv'
           /\ \A w \in Workers : Finish(w) => BooksInv' /\ ReadInv'
           /\ \A w \in Workers : Crash(w) => BooksInv' /\ ReadInv'
           /\ \A q \in Queues, r \in Ids : Stalled(q, r) => BooksInv' /\ ReadInv'
<1>1. "refund" \in Queues
  BY DEF Queues
<1>2. ASSUME NEW q \in Queues, NEW R \in SUBSET Ids, NEW F \in SUBSET Ids, AddJobs(q, R, F),
             q = "refund" => \A s \in R : Told(s, "PaymentSucceeded")
      PROVE  BooksInv' /\ ReadInv'
  <2>1. \A p \in Queues, s \in Ids :
           job'[p][s] = job[p][s] \/ (p = q /\ s \in R /\ job[p][s].state = "none")
    <3>1. \A p \in Queues, s \in Ids :
             \/ job'[p][s] = job[p][s]
             \/ /\ p = q /\ s \in R /\ job[p][s].state = "none"
                /\ job'[p][s].state = "waiting" /\ job'[p][s].owner = Nobody
      BY <1>2, AddEffect
    <3>2. QED
      BY <3>1
  <2>2. UNCHANGED work
    BY <1>2 DEF AddJobs
  <2>3. BooksInv'
    BY <1>1, <1>2, <2>1, BooksQuiet
  <2>4. QED
    BY <2>2, <2>3, ReadQuiet
<1>3. ASSUME NEW w \in Workers, NEW q \in Queues, NEW r \in Ids, TakeJob(w, q, r)
      PROVE  BooksInv' /\ ReadInv'
  <2>1. /\ job[q][r].state = "waiting"
        /\ work'[w] = [at |-> Start(q), queue |-> q, id |-> r]
        /\ \A p \in Queues, s \in Ids : <<p, s>> # <<q, r>> => job'[p][s] = job[p][s]
        /\ \A v \in Workers \ {w} : work'[v] = work[v]
    BY <1>3, TakeEffect
  <2>2. BooksInv'
    BY <1>1, <2>1, BooksQuiet
  <2>3. work'[w].at \in {"find", "findPaid"}
    BY <2>1 DEF Start
  <2>4. QED
    BY <2>1, <2>2, <2>3, ReadQuiet
<1>4. ASSUME NEW w \in Workers, work[w] # Idle, Fail(w) PROVE BooksInv' /\ ReadInv'
  <2> DEFINE q == work[w].queue
             r == work[w].id
  <2>1. /\ \/ work'[w] = Idle
           \/ work'[w] = [at |-> "bury", queue |-> "charge", id |-> r]
        /\ \A p \in Queues, s \in Ids : <<p, s>> # <<q, r>> => job'[p][s] = job[p][s]
        /\ \A v \in Workers \ {w} : work'[v] = work[v]
        /\ job' = job \/ job[q][r].state = "active"
    BY <1>4, FailEffect
  <2>2. BooksInv'
    BY <1>1, <2>1, BooksQuiet
  <2>3. work'[w].at \in {"idle", "bury"}
    BY <2>1 DEF Idle
  <2>4. QED
    BY <2>1, <2>2, <2>3, ReadQuiet
<1>5. ASSUME NEW w \in Workers, Finish(w) PROVE BooksInv' /\ ReadInv'
  <2> DEFINE q == work[w].queue
             r == work[w].id
  <2>1. /\ work'[w] = Idle
        /\ \A p \in Queues, s \in Ids : <<p, s>> # <<q, r>> => job'[p][s] = job[p][s]
        /\ \A v \in Workers \ {w} : work'[v] = work[v]
        /\ job' = job \/ job[q][r].state = "active"
    BY <1>5, FinishEffect
  <2>2. BooksInv'
    BY <1>1, <2>1, BooksQuiet
  <2>3. work'[w].at = "idle"
    BY <2>1 DEF Idle
  <2>4. QED
    BY <2>1, <2>2, <2>3, ReadQuiet
<1>6. ASSUME NEW w \in Workers, Crash(w) PROVE BooksInv' /\ ReadInv'
  <2>1. work'[w] = Idle /\ UNCHANGED job /\ \A v \in Workers \ {w} : work'[v] = work[v]
    BY <1>6, BecomeEffect DEF Crash, TypeInv
  <2>2. QED
    BY <2>1, BooksQuiet, ReadQuiet DEF Idle
<1>7. ASSUME NEW q \in Queues, NEW r \in Ids, Stalled(q, r) PROVE BooksInv' /\ ReadInv'
  <2>1. /\ job[q][r].state = "active" /\ UNCHANGED work
        /\ \A p \in Queues, s \in Ids : <<p, s>> # <<q, r>> => job'[p][s] = job[p][s]
    BY <1>7, ReleaseEffect DEF Stalled
  <2>2. QED
    BY <1>1, <2>1, BooksQuiet, ReadQuiet
<1>8. QED
  BY <1>2, <1>3, <1>4, <1>5, <1>6, <1>7

\* What the other workers read is not what one of them changes.
LEMMA ReadKept ==
    ASSUME TypeInv, LockInv, ReadInv, NEW w \in Workers, NEW v \in Workers, v # w,
           work'[v] = work[v],
           \A s \in Ids \ {work[w].id} :
              payment'[s] = payment[s] /\ charge'[s] = charge[s] /\ (s \in refund' <=> s \in refund),
           \/ /\ work[w].at \in {"claim", "ask", "decide", "record"}
              /\ payment[work[w].id] # "SUCCEEDED"
           \/ /\ work[w].at = "payBack" /\ UNCHANGED <<payment, charge>>
           \/ /\ work[w].at = "recordBack" /\ UNCHANGED <<charge, refund>>
              /\ payment'[work[w].id] = "REFUNDED"
    PROVE  ReadFits(v)'
<1>1. ReadFits(v) /\ ReadFits(w)
  BY DEF ReadInv
<1>2. work[v] # Idle => work[v].id \in Ids
  BY WorkShape DEF TypeInv, TypeOK
<1>3. CASE work[v].id # work[w].id
  <2>1. work[v] = Idle => work[v].at = "idle"
    BY DEF Idle
  <2>2. QED
    BY <1>1, <1>2, <1>3, <2>1 DEF ReadFits
<1>4. CASE work[v].id = work[w].id
  <2>1. CASE work[v].at \in {"claim", "ask", "decide", "record", "send"}
    <3>1. work[w].at \in {"payBack", "recordBack"}
      BY <1>4, <2>1, Alone
    <3>2. payment[work[w].id] = "SUCCEEDED"
      BY <1>1, <3>1 DEF ReadFits
    <3>3. work[v].at = "send" /\ work[v].type # "PaymentFailed"
      BY <1>1, <1>4, <2>1, <3>2 DEF ReadFits
    <3>4. payment'[work[w].id] \in {"SUCCEEDED", "REFUNDED"}
      BY <3>1, <3>2
    <3>5. QED
      BY <1>4, <3>3, <3>4 DEF ReadFits
  <2>2. CASE work[v].at \in {"askBack", "payBack", "recordBack"}
    BY <1>1, <1>4, <2>2, Alone DEF ReadFits
  <2>3. CASE work[v].at \notin {"claim", "ask", "decide", "record", "send",
                                "askBack", "payBack", "recordBack"}
    BY <2>3 DEF ReadFits
  <2>4. QED
    BY <2>1, <2>2, <2>3
<1>5. QED
  BY <1>3, <1>4

\* What a worker writes concerns its own booking.
LEMMA BooksKept ==
    ASSUME BooksInv, NEW r \in Ids, UNCHANGED <<job, results>>, BooksFit(r)',
           \A s \in Ids \ {r} :
              /\ payment'[s] = payment[s] /\ charge'[s] = charge[s] /\ (s \in refund' <=> s \in refund)
              /\ taken'[s] = taken[s] /\ returned'[s] = returned[s]
    PROVE  BooksInv'
<1>1. ASSUME NEW s \in Ids \ {r} PROVE BooksFit(s)'
  BY DEF BooksInv, BooksFit, Told
<1>2. QED
  BY <1>1 DEF BooksInv

LEMMA BooksStep ==
    ASSUME TypeInv, LockInv, BooksInv, ReadInv, [Next]_vars
    PROVE  BooksInv' /\ ReadInv'
<1> USE DEF money, faults
<1>1. CASE \E R \in SUBSET Ids : \E F \in SUBSET R : ChargesQueued(R, F)
  BY <1>1, QueueQuiet DEF ChargesQueued, AddJobs, Queues
<1>2. CASE \E r \in Ids : RefundQueued(r)
  <2>1. PICK r \in Ids : AddJobs("refund", {r}, {}) /\ Told(r, "PaymentSucceeded")
    BY <1>2 DEF RefundQueued
  <2>2. \A s \in {r} : Told(s, "PaymentSucceeded")
    BY <2>1
  <2>3. "refund" \in Queues /\ {r} \in SUBSET Ids /\ {} \in SUBSET Ids
    BY DEF Queues
  <2>4. UNCHANGED <<payment, charge, refund, taken, returned, results>>
    BY <2>1 DEF AddJobs
  <2>5. QED
    BY <2>1, <2>2, <2>3, <2>4, QueueQuiet
<1>3. CASE \E w \in Workers : Deliver(w) \/ Throws(w) \/ Crash(w)
  BY <1>3, QueueQuiet DEF Deliver, TakeJob, Throws, Crash
<1>4. CASE \E q \in Queues, r \in Ids : Stalled(q, r)
  BY <1>4, QueueQuiet DEF Stalled
<1>5. ASSUME NEW w \in Workers, Proceed(w) PROVE BooksInv' /\ ReadInv'
  <2> DEFINE r == work[w].id
  <2>1. work[w] # Idle /\ r \in Ids /\ work[w] \in Work
    BY <1>5, ProceedShape
  <2>2. ReadFits(w)
    BY DEF ReadInv
  <2>3. CASE FindPayment(w)
    <3>1. CASE Fail(w)
      BY <2>1, <2>3, <3>1, QueueQuiet DEF FindPayment
    <3>2. CASE ~Fail(w)
      <4>1. /\ UNCHANGED <<job, payment, money, results, deadLetters, faults>>
            /\ \/ /\ payment[r] \notin {"NONE", "PENDING"}
                  /\ Become(w, [at |-> "send", queue |-> "charge", id |-> r,
                                type |-> TypeOf(payment[r])])
               \/ /\ payment[r] = "PENDING"
                  /\ Become(w, [at |-> "ask", queue |-> "charge", id |-> r])
               \/ /\ payment[r] = "NONE"
                  /\ Become(w, [at |-> "claim", queue |-> "charge", id |-> r])
        BY <2>3, <3>2 DEF FindPayment, ToSend, ToCharge
      <4>2. /\ work'[w].id = r
            /\ \/ /\ work'[w].at = "send" /\ work'[w].type = TypeOf(payment[r])
                  /\ payment[r] \notin {"NONE", "PENDING"}
               \/ work'[w].at = "ask" /\ payment[r] = "PENDING"
               \/ work'[w].at = "claim" /\ payment[r] = "NONE"
            /\ \A v \in Workers \ {w} : work'[v] = work[v]
        BY <4>1, BecomeEffect DEF TypeInv
      <4>3. payment[r] \in PaymentStatus
        BY <2>1 DEF TypeInv, TypeOK
      <4>4. ReadFits(w)'
        BY <4>1, <4>2, <4>3 DEF ReadFits, TypeOf, PaymentStatus
      <4>5. ASSUME NEW v \in Workers \ {w} PROVE ReadFits(v)'
        BY <4>1, <4>2 DEF ReadInv, ReadFits
      <4>6. QED
        BY <4>1, <4>4, <4>5, BooksQuiet DEF ReadInv
    <3>3. QED
      BY <3>1, <3>2
  <2>4. CASE ClaimPayment(w)
    <3>1. /\ work[w].at = "claim" /\ work'[w].at = "ask" /\ work'[w].id = r
          /\ \A v \in Workers \ {w} : work'[v] = work[v]
          /\ UNCHANGED <<job, charge, refund, taken, returned, results>>
      BY <2>4, BecomeEffect DEF ClaimPayment, ToCharge, TypeInv
    <3>2. payment[r] = "NONE"
      BY <2>2, <3>1 DEF ReadFits
    <3>3. payment'[r] = "PENDING" /\ \A s \in Ids \ {r} : payment'[s] = payment[s]
      BY <2>1, <2>4, <3>2 DEF ClaimPayment, TypeInv, TypeOK
    <3>4. BooksInv'
      BY <3>1, <3>2, <3>3 DEF BooksInv, BooksFit, Told
    <3>5. ReadFits(w)'
      BY <3>1, <3>3 DEF ReadFits
    <3>6. ASSUME NEW v \in Workers \ {w} PROVE ReadFits(v)'
      BY <3>1, <3>2, <3>3, ReadKept
    <3>7. QED
      BY <3>4, <3>5, <3>6 DEF ReadInv
  <2>5. CASE AskProvider(w)
    <3>1. /\ work[w].at = "ask"
          /\ UNCHANGED <<job, payment, charge, refund, taken, returned, results>>
      BY <2>5 DEF AskProvider
    <3>2. /\ work'[w].id = r
          /\ \/ work'[w].at = "decide" /\ charge[r] = "none"
             \/ work'[w].at = "record" /\ work'[w].outcome = charge[r]
      BY <2>5, BecomeEffect DEF AskProvider, ToCharge, ToRecord, TypeInv
    <3>3. \A v \in Workers \ {w} : work'[v] = work[v]
      BY <2>5, BecomeEffect DEF AskProvider, ToCharge, ToRecord, TypeInv
    <3>4. ReadFits(w)'
      BY <2>2, <3>1, <3>2 DEF ReadFits
    <3>5. ASSUME NEW v \in Workers \ {w} PROVE ReadFits(v)'
      BY <3>1, <3>3 DEF ReadInv, ReadFits
    <3>6. QED
      BY <3>1, <3>4, <3>5, BooksQuiet DEF ReadInv
  <2>6. ASSUME NEW o \in Outcome, ProviderDecides(w, o) PROVE BooksInv' /\ ReadInv'
    <3>1. /\ work[w].at = "decide" /\ work'[w].at = "record" /\ work'[w].id = r
          /\ work'[w].outcome = o
          /\ \A v \in Workers \ {w} : work'[v] = work[v]
          /\ UNCHANGED <<job, payment, refund, returned, results>>
      BY <2>6, BecomeEffect DEF ProviderDecides, ToRecord, TypeInv
    <3>2. payment[r] = "PENDING" /\ charge[r] = "none"
      BY <2>2, <3>1 DEF ReadFits
    <3>3. charge'[r] = o /\ \A s \in Ids \ {r} : charge'[s] = charge[s]
      BY <2>1, <2>6 DEF ProviderDecides, TypeInv, TypeOK
    <3>4. /\ taken'[r] = IF o = "succeeded" THEN taken[r] + 1 ELSE taken[r]
          /\ \A s \in Ids \ {r} : taken'[s] = taken[s]
      BY <2>1, <2>6 DEF ProviderDecides, TypeInv, TypeOK
    <3>5. BooksInv'
      <4>1. BooksFit(r)
        BY <2>1 DEF BooksInv
      <4>2. BooksFit(r)'
        BY <2>6, <3>1, <3>2, <3>3, <3>4, <4>1 DEF BooksFit, Told, Outcome
      <4>3. QED
        BY <2>1, <3>1, <3>3, <3>4, <4>2, BooksKept
    <3>6. ReadFits(w)'
      BY <2>6, <3>1, <3>2, <3>3 DEF ReadFits
    <3>7. ASSUME NEW v \in Workers \ {w} PROVE ReadFits(v)'
      BY <3>1, <3>2, <3>3, ReadKept
    <3>8. QED
      BY <3>5, <3>6, <3>7 DEF ReadInv
  <2>7. CASE RecordOutcome(w)
    <3> DEFINE status == IF work[w].outcome = "succeeded" THEN "SUCCEEDED" ELSE "FAILED"
    <3>1. /\ work[w].at = "record" /\ UNCHANGED <<job, charge, refund, taken, returned, results>>
          /\ payment' = [payment EXCEPT ![r] = status]
          /\ Become(w, [at |-> "send", queue |-> "charge", id |-> r, type |-> TypeOf(status)])
      BY <2>7 DEF RecordOutcome, ToSend
    <3>2. /\ work'[w].at = "send" /\ work'[w].id = r /\ work'[w].type = TypeOf(status)
          /\ \A v \in Workers \ {w} : work'[v] = work[v]
      BY <3>1, BecomeEffect DEF TypeInv
    <3>3. payment[r] = "PENDING" /\ charge[r] = work[w].outcome /\ work[w].outcome \in Outcome
      BY <2>1, <2>2, <3>1, WorkShape DEF ReadFits
    <3>4. payment'[r] = status /\ \A s \in Ids \ {r} : payment'[s] = payment[s]
      BY <2>1, <3>1 DEF TypeInv, TypeOK
    <3>5. BooksInv'
      <4>1. BooksFit(r)
        BY <2>1 DEF BooksInv
      <4>2. UNCHANGED <<job, charge, refund, taken, returned, results>>
        BY <3>1
      <4>3. \/ payment'[r] = "SUCCEEDED" /\ charge[r] = "succeeded"
            \/ payment'[r] = "FAILED" /\ charge[r] = "declined"
        BY <3>3, <3>4 DEF Outcome
      <4>4. BooksFit(r)'
        BY <3>2, <3>3, <4>1, <4>2, <4>3 DEF BooksFit, Told
      <4>5. QED
        BY <2>1, <3>2, <3>4, <4>2, <4>4, BooksKept
    <3>6. ReadFits(w)'
      BY <3>2, <3>4 DEF ReadFits, TypeOf
    <3>7. ASSUME NEW v \in Workers \ {w} PROVE ReadFits(v)'
      BY <3>1, <3>2, <3>3, <3>4, ReadKept
    <3>8. QED
      BY <3>5, <3>6, <3>7 DEF ReadInv
  <2>8. CASE SendResult(w)
    <3>1. /\ work[w].at = "send" /\ work'[w].at = "finish"
          /\ \A v \in Workers \ {w} : work'[v] = work[v]
          /\ UNCHANGED <<job, payment, charge, refund, taken, returned>>
      BY <2>8, BecomeEffect DEF SendResult, TypeInv
    <3>2. \A s \in Ids : Told(s, "PaymentSucceeded")' <=>
             Told(s, "PaymentSucceeded") \/ (s = r /\ work[w].type = "PaymentSucceeded")
      BY <2>8 DEF SendResult, Told
    <3>3. BooksInv'
      BY <2>2, <3>1, <3>2 DEF BooksInv, BooksFit, ReadFits
    <3>4. QED
      BY <3>1, <3>3, ReadQuiet
  <2>9. CASE Bury(w)
    <3>1. /\ work'[w].at = "idle" /\ \A v \in Workers \ {w} : work'[v] = work[v]
          /\ UNCHANGED <<job, payment, charge, refund, taken, returned, results>>
      BY <2>9, BecomeEffect DEF Bury, TypeInv, Idle
    <3>2. QED
      BY <3>1, BooksQuiet, ReadQuiet
  <2>10. CASE FindPaid(w)
    <3>1. /\ work'[w].id = r /\ work'[w].at \in {"askBack", "finish"}
          /\ work'[w].at = "askBack" => payment[r] = "SUCCEEDED"
          /\ \A v \in Workers \ {w} : work'[v] = work[v]
          /\ UNCHANGED <<job, payment, charge, refund, taken, returned, results>>
      BY <2>10, BecomeEffect DEF FindPaid, ToRefund, TypeInv
    <3>2. ASSUME NEW v \in Workers PROVE ReadFits(v)'
      BY <3>1 DEF ReadInv, ReadFits
    <3>3. QED
      BY <3>1, <3>2, BooksQuiet DEF ReadInv
  <2>11. CASE AskBack(w)
    <3>1. /\ work[w].at = "askBack" /\ work'[w].id = r
          /\ \/ work'[w].at = "payBack" /\ r \notin refund
             \/ work'[w].at = "recordBack" /\ r \in refund
          /\ \A v \in Workers \ {w} : work'[v] = work[v]
          /\ UNCHANGED <<job, payment, charge, refund, taken, returned, results>>
      BY <2>11, BecomeEffect DEF AskBack, ToRefund, TypeInv
    <3>2. ASSUME NEW v \in Workers PROVE ReadFits(v)'
      BY <3>1 DEF ReadInv, ReadFits
    <3>3. QED
      BY <3>1, <3>2, BooksQuiet DEF ReadInv
  <2>12. CASE PayBack(w)
    <3>1. /\ work[w].at = "payBack" /\ work'[w].at = "recordBack" /\ work'[w].id = r
          /\ \A v \in Workers \ {w} : work'[v] = work[v]
          /\ UNCHANGED <<job, payment, charge, taken, results>>
          /\ refund' = refund \cup {r}
      BY <2>12, BecomeEffect DEF PayBack, ToRefund, TypeInv
    <3>2. payment[r] = "SUCCEEDED" /\ r \notin refund
      BY <2>2, <3>1 DEF ReadFits
    <3>3. returned'[r] = returned[r] + 1 /\ \A s \in Ids \ {r} : returned'[s] = returned[s]
      BY <2>1, <2>12 DEF PayBack, TypeInv, TypeOK
    <3>4. Told(r, "PaymentSucceeded")
      <4>1. work[w].queue = "refund" /\ LockFits(w)
        BY <2>1, <3>1, WorkShape DEF LockInv
      <4>2. job["refund"][r].state = "active"
        BY <2>1, <3>1, <4>1, OwnJob
      <4>3. QED
        BY <2>1, <4>2 DEF BooksInv, BooksFit
    <3>5. BooksInv'
      <4>1. BooksFit(r) /\ r \in refund'
        BY <2>1, <3>1 DEF BooksInv
      <4>2. BooksFit(r)'
        BY <3>1, <3>2, <3>3, <3>4, <4>1 DEF BooksFit, Told
      <4>3. QED
        BY <2>1, <3>1, <3>3, <4>2, BooksKept
    <3>6. ReadFits(w)'
      BY <3>1, <3>2 DEF ReadFits
    <3>7. ASSUME NEW v \in Workers \ {w} PROVE ReadFits(v)'
      BY <3>1, ReadKept
    <3>8. QED
      BY <3>5, <3>6, <3>7 DEF ReadInv
  <2>13. CASE RecordBack(w)
    <3>1. /\ work[w].at = "recordBack" /\ work'[w].at = "finish" /\ work'[w].id = r
          /\ \A v \in Workers \ {w} : work'[v] = work[v]
          /\ UNCHANGED <<job, charge, refund, taken, returned, results>>
      BY <2>13, BecomeEffect DEF RecordBack, ToRefund, TypeInv
    <3>2. payment[r] = "SUCCEEDED" /\ r \in refund
      BY <2>2, <3>1 DEF ReadFits
    <3>3. payment'[r] = "REFUNDED" /\ \A s \in Ids \ {r} : payment'[s] = payment[s]
      BY <2>1, <2>13 DEF RecordBack, TypeInv, TypeOK
    <3>4. BooksInv'
      <4>1. BooksFit(r)
        BY <2>1 DEF BooksInv
      <4>2. BooksFit(r)'
        BY <3>1, <3>2, <3>3, <4>1 DEF BooksFit, Told
      <4>3. QED
        BY <2>1, <3>1, <3>3, <4>2, BooksKept
    <3>5. ReadFits(w)'
      BY <3>1 DEF ReadFits
    <3>6. ASSUME NEW v \in Workers \ {w} PROVE ReadFits(v)'
      BY <3>1, <3>3, ReadKept
    <3>7. QED
      BY <3>4, <3>5, <3>6 DEF ReadInv
  <2>14. CASE Finish(w)
    BY <2>14, QueueQuiet DEF Finish
  <2>15. QED
    BY <1>5, <2>3, <2>4, <2>5, <2>6, <2>7, <2>8, <2>9, <2>10, <2>11, <2>12, <2>13, <2>14
       DEF Proceed
<1>6. CASE UNCHANGED vars
  BY <1>6, BooksQuiet, ReadQuiet DEF vars
<1>7. QED
  BY <1>1, <1>2, <1>3, <1>4, <1>5, <1>6 DEF Next

-----------------------------------------------------------------------------
(* Every charge is accounted for.                                          *)

\* The answers stay right as long as jobs end with their evidence and evidence is not lost.
LEMMA AnswersFrame ==
    ASSUME AnswersInv, results \subseteq results', deadLetters \subseteq deadLetters',
           crashes > 0 => crashes' > 0,
           \A s \in Ids :
              \/ job'["charge"][s] = job["charge"][s]
              \/ /\ job["charge"][s].state # "failed"
                 /\ job'["charge"][s].state = "completed" => \E m \in results : m.id = s
                 /\ job'["charge"][s].state = "failed" =>
                       \/ job'["charge"][s].stalls > MaxStalls
                       \/ \E v \in Workers : work'[v].at = "bury" /\ work'[v].id = s,
           \A s \in deadLetters' \ deadLetters :
              job'["charge"][s].state = "failed" /\ job'["charge"][s].made = Attempts,
           \A v \in Workers :
              work[v].at = "bury" =>
                 work'[v] = work[v] \/ work[v].id \in deadLetters' \/ crashes' > 0,
           \A v \in Workers :
              \/ work'[v] = work[v]
              \/ ~(work'[v].at = "finish" /\ work'[v].queue = "charge")
              \/ \E m \in results' : m.id = work'[v].id
    PROVE  AnswersInv'
<1>1. ASSUME NEW s \in Ids, job'["charge"][s].state = "completed"
      PROVE  \E m \in results' : m.id = s
  BY <1>1 DEF AnswersInv, ChargesAreAccountedFor
<1>2. ASSUME NEW s \in Ids, s \in deadLetters'
      PROVE  job'["charge"][s].state = "failed" /\ job'["charge"][s].made = Attempts
  BY <1>2 DEF AnswersInv, ChargesAreAccountedFor
<1>3. ASSUME NEW s \in Ids, job'["charge"][s].state = "failed"
      PROVE  \/ s \in deadLetters'
             \/ \E w \in Workers : work'[w].at = "bury" /\ work'[w].id = s
             \/ job'["charge"][s].stalls > MaxStalls
             \/ crashes' > 0
  <2>1. CASE job'["charge"][s] = job["charge"][s]
    <3>1. \/ s \in deadLetters
          \/ \E w \in Workers : work[w].at = "bury" /\ work[w].id = s
          \/ job["charge"][s].stalls > MaxStalls
          \/ crashes > 0
      BY <1>3, <2>1 DEF AnswersInv, ChargesAreAccountedFor
    <3>2. CASE \E w \in Workers : work[w].at = "bury" /\ work[w].id = s
      <4>1. PICK w \in Workers : work[w].at = "bury" /\ work[w].id = s
        BY <3>2
      <4>2. work'[w] = work[w] \/ s \in deadLetters' \/ crashes' > 0
        BY <4>1
      <4>3. QED
        BY <4>1, <4>2
    <3>3. QED
      BY <2>1, <3>1, <3>2
  <2>2. CASE job'["charge"][s] # job["charge"][s]
    BY <1>3, <2>2
  <2>3. QED
    BY <2>1, <2>2
<1>4. ASSUME NEW v \in Workers, work'[v].at = "finish", work'[v].queue = "charge"
      PROVE  \E m \in results' : m.id = work'[v].id
  BY <1>4 DEF AnswersInv
<1>5. ChargesAreAccountedFor'
  BY <1>1, <1>2, <1>3 DEF ChargesAreAccountedFor
<1>6. QED
  BY <1>4, <1>5 DEF AnswersInv

LEMMA InitAnswers == Init => AnswersInv
BY DEF Init, AnswersInv, ChargesAreAccountedFor, NoJob, Queues, Idle

LEMMA AnswersStep ==
    ASSUME TypeInv, LockInv, AnswersInv, [Next]_vars
    PROVE  AnswersInv'
<1> USE DEF money, faults
<1>1. "charge" \in Queues /\ "refund" \in Queues
  BY DEF Queues
<1>2. ASSUME NEW q \in Queues, NEW R \in SUBSET Ids, NEW F \in SUBSET Ids, AddJobs(q, R, F)
      PROVE  AnswersInv'
  <2>1. \A p \in Queues, s \in Ids :
           \/ job'[p][s] = job[p][s]
           \/ /\ p = q /\ s \in R /\ job[p][s].state = "none"
              /\ job'[p][s].state = "waiting" /\ job'[p][s].owner = Nobody
    BY <1>2, AddEffect
  <2>2. UNCHANGED <<work, results, deadLetters, crashes>>
    BY <1>2 DEF AddJobs
  <2>3. QED
    BY <1>1, <2>1, <2>2, AnswersFrame
<1>3. ASSUME NEW w \in Workers, NEW q \in Queues, NEW r \in Ids, TakeJob(w, q, r)
      PROVE  AnswersInv'
  <2>1. /\ job[q][r].state = "waiting" /\ job'[q][r].state = "active"
        /\ work[w] = Idle
        /\ work'[w] = [at |-> Start(q), queue |-> q, id |-> r]
        /\ \A p \in Queues, s \in Ids : <<p, s>> # <<q, r>> => job'[p][s] = job[p][s]
        /\ \A v \in Workers \ {w} : work'[v] = work[v]
    BY <1>3, TakeEffect
  <2>2. work'[w].at # "finish" /\ work[w].at = "idle"
    BY <2>1 DEF Start, Idle
  <2>3. UNCHANGED <<results, deadLetters, crashes>>
    BY <1>3 DEF TakeJob
  <2>4. \A s \in Ids : \/ job'["charge"][s] = job["charge"][s]
                       \/ /\ job["charge"][s].state = "waiting"
                          /\ job'["charge"][s].state = "active"
    BY <1>1, <2>1
  <2>5. QED
    BY <2>1, <2>2, <2>3, <2>4, AnswersFrame
<1>4. ASSUME NEW w \in Workers, work[w] # Idle, work[w].at # "bury", Fail(w),
             UNCHANGED <<results, deadLetters, crashes>>
      PROVE  AnswersInv'
  <2> DEFINE q == work[w].queue
             r == work[w].id
  <2>1. /\ q \in Queues /\ r \in Ids
        /\ job' = job \/ job[q][r].state = "active"
        /\ \/ work'[w] = Idle
           \/ work'[w] = [at |-> "bury", queue |-> "charge", id |-> r]
        /\ job' # job => job'[q][r].state # "completed"
        /\ job' # job /\ q = "charge" /\ job'[q][r].state = "failed"
             => work'[w] = [at |-> "bury", queue |-> "charge", id |-> r]
        /\ \A p \in Queues, s \in Ids : <<p, s>> # <<q, r>> => job'[p][s] = job[p][s]
        /\ \A v \in Workers \ {w} : work'[v] = work[v]
    BY <1>4, FailEffect
  <2>2. work'[w].at # "finish"
    BY <2>1 DEF Idle
  <2>3. \A s \in Ids : \/ job'["charge"][s] = job["charge"][s]
                       \/ /\ job["charge"][s].state = "active"
                          /\ job'["charge"][s].state # "completed"
                          /\ job'["charge"][s].state = "failed"
                               => work'[w].at = "bury" /\ work'[w].id = s
    BY <1>1, <2>1
  <2>4. QED
    BY <1>4, <2>1, <2>2, <2>3, AnswersFrame
<1>5. ASSUME NEW w \in Workers, Proceed(w) PROVE AnswersInv'
  <2> DEFINE q == work[w].queue
             r == work[w].id
  <2>1. work[w] # Idle /\ r \in Ids /\ work[w] \in Work
    BY <1>5, ProceedShape
  <2>2. CASE FindPayment(w) /\ Fail(w)
    BY <1>4, <2>1, <2>2 DEF FindPayment
  <2>3. CASE Bury(w)
    <3>1. /\ work[w].at = "bury" /\ deadLetters' = deadLetters \cup {r}
          /\ UNCHANGED <<job, results, crashes>>
          /\ work'[w].at = "idle" /\ \A v \in Workers \ {w} : work'[v] = work[v]
      BY <2>3, BecomeEffect DEF Bury, TypeInv, Idle
    <3>2. job["charge"][r].state = "failed" /\ job["charge"][r].made = Attempts
      BY <3>1 DEF LockInv, LockFits
    <3>3. QED
      BY <3>1, <3>2, AnswersFrame
  <2>4. CASE Finish(w)
    <3>1. /\ q \in Queues
          /\ \/ job' = job
             \/ job[q][r].state = "active" /\ job'[q][r].state = "completed"
          /\ work'[w] = Idle
          /\ \A p \in Queues, s \in Ids : <<p, s>> # <<q, r>> => job'[p][s] = job[p][s]
          /\ \A v \in Workers \ {w} : work'[v] = work[v]
      BY <2>4, FinishEffect
    <3>2. work[w].at = "finish" /\ UNCHANGED <<results, deadLetters, crashes>>
      BY <2>4 DEF Finish
    <3>3. work'[w].at = "idle"
      BY <3>1 DEF Idle
    <3>4. q = "charge" => \E m \in results : m.id = r
      BY <3>2 DEF AnswersInv
    <3>5. \A s \in Ids : \/ job'["charge"][s] = job["charge"][s]
                         \/ /\ job["charge"][s].state = "active"
                            /\ job'["charge"][s].state = "completed"
                            /\ \E m \in results : m.id = s
      BY <1>1, <3>1, <3>4
    <3>6. QED
      BY <3>1, <3>2, <3>3, <3>5, AnswersFrame
  <2>5. CASE /\ UNCHANGED job
             /\ work[w].at \notin {"bury", "finish"}
             /\ work'[w].at \notin {"idle", "bury"}
             /\ work'[w].queue = q /\ work'[w].id = r
             /\ \A v \in Workers \ {w} : work'[v] = work[v]
    <3>1. results \subseteq results' /\ UNCHANGED <<deadLetters, crashes>>
      BY <1>5, <2>5 DEF Proceed, FindPayment, ClaimPayment, AskProvider, ProviderDecides,
         RecordOutcome, SendResult, Bury, FindPaid, AskBack, PayBack, RecordBack, Finish
    <3>2. work'[w].at = "finish" /\ q = "charge" => \E m \in results' : m.id = r
      <4>1. CASE SendResult(w)
        <5>1. [id |-> r, type |-> work[w].type] \in results'
          BY <4>1 DEF SendResult
        <5>2. [id |-> r, type |-> work[w].type].id = r
          OBVIOUS
        <5>3. QED
          BY <5>1, <5>2
      <4>2. CASE FindPaid(w) \/ RecordBack(w) \/ AskBack(w) \/ PayBack(w)
        BY <2>1, <4>2, WorkShape DEF FindPaid, RecordBack, AskBack, PayBack
      <4>3. CASE FindPayment(w) /\ ~Fail(w)
        <5>1. \/ Become(w, [at |-> "send", queue |-> "charge", id |-> r,
                            type |-> TypeOf(payment[r])])
              \/ Become(w, [at |-> "ask", queue |-> "charge", id |-> r])
              \/ Become(w, [at |-> "claim", queue |-> "charge", id |-> r])
          BY <4>3 DEF FindPayment, ToSend, ToCharge
        <5>2. QED
          BY <5>1, BecomeEffect DEF TypeInv
      <4>4. CASE AskProvider(w)
        <5>1. \/ Become(w, [at |-> "decide", queue |-> "charge", id |-> r])
              \/ Become(w, [at |-> "record", queue |-> "charge", id |-> r,
                            outcome |-> charge[r]])
          BY <4>4 DEF AskProvider, ToCharge, ToRecord
        <5>2. QED
          BY <5>1, BecomeEffect DEF TypeInv
      <4>5. CASE ClaimPayment(w)
        BY <4>5, BecomeEffect DEF ClaimPayment, ToCharge, TypeInv
      <4>6. CASE \E o \in Outcome : ProviderDecides(w, o)
        BY <4>6, BecomeEffect DEF ProviderDecides, ToRecord, TypeInv
      <4>7. CASE RecordOutcome(w)
        BY <4>7, BecomeEffect DEF RecordOutcome, ToSend, TypeInv
      <4>8. ~Bury(w) /\ ~Finish(w)
        BY <2>5 DEF Bury, Finish
      <4>9. CASE FindPayment(w) /\ Fail(w)
        <5>1. \/ work'[w] = Idle
              \/ work'[w] = [at |-> "bury", queue |-> "charge", id |-> r]
          BY <2>1, <4>9, FailEffect
        <5>2. QED
          BY <2>5, <5>1 DEF Idle
      <4>10. QED
        BY <1>5, <4>1, <4>2, <4>3, <4>4, <4>5, <4>6, <4>7, <4>8, <4>9 DEF Proceed
    <3>3. QED
      BY <2>5, <3>1, <3>2, AnswersFrame
  <2>6. QED
    BY <1>5, <2>2, <2>3, <2>4, <2>5, ProceedShape
<1>6. ASSUME NEW w \in Workers, Crash(w) PROVE AnswersInv'
  <2>1. /\ work'[w] = Idle /\ \A v \in Workers \ {w} : work'[v] = work[v]
        /\ UNCHANGED <<job, results, deadLetters>> /\ crashes' = crashes + 1
    BY <1>6, BecomeEffect DEF Crash, TypeInv
  <2>2. crashes' > 0 /\ work'[w].at = "idle"
    BY <2>1, FaultsAssumption DEF TypeInv, TypeOK, Idle
  <2>3. QED
    BY <2>1, <2>2, AnswersFrame
<1>7. ASSUME NEW q \in Queues, NEW r \in Ids, Stalled(q, r) PROVE AnswersInv'
  <2>1. /\ job[q][r].state = "active" /\ UNCHANGED <<work, results, deadLetters, crashes>>
        /\ \/ job'[q][r].state = "waiting"
           \/ job'[q][r].state = "failed" /\ job'[q][r].stalls > MaxStalls
        /\ \A p \in Queues, s \in Ids : <<p, s>> # <<q, r>> => job'[p][s] = job[p][s]
    BY <1>7, ReleaseEffect DEF Stalled
  <2>2. \A s \in Ids : \/ job'["charge"][s] = job["charge"][s]
                       \/ /\ job["charge"][s].state = "active"
                          /\ \/ job'["charge"][s].state = "waiting"
                             \/ /\ job'["charge"][s].state = "failed"
                                /\ job'["charge"][s].stalls > MaxStalls
    BY <1>1, <2>1
  <2>3. QED
    BY <2>1, <2>2, AnswersFrame
<1>8. CASE UNCHANGED vars
  BY <1>8, AnswersFrame DEF vars
<1>9. CASE \E R \in SUBSET Ids : \E F \in SUBSET R : ChargesQueued(R, F)
  BY <1>1, <1>2, <1>9 DEF ChargesQueued
<1>10. CASE \E r \in Ids : RefundQueued(r)
  <2>1. PICK r \in Ids : AddJobs("refund", {r}, {})
    BY <1>10 DEF RefundQueued
  <2>2. QED
    BY <1>1, <1>2, <2>1
<1>11. CASE \E w \in Workers : Throws(w)
  BY <1>4, <1>11 DEF Throws
<1>12. QED
  BY <1>3, <1>5, <1>6, <1>7, <1>8, <1>9, <1>10, <1>11 DEF Next, Deliver

-----------------------------------------------------------------------------
(* Theorems.                                                               *)

\* What holds even of lost locks, and what holds until the first of them.
OwnedInv == lostLocks = 0 => LockInv /\ BooksInv /\ ReadInv

LosingInv == TypeInv /\ TakenInv /\ JobsInv /\ OwnedInv

\* Lost locks are counted.
LEMMA LosesNone ==
    ASSUME TypeInv, [NextLosing]_vars, lostLocks' = 0
    PROVE  lostLocks = 0 /\ [Next]_vars
<1>1. ASSUME NEW q \in Queues, NEW r \in Ids, LoseLock(q, r) PROVE FALSE
  BY <1>1, FaultsAssumption DEF LoseLock, TypeInv, TypeOK
<1>2. [Next]_vars
  BY <1>1 DEF NextLosing, LosesLocks
<1>3. ASSUME NEW w \in Workers, Deliver(w) \/ Proceed(w) \/ Throws(w) \/ Crash(w)
      PROVE  lostLocks' = lostLocks
  BY <1>3 DEF Deliver, TakeJob, Proceed, Throws, Crash, FindPayment, ClaimPayment, AskProvider,
              ProviderDecides, RecordOutcome, SendResult, Bury, FindPaid, AskBack, PayBack,
              RecordBack, Finish, faults
<1>4. lostLocks' = lostLocks
  BY <1>2, <1>3 DEF Next, ChargesQueued, RefundQueued, AddJobs, Stalled, vars, faults
<1>5. QED
  BY <1>2, <1>4

LEMMA InitLosing == Init => LosingInv
BY InitTyped, InitTaken, InitJobs, InitBooks DEF LosingInv, OwnedInv

LEMMA LosingStep == LosingInv /\ [NextLosing]_vars => LosingInv'
<1> SUFFICES ASSUME LosingInv, [NextLosing]_vars PROVE LosingInv'
  OBVIOUS
<1>1. TypeInv' /\ TakenInv' /\ JobsInv'
  BY TypesStep, TakenStep, JobsStep DEF LosingInv
<1>2. ASSUME lostLocks' = 0 PROVE LockInv' /\ BooksInv' /\ ReadInv'
  <2>1. TypeInv /\ LockInv /\ BooksInv /\ ReadInv /\ [Next]_vars
    BY <1>2, LosesNone DEF LosingInv, OwnedInv
  <2>2. QED
    BY <2>1, LockStep, BooksStep
<1>3. QED
  BY <1>1, <1>2 DEF LosingInv, OwnedInv

LEMMA LosingKept == SpecLosingLocks => []LosingInv
<1>1. LosingInv /\ [Next \/ LosesLocks]_vars => LosingInv'
  BY LosingStep DEF NextLosing
<1>2. QED
  BY <1>1, InitLosing, PTL DEF SpecLosingLocks

PaymentInv == TypeInv /\ LockInv /\ BooksInv /\ ReadInv /\ AnswersInv

LEMMA PaymentKept == Spec => []PaymentInv
<1>1. Init => PaymentInv
  BY InitTyped, InitBooks, InitAnswers DEF PaymentInv
<1>2. PaymentInv /\ [Next]_vars => PaymentInv'
  <2> SUFFICES ASSUME PaymentInv, [Next]_vars PROVE PaymentInv'
    OBVIOUS
  <2>1. TypeInv /\ LockInv /\ BooksInv /\ ReadInv /\ AnswersInv /\ [NextLosing]_vars
    BY DEF PaymentInv, NextLosing
  <2>2. TypeInv'
    BY <2>1, TypesStep
  <2>3. LockInv'
    BY <2>1, LockStep
  <2>4. BooksInv' /\ ReadInv'
    BY <2>1, BooksStep
  <2>5. AnswersInv'
    BY <2>1, AnswersStep
  <2>6. QED
    BY <2>2, <2>3, <2>4, <2>5 DEF PaymentInv
<1>3. QED
  BY <1>1, <1>2, PTL DEF Spec

\* The variables keep their types, whether or not locks are lost under a living worker.
THEOREM TypesHold == SpecLosingLocks => []TypeOK
<1>1. LosingInv => TypeOK
  BY DEF LosingInv, TypeInv
<1>2. QED
  BY <1>1, LosingKept, PTL

\* Even if the queue library gives one job to two workers at once, a success is reported, and
\* money given back, only after the money was taken.
THEOREM NoSuccessIsInvented == SpecLosingLocks => []SuccessesWereTaken
<1>1. LosingInv => SuccessesWereTaken
  BY DEF LosingInv, TakenInv, SuccessesWereTaken
<1>2. QED
  BY <1>1, LosingKept, PTL

\* Even then, no money goes back that nobody asked to have returned.
ReturnsWereAsked == \A r \in Ids : returned[r] # 0 => job["refund"][r].state # "none"

\* Workers and redeliveries never make up a refund.
THEOREM NoRefundIsInvented == SpecLosingLocks => []ReturnsWereAsked
<1>1. LosingInv => ReturnsWereAsked
  BY DEF LosingInv, JobsInv, ReturnsWereAsked
<1>2. QED
  BY <1>1, LosingKept, PTL

\* The table follows the money up to the first lost lock, wherever workers crash.
THEOREM TableFollowsUntilLost == SpecLosingLocks => [](lostLocks = 0 => RecordFollowsMoney)
<1>1. LosingInv => (lostLocks = 0 => RecordFollowsMoney)
  BY DEF LosingInv, OwnedInv, BooksInv, BooksFit, RecordFollowsMoney
<1>2. QED
  BY <1>1, LosingKept, PTL

\* As long as every worker keeps its jobs to itself, no two of them are in the middle of one job.
OneWorkerPerJob ==
    \A v, w \in Workers :
        /\ v # w
        /\ work[v].at \notin {"idle", "bury"} /\ work[w].at \notin {"idle", "bury"}
        => <<work[v].queue, work[v].id>> # <<work[w].queue, work[w].id>>

\* The redeliveries of the queue library, after a crash or a throw, keep a job with one worker.
THEOREM JobsAreNotShared == Spec => []OneWorkerPerJob
<1>1. LockInv => OneWorkerPerJob
  <2>1. \A w \in Workers : work[w].at # "idle" => work[w] # Idle
    BY DEF Idle
  <2>2. QED
    BY <2>1 DEF LockInv, LockFits, Holds, OneWorkerPerJob
<1>2. QED
  BY <1>1, PaymentKept, PTL DEF PaymentInv

\* Whatever throws, dies and is delivered again, the payments table follows the money.
THEOREM TableFollowsMoney == Spec => []RecordFollowsMoney
<1>1. BooksInv => RecordFollowsMoney
  BY DEF BooksInv, BooksFit, RecordFollowsMoney
<1>2. QED
  BY <1>1, PaymentKept, PTL DEF PaymentInv

\* Every charge job that ended left a result or its evidence.
THEOREM ChargesLeaveEvidence == Spec => []ChargesAreAccountedFor
<1>1. AnswersInv => ChargesAreAccountedFor
  BY DEF AnswersInv
<1>2. QED
  BY <1>1, PaymentKept, PTL DEF PaymentInv

\* A step on the payments table is one of the four.
LEMMA ForwardStep ==
    ASSUME PaymentInv, [Next]_vars, NEW s \in Ids, payment'[s] # payment[s]
    PROVE  <<payment[s], payment'[s]>> \in {<<"NONE", "PENDING">>, <<"PENDING", "SUCCEEDED">>,
                                            <<"PENDING", "FAILED">>, <<"SUCCEEDED", "REFUNDED">>}
<1>1. PICK w \in Workers : ClaimPayment(w) \/ RecordOutcome(w) \/ RecordBack(w)
  BY DEF Next, vars, ChargesQueued, RefundQueued, AddJobs, Deliver, TakeJob, Proceed, Throws,
         Crash, Stalled, FindPayment, AskProvider, ProviderDecides, SendResult, Bury, FindPaid,
         AskBack, PayBack, Finish
<1>2. ReadFits(w) /\ TypeOK
  BY DEF PaymentInv, ReadInv, TypeInv
<1>3. CASE ClaimPayment(w)
  <2>1. s = work[w].id /\ payment[s] = "NONE" /\ payment'[s] = "PENDING"
    BY <1>2, <1>3 DEF ClaimPayment, ReadFits, TypeOK
  <2>2. QED
    BY <2>1
<1>4. CASE RecordOutcome(w)
  <2>1. s = work[w].id /\ payment[s] = "PENDING" /\ payment'[s] \in {"SUCCEEDED", "FAILED"}
    BY <1>2, <1>4 DEF RecordOutcome, ReadFits, TypeOK
  <2>2. QED
    BY <2>1
<1>5. CASE RecordBack(w)
  <2>1. s = work[w].id /\ payment[s] = "SUCCEEDED" /\ payment'[s] = "REFUNDED"
    BY <1>2, <1>5 DEF RecordBack, ReadFits, TypeOK
  <2>2. QED
    BY <2>1
<1>6. QED
  BY <1>1, <1>3, <1>4, <1>5

\* A payment's status only moves forward, although the updates of its row are blind.
THEOREM StatusMovesForward == Spec => PaymentMovesForward
<1>1. PaymentInv /\ [Next]_vars
        => [\A r \in Ids : payment'[r] # payment[r] =>
              <<payment[r], payment'[r]>> \in {<<"NONE", "PENDING">>, <<"PENDING", "SUCCEEDED">>,
                                               <<"PENDING", "FAILED">>,
                                               <<"SUCCEEDED", "REFUNDED">>}]_vars
  BY ForwardStep
<1>2. QED
  BY <1>1, PaymentKept, PTL DEF Spec, PaymentMovesForward

-----------------------------------------------------------------------------
(* The account is kept.                                                    *)

\* Where the money is, read off the ledgers.
PlaceFits(r) ==
    /\ charge[r] = "none" => place[r] = "guest"
    /\ charge[r] = "declined" => place[r] = "declined"
    /\ charge[r] = "succeeded" /\ r \notin refund => place[r] = "host"
    /\ r \in refund => place[r] = "returned"

AccountInv == PaymentInv /\ \A r \in Ids : PlaceFits(r)

LEMMA AccountKept == PaymentInv => AccountInv
<1> SUFFICES ASSUME PaymentInv, NEW r \in Ids PROVE PlaceFits(r)
  BY DEF AccountInv
<1>1. BooksFit(r)
  BY DEF PaymentInv, BooksInv
<1>2. CASE charge[r] = "none" \/ charge[r] = "declined"
  BY <1>1, <1>2 DEF BooksFit, place, PlaceFits
<1>3. CASE charge[r] = "succeeded"
  BY <1>1, <1>3 DEF BooksFit, place, PlaceFits
<1>4. charge[r] \in {"none", "declined", "succeeded"}
  BY DEF PaymentInv, TypeInv, TypeOK, Outcome
<1>5. QED
  BY <1>2, <1>3, <1>4

\* Steps that touch neither ledger nor results are invisible.
LEMMA PromiseQuiet ==
    ASSUME UNCHANGED <<charge, taken, returned, results>>
    PROVE  UNCHANGED Promise!vars
<1>1. place' = place
  BY DEF place
<1>2. told' = told
  BY DEF told
<1>3. QED
  BY <1>1, <1>2 DEF Promise!vars

\* Money that moves for one booking moves for no other.
LEMMA PlaceMoves ==
    ASSUME NEW r \in Ids, NEW to, place'[r] = to,
           UNCHANGED results,
           \A s \in Ids \ {r} :
              charge'[s] = charge[s] /\ taken'[s] = taken[s] /\ returned'[s] = returned[s]
    PROVE  place' = [place EXCEPT ![r] = to] /\ told' = told
<1>1. ASSUME NEW s \in Ids \ {r} PROVE place'[s] = place[s]
  BY DEF place
<1>2. /\ place = [s \in Ids |-> place[s]]
      /\ place' = [s \in Ids |-> place'[s]]
  BY DEF place
<1>3. place' = [place EXCEPT ![r] = to]
  BY <1>1, <1>2
<1>4. told' = told
  BY DEF told
<1>5. QED
  BY <1>3, <1>4

\* The provider takes the money of a booking that was never charged, or declines.
LEMMA PromiseTakes ==
    ASSUME AccountInv, AccountInv', NEW w \in Workers, NEW o \in Outcome, ProviderDecides(w, o)
    PROVE  Promise!Next
<1>1. PICK r : r = work[w].id
  OBVIOUS
<1>2. TypeInv /\ ReadFits(w)
  BY DEF AccountInv, PaymentInv, ReadInv
<1>3. r \in Ids /\ charge[r] = "none"
  BY <1>1, <1>2, WorkShape DEF TypeInv, TypeOK, ProviderDecides, ReadFits, Idle
<1>4. /\ UNCHANGED <<refund, returned, results>>
      /\ charge'[r] = o
      /\ \A s \in Ids \ {r} : charge'[s] = charge[s] /\ taken'[s] = taken[s]
  BY <1>1, <1>2, <1>3 DEF ProviderDecides, TypeInv, TypeOK
<1>5. PlaceFits(r) /\ PlaceFits(r)' /\ BooksFit(r)
  BY <1>3 DEF AccountInv, PaymentInv, BooksInv
<1>6. r \notin refund'
  BY <1>3, <1>4, <1>5 DEF BooksFit
<1>7. /\ place[r] = "guest"
      /\ place'[r] = "host" \/ place'[r] = "declined"
  BY <1>3, <1>4, <1>5, <1>6 DEF PlaceFits, Outcome
<1>8. place' = [place EXCEPT ![r] = place'[r]] /\ told' = told
  BY <1>3, <1>4, PlaceMoves
<1>9. Promise!Take(r) \/ Promise!Decline(r)
  BY <1>3, <1>7, <1>8 DEF Promise!Take, Promise!Decline, Promise!Move
<1>10. QED
  BY <1>3, <1>9 DEF Promise!Next

\* It gives back only what it took, and only for a booking the API was told is paid.
LEMMA PromiseReturns ==
    ASSUME AccountInv, AccountInv', NEW w \in Workers, PayBack(w)
    PROVE  Promise!Next
<1>1. PICK r : r = work[w].id
  OBVIOUS
<1>2. TypeInv /\ LockInv /\ ReadFits(w)
  BY DEF AccountInv, PaymentInv, ReadInv
<1>3. /\ r \in Ids /\ payment[r] = "SUCCEEDED" /\ r \notin refund
      /\ work[w] # Idle /\ work[w].at = "payBack" /\ work[w].queue = "refund"
  BY <1>1, <1>2, WorkShape DEF TypeInv, TypeOK, PayBack, ReadFits, Idle
<1>4. /\ UNCHANGED <<charge, taken, results>> /\ r \in refund'
      /\ \A s \in Ids \ {r} : returned'[s] = returned[s]
  BY <1>1, <1>2, <1>3 DEF PayBack, TypeInv, TypeOK
<1>5. PlaceFits(r) /\ PlaceFits(r)' /\ BooksFit(r)
  BY <1>3 DEF AccountInv, PaymentInv, BooksInv
<1>6. Told(r, "PaymentSucceeded")
  <2>1. job["refund"][r].state = "active"
    BY <1>1, <1>2, <1>3, OwnJob DEF LockInv
  <2>2. QED
    BY <1>5, <2>1 DEF BooksFit
<1>7. "PaymentSucceeded" \in told[r]
  <2>1. PICK m \in results : m.id = r /\ m.type = "PaymentSucceeded"
    BY <1>6 DEF Told
  <2>2. QED
    BY <1>3, <2>1 DEF told
<1>8. place[r] = "host" /\ place'[r] = "returned"
  BY <1>3, <1>4, <1>5 DEF PlaceFits, BooksFit
<1>9. place' = [place EXCEPT ![r] = place'[r]] /\ told' = told
  BY <1>3, <1>4, PlaceMoves
<1>10. Promise!Return(r)
  BY <1>7, <1>8, <1>9 DEF Promise!Return, Promise!Move
<1>11. QED
  BY <1>3, <1>10 DEF Promise!Next

\* A result is true when it is sent, or it was sent before.
LEMMA PromiseTells ==
    ASSUME AccountInv, AccountInv', NEW w \in Workers, SendResult(w)
    PROVE  Promise!Next \/ UNCHANGED Promise!vars
<1>1. PICK r, t : r = work[w].id /\ t = work[w].type
  OBVIOUS
<1>2. TypeInv /\ ReadFits(w)
  BY DEF AccountInv, PaymentInv, ReadInv
<1>3. r \in Ids /\ t \in ResultType /\ work[w].at = "send"
  BY <1>1, <1>2, WorkShape DEF TypeInv, TypeOK, SendResult, Idle
<1>4. /\ results' = results \cup {[id |-> r, type |-> t]}
      /\ UNCHANGED <<charge, taken, returned>>
  BY <1>1 DEF SendResult, money
<1>5. place' = place
  BY <1>4 DEF place
<1>6. PlaceFits(r) /\ BooksFit(r)
  BY <1>3 DEF AccountInv, PaymentInv, BooksInv
<1>7. CASE t = "PaymentSucceeded" /\ Told(r, "PaymentSucceeded")
  <2>1. results' = results
    BY <1>4, <1>7 DEF Told
  <2>2. QED
    BY <1>4, <2>1, PromiseQuiet
<1>8. CASE ~(t = "PaymentSucceeded" /\ Told(r, "PaymentSucceeded"))
  <2>1. \/ t = "PaymentSucceeded" /\ place[r] = "host"
        \/ t = "PaymentFailed" /\ place[r] \in {"declined", "returned"}
    BY <1>1, <1>2, <1>3, <1>6, <1>8 DEF PlaceFits, BooksFit, ReadFits, ResultType
  <2>2. told' = [told EXCEPT ![r] = told[r] \cup {t}]
    <3>1. told'[r] = told[r] \cup {t}
      <4>1. \A u : u \in told[r] <=> \E m \in results : m.id = r /\ m.type = u
        BY <1>3 DEF told
      <4>2. \A u : u \in told'[r] <=> \E m \in results' : m.id = r /\ m.type = u
        BY <1>3 DEF told
      <4>3. \A u : (\E m \in results' : m.id = r /\ m.type = u)
                 <=> u = t \/ \E m \in results : m.id = r /\ m.type = u
        <5>1. PICK n : n = [id |-> r, type |-> t]
          OBVIOUS
        <5>2. n.id = r /\ n.type = t
          BY <5>1
        <5>3. \A m : m \in results' <=> m \in results \/ m = n
          BY <1>4, <5>1
        <5>4. QED
          BY <5>2, <5>3
      <4>4. QED
        BY <4>1, <4>2, <4>3
    <3>2. \A s \in Ids \ {r} : told'[s] = told[s]
      BY <1>4 DEF told
    <3>3. /\ told = [s \in Ids |-> told[s]]
          /\ told' = [s \in Ids |-> told'[s]]
      BY DEF told
    <3>4. QED
      BY <3>1, <3>2, <3>3
  <2>3. Promise!TellSucceeded(r) \/ Promise!TellFailed(r)
    BY <1>5, <2>1, <2>2 DEF Promise!TellSucceeded, Promise!TellFailed, Promise!Tell
  <2>4. QED
    BY <1>3, <2>3 DEF Promise!Next
<1>9. QED
  BY <1>7, <1>8

\* Whatever throws, dies and is delivered again, the worker keeps its promise about the money.
THEOREM PromiseIsKept == Spec => AccountPromise
<1>1. Init => Promise!Init
  <2> SUFFICES ASSUME Init PROVE Promise!Init
    OBVIOUS
  <2>1. place = [r \in Ids |-> "guest"]
    BY DEF Init, place
  <2>2. told = [r \in Ids |-> {}]
    BY DEF Init, told
  <2>3. QED
    BY <2>1, <2>2 DEF Promise!Init
<1>2. AccountInv /\ AccountInv' /\ [Next]_vars => [Promise!Next]_(Promise!vars)
  <2> SUFFICES ASSUME AccountInv, AccountInv', [Next]_vars
               PROVE  Promise!Next \/ UNCHANGED Promise!vars
    OBVIOUS
  <2>1. \/ UNCHANGED <<charge, taken, returned, results>>
        \/ \E w \in Workers :
              \/ \E o \in Outcome : ProviderDecides(w, o)
              \/ PayBack(w)
              \/ SendResult(w)
    <3>1. CASE \E w \in Workers : Proceed(w)
      BY <3>1 DEF Proceed, FindPayment, ClaimPayment, AskProvider, RecordOutcome, Bury, FindPaid,
                  AskBack, RecordBack, Finish, money
    <3>2. CASE \E w \in Workers : Deliver(w) \/ Throws(w) \/ Crash(w)
      BY <3>2 DEF Deliver, TakeJob, Throws, Crash, money
    <3>3. CASE \/ \E R \in SUBSET Ids : \E F \in SUBSET R : ChargesQueued(R, F)
               \/ \E r \in Ids : RefundQueued(r)
               \/ \E q \in Queues, r \in Ids : Stalled(q, r)
      BY <3>3 DEF ChargesQueued, RefundQueued, AddJobs, Stalled, money
    <3>4. QED
      BY <3>1, <3>2, <3>3 DEF Next, vars
  <2>2. QED
    BY <2>1, PromiseQuiet, PromiseTakes, PromiseReturns, PromiseTells
<1>3. QED
  BY <1>1, <1>2, PaymentKept, AccountKept, PTL DEF Spec, AccountPromise, Promise!Spec
=============================================================================
