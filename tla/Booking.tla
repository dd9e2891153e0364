------------------------------ MODULE Booking ------------------------------
(***************************************************************************)
(* The reservation table of the API and every process that writes to it:   *)
(* guests placing and cancelling holds, hosts editing listings, the result *)
(* consumer settling payments and the two interval sweeps.                 *)
(*                                                                         *)
(* One database statement is one step.  Whatever a handler reads in one    *)
(* statement and uses in a later one is kept in task[p], so every          *)
(* interleaving of the statements of concurrent handlers is a behaviour.   *)
(***************************************************************************)
EXTENDS Integers, FiniteSets

CONSTANTS
    Guests,           \* guest ids
    Listings,         \* listing ids
    Ids,              \* reservation ids; at most that many holds are ever placed
    Requests,         \* concurrent activities of the API: HTTP requests and result jobs
    ExpiryTimers,     \* running passes of the expiry sweep (instances, overlapping ticks)
    CompletionTimers, \* running passes of the completion sweep
    Stays,            \* the [checkIn, checkOut] ranges guests ask for
    Rates,            \* the nightly prices, in cents, hosts set
    HoldTtl,          \* HOLD_TTL, in units of time
    DayLength,        \* units of time in a calendar day
    MaxTime,          \* bound: the clock stops there
    MaxCrashes,       \* bound: activities lost half-way
    NoRow             \* a row that does not exist

Time == 0 .. MaxTime
Procs == Requests \cup ExpiryTimers \cup CompletionTimers

ASSUME ProcsAssumption ==
    /\ Requests \cap ExpiryTimers = {}
    /\ Requests \cap CompletionTimers = {}
    /\ ExpiryTimers \cap CompletionTimers = {}
ASSUME BoundsAssumption ==
    /\ MaxTime \in Nat /\ MaxCrashes \in Nat
    /\ HoldTtl \in Nat /\ DayLength \in Nat \ {0}
ASSUME StaysAssumption == Stays \subseteq [checkIn : Nat, checkOut : Nat]
ASSUME RatesAssumption == Rates \subseteq Nat

-----------------------------------------------------------------------------
\* The schema.

Status == {"HELD", "CONFIRMED", "EXPIRED", "CANCELLED", "COMPLETED"}

Listing == [active : BOOLEAN, nightlyPriceCents : Rates]

Reservation == [guest : Guests, listing : Listings, stay : Stays,
                status : Status, priceTotalCents : Int, holdExpiresAt : Int]

ASSUME NoRowAssumption == NoRow \notin Reservation \cup Listing

ResultType == {"PaymentSucceeded", "PaymentFailed"}
Result == [id : Ids, type : ResultType]

\* What an activity holds between two of its statements.
Idle == [at |-> "idle"]
ClaimTask == [at : {"claim", "reclaim"}, guest : Guests, listing : Listings,
              stay : Stays, price : Int]
CancelTask == [at : {"cancel"}, id : Ids, wasPaid : BOOLEAN]
ReadBackTask == [at : {"readBack"}, id : Ids]
RefundTask == [at : {"cancelRefund", "settleRefund"}, id : Ids]
SweepTask == [at : {"expire", "complete"}, ids : SUBSET Ids]
AnnounceTask == [at : {"announce"}, status : Status, ids : SUBSET Ids]
Task == {Idle} \cup ClaimTask \cup CancelTask \cup ReadBackTask \cup RefundTask
               \cup SweepTask \cup AnnounceTask

VARIABLES
    now,         \* the clock every instance and the database read
    listing,     \* the listings table
    reservation, \* the reservations table
    outbox,      \* reservations whose BookingHeld event is in the outbox table
    results,     \* payment results the worker has sent so far
    refunds,     \* reservations a RefundRequested job was ever added for (its jobId)
    announced,   \* the status of each reservation watchers were last told
    task,        \* what each activity is in the middle of
    crashes      \* activities lost so far

vars == <<now, listing, reservation, outbox, results, refunds, announced, task, crashes>>

TypeOK ==
    /\ now \in Time
    /\ listing \in [Listings -> Listing \cup {NoRow}]
    /\ reservation \in [Ids -> Reservation \cup {NoRow}]
    /\ outbox \subseteq Ids
    /\ results \subseteq Result
    /\ refunds \subseteq Ids
    /\ announced \in [Ids -> Status \cup {"NONE"}]
    /\ task \in [Procs -> Task]
    /\ crashes \in 0 .. MaxCrashes

-----------------------------------------------------------------------------
\* Reading the table.

Booked == {r \in Ids : reservation[r] # NoRow}

Has(r, s) == r \in Booked /\ reservation[r].status = s

\* The rows the exclusion constraint counts.
Live == {r \in Ids : Has(r, "HELD") \/ Has(r, "CONFIRMED")}

\* Half-open ranges: one stay may begin at the instant another ends.
Overlap(s, t) == s.checkIn < t.checkOut /\ t.checkIn < s.checkOut

\* Slip: the constraint counts confirmed rows only.
ConflictsWithConfirmed(l, s) ==
    {r \in Ids : /\ Has(r, "CONFIRMED")
                 /\ reservation[r].listing = l
                 /\ Overlap(reservation[r].stay, s)}

Conflicts(l, s) ==
    {r \in Live : reservation[r].listing = l /\ Overlap(reservation[r].stay, s)}

\* Slips: the expiry leaves alone a hold whose payment has an answer; the completion
\* forgets the status.
StaleHoldsUnanswered ==
    {r \in Ids : /\ Has(r, "HELD")
                 /\ reservation[r].holdExpiresAt < now
                 /\ \A m \in results : m.id # r}
FinishedStaysAnyStatus ==
    {r \in Ids : /\ Has(r, "HELD") \/ Has(r, "CONFIRMED")
                 /\ reservation[r].stay.checkOut < now}

\* The rows each sweep's WHERE clause selects at this instant.
StaleHolds == {r \in Ids : Has(r, "HELD") /\ reservation[r].holdExpiresAt < now}
FinishedStays == {r \in Ids : Has(r, "CONFIRMED") /\ reservation[r].stay.checkOut < now}

\* The table after UPDATE reservations SET status = s for the rows of R.
WithStatus(R, s) ==
    [r \in Ids |-> IF r \in R THEN [reservation[r] EXCEPT !.status = s] ELSE reservation[r]]

AllowedTransitions ==
    [from \in Status |->
        CASE from = "HELD"      -> {"CONFIRMED", "CANCELLED", "EXPIRED"}
          [] from = "CONFIRMED" -> {"CANCELLED", "COMPLETED"}
          [] OTHER              -> {}]

\* Calendar days between the two dates, whatever the time of day.
Nights(s) == s.checkOut \div DayLength - s.checkIn \div DayLength

-----------------------------------------------------------------------------
Init ==
    /\ now = 0
    /\ listing \in [Listings -> [active : {TRUE}, nightlyPriceCents : Rates]]
    /\ reservation = [r \in Ids |-> NoRow]
    /\ outbox = {} /\ results = {} /\ refunds = {}
    /\ announced = [r \in Ids |-> "NONE"]
    /\ task = [p \in Procs |-> Idle]
    /\ crashes = 0

Become(p, t) == task' = [task EXCEPT ![p] = t]

Tick ==
    /\ now < MaxTime
    /\ now' = now + 1
    /\ UNCHANGED <<listing, reservation, outbox, results, refunds, announced, task, crashes>>

-----------------------------------------------------------------------------
\* Hosts.

UpdateListing(l) ==
    /\ listing[l] # NoRow
    /\ \E new \in Listing : listing' = [listing EXCEPT ![l] = new]
    /\ UNCHANGED <<now, reservation, outbox, results, refunds, announced, task, crashes>>

\* The restricting foreign key refuses to drop a listing that has reservations.
RemoveListing(l) ==
    /\ listing[l] # NoRow
    /\ \A r \in Booked : reservation[r].listing # l
    /\ listing' = [listing EXCEPT ![l] = NoRow]
    /\ UNCHANGED <<now, reservation, outbox, results, refunds, announced, task, crashes>>

-----------------------------------------------------------------------------
\* Placing a hold.

\* The range is validated, the listing read and the price fixed; the insert comes later.
HoldRead(p, g, l, s) ==
    /\ task[p] = Idle
    /\ s.checkOut > s.checkIn
    /\ s.checkIn >= now
    /\ listing[l] # NoRow
    /\ listing[l].active
    /\ Become(p, [at |-> "claim", guest |-> g, listing |-> l, stay |-> s,
                  price |-> Nights(s) * listing[l].nightlyPriceCents])
    /\ UNCHANGED <<now, listing, reservation, outbox, results, refunds, announced, crashes>>

Claiming(p) == task[p].at \in {"claim", "reclaim"}

\* The transaction commits: the HELD row and its event, or neither.
ClaimCommits(p, r) ==
    /\ Claiming(p)
    /\ reservation[r] = NoRow
    /\ listing[task[p].listing] # NoRow
    /\ Conflicts(task[p].listing, task[p].stay) = {}
    /\ reservation' = [reservation EXCEPT ![r] =
            [guest |-> task[p].guest, listing |-> task[p].listing, stay |-> task[p].stay,
             status |-> "HELD", priceTotalCents |-> task[p].price,
             holdExpiresAt |-> now + HoldTtl]]
    /\ outbox' = outbox \cup {r}
    /\ Become(p, [at |-> "announce", status |-> "HELD", ids |-> {r}])
    /\ UNCHANGED <<now, listing, results, refunds, announced, crashes>>

\* The constraint or the listing's foreign key rejects the row: the request fails.
ClaimRejected(p) ==
    /\ Claiming(p)
    /\ \/ Conflicts(task[p].listing, task[p].stay) # {}
       \/ listing[task[p].listing] = NoRow
    /\ Become(p, Idle)
    /\ UNCHANGED <<now, listing, reservation, outbox, results, refunds, announced, crashes>>

\* Racing inserts for one slot wait on each other and Postgres aborts one of them.
Racing(p) ==
    \E q \in Procs \ {p} : /\ Claiming(q)
                           /\ task[q].listing = task[p].listing
                           /\ Overlap(task[q].stay, task[p].stay)

\* The first deadlock is retried with the values read before; a second one surfaces.
ClaimDeadlocks(p) ==
    /\ Claiming(p)
    /\ Racing(p)
    /\ Become(p, IF task[p].at = "claim" THEN [task[p] EXCEPT !.at = "reclaim"] ELSE Idle)
    /\ UNCHANGED <<now, listing, reservation, outbox, results, refunds, announced, crashes>>

-----------------------------------------------------------------------------
\* Cancelling: a read, an update that does not look at the status again, a refund.

CancelRead(p, g, r) ==
    /\ task[p] = Idle
    /\ r \in Booked
    /\ reservation[r].guest = g
    /\ "CANCELLED" \in AllowedTransitions[reservation[r].status]
    /\ Become(p, [at |-> "cancel", id |-> r, wasPaid |-> reservation[r].status = "CONFIRMED"])
    /\ UNCHANGED <<now, listing, reservation, outbox, results, refunds, announced, crashes>>

\* Slip: the payment's REFUNDED is written into the reservation.
CancelUpdateToRefunded(p) ==
    /\ task[p].at = "cancel"
    /\ reservation' = WithStatus({task[p].id},
                                 IF task[p].wasPaid THEN "REFUNDED" ELSE "CANCELLED")
    /\ Become(p, IF task[p].wasPaid
                 THEN [at |-> "cancelRefund", id |-> task[p].id]
                 ELSE [at |-> "announce", status |-> "CANCELLED", ids |-> {task[p].id}])
    /\ UNCHANGED <<now, listing, outbox, results, refunds, announced, crashes>>

\* Slip: the update is made conditional, but nobody looks at how many rows it changed.
CancelUpdateUnchecked(p) ==
    /\ task[p].at = "cancel"
    /\ reservation' = IF Has(task[p].id, IF task[p].wasPaid THEN "CONFIRMED" ELSE "HELD")
                       THEN WithStatus({task[p].id}, "CANCELLED") ELSE reservation
    /\ Become(p, IF task[p].wasPaid
                 THEN [at |-> "cancelRefund", id |-> task[p].id]
                 ELSE [at |-> "announce", status |-> "CANCELLED", ids |-> {task[p].id}])
    /\ UNCHANGED <<now, listing, outbox, results, refunds, announced, crashes>>

CancelUpdate(p) ==
    /\ task[p].at = "cancel"
    /\ reservation' = WithStatus({task[p].id}, "CANCELLED")
    /\ Become(p, IF task[p].wasPaid
                 THEN [at |-> "cancelRefund", id |-> task[p].id]
                 ELSE [at |-> "announce", status |-> "CANCELLED", ids |-> {task[p].id}])
    /\ UNCHANGED <<now, listing, outbox, results, refunds, announced, crashes>>

\* The job id names the reservation, so adding it twice adds it once.
CancelRefund(p) ==
    /\ task[p].at = "cancelRefund"
    /\ refunds' = refunds \cup {task[p].id}
    /\ Become(p, [at |-> "announce", status |-> "CANCELLED", ids |-> {task[p].id}])
    /\ UNCHANGED <<now, listing, reservation, outbox, results, announced, crashes>>

-----------------------------------------------------------------------------
\* Settling a payment result.

\* Slip: UPDATE ... SET status = s WHERE id = r, the naive confirm.
SettleUpdateUnguarded(p, r, s, otherwise) ==
    /\ task[p] = Idle
    /\ r \in Booked
    /\ reservation' = WithStatus({r}, s)
    /\ Become(p, [at |-> "announce", status |-> s, ids |-> {r}])
    /\ UNCHANGED <<now, listing, outbox, results, refunds, announced, crashes>>

\* UPDATE ... SET status = s WHERE id = r AND status = 'HELD'; then does the rest.
SettleUpdate(p, r, s, otherwise) ==
    /\ task[p] = Idle
    /\ IF Has(r, "HELD")
         THEN /\ reservation' = WithStatus({r}, s)
              /\ Become(p, [at |-> "announce", status |-> s, ids |-> {r}])
         ELSE /\ Become(p, otherwise)
              /\ UNCHANGED reservation
    /\ UNCHANGED <<now, listing, outbox, results, refunds, announced, crashes>>

ApplyPaymentSucceeded(p, r) ==
    SettleUpdate(p, r, "CONFIRMED", [at |-> "readBack", id |-> r])

ApplyPaymentFailed(p, r) == SettleUpdate(p, r, "CANCELLED", Idle)

\* Slip: whatever no longer is a hold is refunded, a confirmed booking too.
SettleReadBackRefundsAll(p) ==
    /\ task[p].at = "readBack"
    /\ Become(p, [at |-> "settleRefund", id |-> task[p].id])
    /\ UNCHANGED <<now, listing, reservation, outbox, results, refunds, announced, crashes>>

\* The update matched nothing: the row is read again to see what became of it.
SettleReadBack(p) ==
    /\ task[p].at = "readBack"
    /\ LET r == task[p].id IN
         Become(p, IF r \notin Booked \/ Has(r, "CONFIRMED")
                   THEN Idle
                   ELSE [at |-> "settleRefund", id |-> r])
    /\ UNCHANGED <<now, listing, reservation, outbox, results, refunds, announced, crashes>>

SettleRefund(p) ==
    /\ task[p].at = "settleRefund"
    /\ refunds' = refunds \cup {task[p].id}
    /\ Become(p, Idle)
    /\ UNCHANGED <<now, listing, reservation, outbox, results, announced, crashes>>

-----------------------------------------------------------------------------
\* The sweeps: candidates are read first, the update then filters again by itself.

ExpiryRead(p) ==
    /\ task[p] = Idle
    /\ Become(p, [at |-> "expire", ids |-> StaleHolds])
    /\ UNCHANGED <<now, listing, reservation, outbox, results, refunds, announced, crashes>>

CompletionRead(p) ==
    /\ task[p] = Idle
    /\ Become(p, [at |-> "complete", ids |-> FinishedStays])
    /\ UNCHANGED <<now, listing, reservation, outbox, results, refunds, announced, crashes>>

SweepUpdate(p, at, R, s) ==
    /\ task[p].at = at
    /\ reservation' = WithStatus(R, s)
    /\ Become(p, IF task[p].ids = {} THEN Idle
                 ELSE [at |-> "announce", status |-> s, ids |-> task[p].ids])
    /\ UNCHANGED <<now, listing, outbox, results, refunds, announced, crashes>>

ExpiryUpdate(p) == SweepUpdate(p, "expire", StaleHolds, "EXPIRED")
CompletionUpdate(p) == SweepUpdate(p, "complete", FinishedStays, "COMPLETED")

-----------------------------------------------------------------------------
\* Telling the watchers of the listing, one reservation after the other.

Announce(p) ==
    /\ task[p].at = "announce"
    /\ \E r \in task[p].ids :
         /\ announced' = [announced EXCEPT ![r] = task[p].status]
         /\ Become(p, IF task[p].ids = {r} THEN Idle ELSE [task[p] EXCEPT !.ids = @ \ {r}])
    /\ UNCHANGED <<now, listing, reservation, outbox, results, refunds, crashes>>

\* The instance dies, or a statement fails: what is committed stays, the rest is lost.
Crash(p) ==
    /\ task[p] # Idle
    /\ crashes < MaxCrashes
    /\ crashes' = crashes + 1
    /\ Become(p, Idle)
    /\ UNCHANGED <<now, listing, reservation, outbox, results, refunds, announced>>

-----------------------------------------------------------------------------
\* The payment worker, as far as the table can see it: it sends results for bookings whose
\* event was written.  It may contradict itself (module Payment says when), so a failure
\* may follow a success.
ResultArrives(r, type) ==
    /\ r \in outbox
    /\ results' = results \cup {[id |-> r, type |-> type]}
    /\ UNCHANGED <<now, listing, reservation, outbox, refunds, announced, task, crashes>>

\* A result may be delivered any number of times, in any order.
Settle(p) ==
    \E m \in results : \/ m.type = "PaymentSucceeded" /\ ApplyPaymentSucceeded(p, m.id)
                       \/ m.type = "PaymentFailed" /\ ApplyPaymentFailed(p, m.id)

Hold(p) ==
    \/ \E g \in Guests, l \in Listings, s \in Stays : HoldRead(p, g, l, s)
    \/ \E r \in Ids : ClaimCommits(p, r)
    \/ ClaimRejected(p)
    \/ ClaimDeadlocks(p)

Cancel(p) ==
    \/ \E g \in Guests, r \in Ids : CancelRead(p, g, r)
    \/ CancelUpdate(p)
    \/ CancelRefund(p)

ExpirySweep(p) == ExpiryRead(p) \/ ExpiryUpdate(p) \/ Announce(p)
CompletionSweep(p) == CompletionRead(p) \/ CompletionUpdate(p) \/ Announce(p)

\* What a request does once it has begun.
Proceed(p) ==
    \/ \E r \in Ids : ClaimCommits(p, r)
    \/ ClaimRejected(p) \/ CancelUpdate(p) \/ CancelRefund(p)
    \/ SettleReadBack(p) \/ SettleRefund(p) \/ Announce(p)

Next ==
    \/ Tick
    \/ \E l \in Listings : UpdateListing(l) \/ RemoveListing(l)
    \/ \E r \in Ids, type \in ResultType : ResultArrives(r, type)
    \/ \E p \in Requests : Hold(p) \/ Cancel(p) \/ Settle(p)
                           \/ SettleReadBack(p) \/ SettleRefund(p) \/ Announce(p)
    \/ \E p \in ExpiryTimers : ExpirySweep(p)
    \/ \E p \in CompletionTimers : CompletionSweep(p)
    \/ \E p \in Procs : Crash(p)

Spec == Init /\ [][Next]_vars

-----------------------------------------------------------------------------
(* Properties.                                                             *)

Charged(r) == [id |-> r, type |-> "PaymentSucceeded"] \in results

\* No two live reservations of a listing share an instant: the product's promise
\* (booking.service.ts hold and the no_overlapping_active_reservations constraint),
\* whatever holds, cancels, settlements and sweeps interleave with the insert.
NoOverlap ==
    \A r, q \in Live :
        r # q /\ reservation[r].listing = reservation[q].listing
            => ~Overlap(reservation[r].stay, reservation[q].stay)

\* A reservation that stopped blocking its slot never blocks it again, so a late payment
\* result or a late cancel cannot revive a slot that may have been given away.
ReleasedStaysReleased == [][\A r \in Booked \ Live : r \notin Live']_vars

\* Only a charged booking is ever confirmed or completed: the conditional update of
\* applyPaymentSucceeded is the only way in, and nothing else can produce those statuses.
OnlyPaidStays ==
    \A r \in Ids : Has(r, "CONFIRMED") \/ Has(r, "COMPLETED") => Charged(r)

\* A refund is requested only for a booking that was charged and that holds no slot any
\* more: neither cancel, acting on a status it read earlier, nor a redelivered result
\* ever gives the money back for a booking that still stands.
RefundsAreOwed ==
    \A r \in refunds : r \in Booked \ Live /\ Charged(r)

\* What watchers were told of a settlement stays true: a reservation announced CANCELLED is
\* cancelled for good, one announced CONFIRMED was paid, and nothing is announced of a
\* reservation whose insert rolled back.
AnnouncementsAreTrue ==
    \A r \in Ids :
        /\ announced[r] # "NONE" => r \in Booked
        /\ announced[r] = "CANCELLED" => Has(r, "CANCELLED")
        /\ announced[r] = "CONFIRMED" => Charged(r)

\* The sweeps run on timers, a begun handler goes on unless it crashes, and time passes.
Fairness ==
    /\ WF_vars(Tick)
    /\ \A p \in ExpiryTimers : WF_vars(ExpirySweep(p))
    /\ \A p \in CompletionTimers : WF_vars(CompletionSweep(p))
    /\ \A p \in Requests : WF_vars(Proceed(p))

FairSpec == Spec /\ Fairness

\* An abandoned checkout cannot lock a slot for ever: a hold whose TTL ends within the modelled
\* time is confirmed, cancelled or expired, even if a sweep dies between its read and its update.
\* Nor does a paid stay whose check-out lies within that time stay CONFIRMED: it is completed,
\* and becomes reviewable, unless it was cancelled.
BookingsEnd ==
    \A r \in Ids :
        /\ Has(r, "HELD") /\ reservation[r].holdExpiresAt < MaxTime ~> ~Has(r, "HELD")
        /\ Has(r, "CONFIRMED") /\ reservation[r].stay.checkOut < MaxTime ~> ~Has(r, "CONFIRMED")

-----------------------------------------------------------------------------
\* The component implements the calendar it promises.

ASSUME NoClaimAssumption == 
    NoRow \notin [listing : Listings, stay : Stays, state : {"standing", "released"}]

claimed ==
    [r \in Ids |-> IF reservation[r] = NoRow THEN NoRow
                   ELSE [listing |-> reservation[r].listing, stay |-> reservation[r].stay,
                         state |-> IF r \in Live THEN "standing" ELSE "released"]]

Promise == INSTANCE Calendar WITH claim <- claimed, NoClaim <- NoRow

\* Every step of holds, cancels, settlements, sweeps and crashes takes a claim on a free
\* range, gives claims up for good, or leaves the calendar alone.
CalendarPromise == Promise!Spec
=============================================================================
