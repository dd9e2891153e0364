--------------------------- MODULE BookingProofs ---------------------------
(***************************************************************************)
(* What TLC checks of Booking on small instances, proved for any number of *)
(* guests, listings, reservations, requests and timers and for any bounds. *)
(***************************************************************************)
EXTENDS Booking, TLAPS

-----------------------------------------------------------------------------
(* Lemmas about tasks and rows.                                            *)

\* The position of an activity tells what it holds.
LEMMA TaskShape ==
    ASSUME NEW t \in Task
    PROVE  /\ t.at \in {"claim", "reclaim"} => t \in ClaimTask
           /\ t.at = "cancel" => t \in CancelTask
           /\ t.at = "readBack" => t \in ReadBackTask
           /\ t.at \in {"cancelRefund", "settleRefund"} => t \in RefundTask
           /\ t.at \in {"expire", "complete"} => t \in SweepTask
           /\ t.at = "announce" => t \in AnnounceTask
<1>1. t = Idle \/ t \in ClaimTask \/ t \in CancelTask \/ t \in ReadBackTask
        \/ t \in RefundTask \/ t \in SweepTask \/ t \in AnnounceTask
  BY DEF Task
<1>2. t = Idle => t.at = "idle"
  BY DEF Idle
<1>3. t \in ClaimTask => t.at \in {"claim", "reclaim"}
  BY DEF ClaimTask
<1>4. t \in CancelTask => t.at = "cancel"
  BY DEF CancelTask
<1>5. t \in ReadBackTask => t.at = "readBack"
  BY DEF ReadBackTask
<1>6. t \in RefundTask => t.at \in {"cancelRefund", "settleRefund"}
  BY DEF RefundTask
<1>7. t \in SweepTask => t.at \in {"expire", "complete"}
  BY DEF SweepTask
<1>8. t \in AnnounceTask => t.at = "announce"
  BY DEF AnnounceTask
<1>9. QED
  BY <1>1, <1>2, <1>3, <1>4, <1>5, <1>6, <1>7, <1>8

\* An update of the status of booked rows changes those statuses and nothing else.
LEMMA UpdateEffect ==
    ASSUME TypeOK, NEW R \in SUBSET Booked, NEW s \in Status,
           reservation' = WithStatus(R, s)
    PROVE  /\ reservation' \in [Ids -> Reservation \cup {NoRow}]
           /\ Booked' = Booked
           /\ \A r \in Ids, t \in Status : Has(r, t)' <=> IF r \in R THEN t = s ELSE Has(r, t)
           /\ \A r \in Booked : /\ reservation'[r].listing = reservation[r].listing
                                /\ reservation'[r].stay = reservation[r].stay
                                /\ reservation'[r].guest = reservation[r].guest
<1>1. ASSUME NEW r \in Ids, r \in R
      PROVE  /\ reservation[r] \in Reservation
             /\ reservation'[r] = [reservation[r] EXCEPT !.status = s]
             /\ reservation'[r] \in Reservation
  BY <1>1 DEF TypeOK, Booked, WithStatus, Reservation
<1>2. ASSUME NEW r \in Ids, r \notin R
      PROVE  reservation'[r] = reservation[r]
  BY <1>2 DEF WithStatus
<1>3. reservation' \in [Ids -> Reservation \cup {NoRow}]
  BY <1>1, <1>2 DEF TypeOK, WithStatus
<1>4. Booked' = Booked
  BY <1>1, <1>2, NoRowAssumption DEF Booked
<1>5. ASSUME NEW r \in Ids, NEW t \in Status
      PROVE  Has(r, t)' <=> IF r \in R THEN t = s ELSE Has(r, t)
  <2>1. CASE r \in R
    <3>1. reservation'[r].status = s
      BY <2>1, <1>1 DEF Reservation
    <3>2. r \in Booked'
      BY <2>1, <1>4
    <3>3. QED
      BY <2>1, <3>1, <3>2 DEF Has
  <2>2. CASE r \notin R
    BY <2>2, <1>2, <1>4 DEF Has
  <2>3. QED
    BY <2>1, <2>2
<1>6. ASSUME NEW r \in Booked
      PROVE  /\ reservation'[r].listing = reservation[r].listing
             /\ reservation'[r].stay = reservation[r].stay
             /\ reservation'[r].guest = reservation[r].guest
  <2>1. CASE r \in R
    BY <2>1, <1>1 DEF Reservation, Booked
  <2>2. CASE r \notin R
    BY <2>2, <1>2 DEF Booked
  <2>3. QED
    BY <2>1, <2>2
<1>7. QED
  BY <1>3, <1>4, <1>5, <1>6

\* A committed claim adds one HELD row and leaves the others alone.
LEMMA InsertEffect ==
    ASSUME TypeOK, NEW p \in Procs, NEW r \in Ids, ClaimCommits(p, r)
    PROVE  /\ task[p] \in ClaimTask
           /\ r \notin Booked
           /\ reservation' \in [Ids -> Reservation \cup {NoRow}]
           /\ Booked' = Booked \cup {r}
           /\ reservation'[r].listing = task[p].listing
           /\ reservation'[r].stay = task[p].stay
           /\ \A q \in Ids, t \in Status : Has(q, t)' <=> IF q = r THEN t = "HELD" ELSE Has(q, t)
           /\ \A q \in Booked : reservation'[q] = reservation[q]
<1>1. task[p] \in ClaimTask
  BY TaskShape DEF TypeOK, ClaimCommits, Claiming
<1> DEFINE row == [guest |-> task[p].guest, listing |-> task[p].listing, stay |-> task[p].stay,
                   status |-> "HELD", priceTotalCents |-> task[p].price,
                   holdExpiresAt |-> now + HoldTtl]
<1>2. row \in Reservation
  BY <1>1, BoundsAssumption DEF ClaimTask, Reservation, Status, TypeOK, Time
<1>3. reservation' = [reservation EXCEPT ![r] = row] /\ reservation[r] = NoRow
  BY DEF ClaimCommits
<1>4. row # NoRow
  BY <1>2, NoRowAssumption
<1>5. reservation'[r] = row /\ \A q \in Ids \ {r} : reservation'[q] = reservation[q]
  BY <1>3 DEF TypeOK
<1>6. reservation' \in [Ids -> Reservation \cup {NoRow}]
  BY <1>2, <1>3 DEF TypeOK
<1>7. r \notin Booked /\ Booked' = Booked \cup {r}
  BY <1>3, <1>4, <1>5 DEF Booked
<1>8. ASSUME NEW q \in Ids, NEW t \in Status
      PROVE  Has(q, t)' <=> IF q = r THEN t = "HELD" ELSE Has(q, t)
  BY <1>5, <1>7 DEF Has
<1>9. \A q \in Booked : reservation'[q] = reservation[q]
  BY <1>5, <1>7 DEF Booked
<1>10. QED
  BY <1>1, <1>5, <1>6, <1>7, <1>8, <1>9

-----------------------------------------------------------------------------
(* Type correctness.                                                       *)

\* An activity may only take up a well-formed task.
LEMMA BecomeTyped ==
    ASSUME TypeOK, NEW p \in Procs, NEW t \in Task, Become(p, t)
    PROVE  task' \in [Procs -> Task]
  BY DEF TypeOK, Become

\* The rows the sweeps select are booked.
LEMMA SweptAreBooked == StaleHolds \subseteq Booked /\ FinishedStays \subseteq Booked
  BY DEF StaleHolds, FinishedStays, Has, Booked

LEMMA InitTyped == Init => TypeOK
<1> SUFFICES ASSUME Init PROVE TypeOK
  OBVIOUS
<1>1. now \in Time /\ crashes \in 0 .. MaxCrashes
  BY BoundsAssumption DEF Init, Time
<1>2. listing \in [Listings -> Listing \cup {NoRow}]
  BY DEF Init, Listing
<1>3. task \in [Procs -> Task]
  BY DEF Init, Task
<1>4. QED
  BY <1>1, <1>2, <1>3 DEF Init, TypeOK

LEMMA HoldTyped ==
    ASSUME TypeOK, NEW p \in Procs, Hold(p)
    PROVE  TypeOK'
<1>1. ASSUME NEW g \in Guests, NEW l \in Listings, NEW s \in Stays, HoldRead(p, g, l, s)
      PROVE  TypeOK'
  <2> DEFINE price == Nights(s) * listing[l].nightlyPriceCents
  <2>1. s.checkIn \in Nat /\ s.checkOut \in Nat /\ DayLength \in Nat \ {0}
    BY StaysAssumption, BoundsAssumption
  <2>2. Nights(s) \in Int
    BY <2>1 DEF Nights
  <2>3. listing[l].nightlyPriceCents \in Int
    <3>1. listing[l] # NoRow
      BY <1>1 DEF HoldRead
    <3>2. listing[l] \in Listing
      BY <3>1 DEF TypeOK
    <3>3. listing[l].nightlyPriceCents \in Rates
      BY <3>2 DEF Listing
    <3>4. listing[l].nightlyPriceCents \in Nat
      BY <3>3, RatesAssumption, Zenon
    <3>5. QED
      BY <3>4
  <2>4. price \in Int
    BY <2>2, <2>3
  <2> HIDE DEF price
  <2>5. [at |-> "claim", guest |-> g, listing |-> l, stay |-> s, price |-> price] \in Task
    BY <2>4 DEF Task, ClaimTask
  <2>6. task' \in [Procs -> Task]
    BY <1>1, <2>5, BecomeTyped DEF HoldRead, price
  <2>7. QED
    BY <1>1, <2>6 DEF HoldRead, TypeOK
<1>2. ASSUME NEW r \in Ids, ClaimCommits(p, r)
      PROVE  TypeOK'
  <2>1. [at |-> "announce", status |-> "HELD", ids |-> {r}] \in Task
    BY DEF Task, AnnounceTask, Status
  <2>2. task' \in [Procs -> Task]
    BY <1>2, <2>1, BecomeTyped DEF ClaimCommits
  <2>3. reservation' \in [Ids -> Reservation \cup {NoRow}]
    BY <1>2, InsertEffect
  <2>4. QED
    BY <1>2, <2>2, <2>3 DEF ClaimCommits, TypeOK
<1>3. ASSUME ClaimRejected(p)
      PROVE  TypeOK'
  <2>1. task' \in [Procs -> Task]
    BY <1>3, BecomeTyped DEF ClaimRejected, Task
  <2>2. QED
    BY <1>3, <2>1 DEF ClaimRejected, TypeOK
<1>4. ASSUME ClaimDeadlocks(p)
      PROVE  TypeOK'
  <2>1. task[p] \in ClaimTask
    BY <1>4, TaskShape DEF ClaimDeadlocks, Claiming, TypeOK
  <2>2. [task[p] EXCEPT !.at = "reclaim"] \in ClaimTask
    BY <2>1 DEF ClaimTask
  <2>3. (IF task[p].at = "claim" THEN [task[p] EXCEPT !.at = "reclaim"] ELSE Idle) \in Task
    BY <2>2 DEF Task
  <2>4. task' \in [Procs -> Task]
    BY <1>4, <2>3, BecomeTyped DEF ClaimDeadlocks
  <2>5. QED
    BY <1>4, <2>4 DEF ClaimDeadlocks, TypeOK
<1>5. QED
  BY <1>1, <1>2, <1>3, <1>4 DEF Hold

\* TypeOK is not inductive alone: cancel updates the row it read, which must exist.
CancelsKnown == \A p \in Procs : task[p].at = "cancel" => task[p].id \in Booked

TypeInv == TypeOK /\ CancelsKnown

LEMMA CancelTyped ==
    ASSUME TypeInv, NEW p \in Procs, Cancel(p)
    PROVE  TypeOK'
<1> USE DEF TypeInv
<1>1. ASSUME NEW g \in Guests, NEW r \in Ids, CancelRead(p, g, r)
      PROVE  TypeOK'
  <2>1. [at |-> "cancel", id |-> r, wasPaid |-> reservation[r].status = "CONFIRMED"] \in Task
    BY DEF Task, CancelTask
  <2>2. task' \in [Procs -> Task]
    BY <1>1, <2>1, BecomeTyped DEF CancelRead
  <2>3. QED
    BY <1>1, <2>2 DEF CancelRead, TypeOK
<1>2. ASSUME CancelUpdate(p)
      PROVE  TypeOK'
  <2>1. task[p].id \in Booked /\ task[p].id \in Ids
    BY <1>2 DEF Booked, CancelsKnown, CancelUpdate
  <2>2. /\ [at |-> "cancelRefund", id |-> task[p].id] \in Task
        /\ [at |-> "announce", status |-> "CANCELLED", ids |-> {task[p].id}] \in Task
    BY <2>1 DEF Task, RefundTask, AnnounceTask, Status
  <2>3. task' \in [Procs -> Task]
    BY <1>2, <2>2, BecomeTyped DEF CancelUpdate
  <2>4. reservation' \in [Ids -> Reservation \cup {NoRow}]
    BY <1>2, <2>1, UpdateEffect DEF CancelUpdate, Status
  <2>5. QED
    BY <1>2, <2>3, <2>4 DEF CancelUpdate, TypeOK
<1>3. ASSUME CancelRefund(p)
      PROVE  TypeOK'
  <2>1. task[p].id \in Ids
    <3>1. task[p] \in RefundTask
      BY <1>3, TaskShape DEF CancelRefund, TypeOK
    <3>2. QED
      BY <3>1 DEF RefundTask
  <2>2. [at |-> "announce", status |-> "CANCELLED", ids |-> {task[p].id}] \in Task
    BY <2>1 DEF Task, AnnounceTask, Status
  <2>3. task' \in [Procs -> Task]
    BY <1>3, <2>2, BecomeTyped DEF CancelRefund
  <2>4. QED
    BY <1>3, <2>1, <2>3 DEF CancelRefund, TypeOK
<1>4. QED
  BY <1>1, <1>2, <1>3 DEF Cancel

LEMMA SettleTyped ==
    ASSUME TypeInv, NEW p \in Procs, Settle(p) \/ SettleReadBack(p) \/ SettleRefund(p)
    PROVE  TypeOK'
<1> USE DEF TypeInv
<1>1. ASSUME NEW r \in Ids, NEW s \in Status, NEW t \in Task, SettleUpdate(p, r, s, t)
      PROVE  TypeOK'
  <2>1. CASE Has(r, "HELD")
    <3>1. r \in Booked
      BY <2>1 DEF Has
    <3>2. reservation' \in [Ids -> Reservation \cup {NoRow}]
      BY <1>1, <2>1, <3>1, UpdateEffect DEF SettleUpdate
    <3>3. [at |-> "announce", status |-> s, ids |-> {r}] \in Task
      BY DEF Task, AnnounceTask
    <3>4. task' \in [Procs -> Task]
      BY <1>1, <2>1, <3>3, BecomeTyped DEF SettleUpdate
    <3>5. QED
      BY <1>1, <3>2, <3>4 DEF SettleUpdate, TypeOK
  <2>2. CASE ~Has(r, "HELD")
    <3>1. task' \in [Procs -> Task]
      BY <1>1, <2>2, BecomeTyped DEF SettleUpdate
    <3>2. QED
      BY <1>1, <2>2, <3>1 DEF SettleUpdate, TypeOK
  <2>3. QED
    BY <2>1, <2>2
<1>2. ASSUME Settle(p)
      PROVE  TypeOK'
  <2>1. PICK m \in results : \/ ApplyPaymentSucceeded(p, m.id)
                             \/ ApplyPaymentFailed(p, m.id)
    BY <1>2 DEF Settle
  <2>2. m.id \in Ids
    BY DEF TypeOK, Result
  <2>3. [at |-> "readBack", id |-> m.id] \in Task /\ Idle \in Task
    BY <2>2 DEF Task, ReadBackTask
  <2>4. "CONFIRMED" \in Status /\ "CANCELLED" \in Status
    BY DEF Status
  <2>5. CASE ApplyPaymentSucceeded(p, m.id)
    BY <2>5, <2>2, <2>3, <2>4, <1>1 DEF ApplyPaymentSucceeded
  <2>6. CASE ApplyPaymentFailed(p, m.id)
    BY <2>6, <2>2, <2>3, <2>4, <1>1 DEF ApplyPaymentFailed
  <2>7. QED
    BY <2>1, <2>5, <2>6
<1>3. ASSUME SettleReadBack(p)
      PROVE  TypeOK'
  <2>1. task[p].id \in Ids
    <3>1. task[p] \in ReadBackTask
      BY <1>3, TaskShape DEF SettleReadBack, TypeOK
    <3>2. QED
      BY <3>1 DEF ReadBackTask
  <2>2. Idle \in Task /\ [at |-> "settleRefund", id |-> task[p].id] \in Task
    BY <2>1 DEF Task, RefundTask
  <2>3. task' \in [Procs -> Task]
    BY <1>3, <2>2, BecomeTyped DEF SettleReadBack
  <2>4. QED
    BY <1>3, <2>3 DEF SettleReadBack, TypeOK
<1>4. ASSUME SettleRefund(p)
      PROVE  TypeOK'
  <2>1. task[p].id \in Ids
    <3>1. task[p] \in RefundTask
      BY <1>4, TaskShape DEF SettleRefund, TypeOK
    <3>2. QED
      BY <3>1 DEF RefundTask
  <2>2. task' \in [Procs -> Task]
    BY <1>4, BecomeTyped DEF SettleRefund, Task
  <2>3. QED
    BY <1>4, <2>1, <2>2 DEF SettleRefund, TypeOK
<1>5. QED
  BY <1>2, <1>3, <1>4

LEMMA SweepTyped ==
    ASSUME TypeInv, NEW p \in Procs,
           \/ ExpiryRead(p) \/ ExpiryUpdate(p)
           \/ CompletionRead(p) \/ CompletionUpdate(p) \/ Announce(p)
    PROVE  TypeOK'
<1> USE DEF TypeInv
<1>1. StaleHolds \subseteq Ids /\ FinishedStays \subseteq Ids
  BY DEF StaleHolds, FinishedStays
<1>2. CASE ExpiryRead(p)
  <2>1. [at |-> "expire", ids |-> StaleHolds] \in Task
    BY <1>1 DEF Task, SweepTask
  <2>2. task' \in [Procs -> Task]
    BY <1>2, <2>1, BecomeTyped DEF ExpiryRead
  <2>3. QED
    BY <1>2, <2>2 DEF ExpiryRead, TypeOK
<1>3. CASE CompletionRead(p)
  <2>1. [at |-> "complete", ids |-> FinishedStays] \in Task
    BY <1>1 DEF Task, SweepTask
  <2>2. task' \in [Procs -> Task]
    BY <1>3, <2>1, BecomeTyped DEF CompletionRead
  <2>3. QED
    BY <1>3, <2>2 DEF CompletionRead, TypeOK
<1>4. ASSUME NEW at \in {"expire", "complete"}, NEW R \in SUBSET Booked, NEW s \in Status,
             SweepUpdate(p, at, R, s)
      PROVE  TypeOK'
  <2>1. task[p].ids \in SUBSET Ids
    <3>1. task[p] \in SweepTask
      BY <1>4, TaskShape DEF SweepUpdate, TypeOK
    <3>2. QED
      BY <3>1 DEF SweepTask
  <2>2. [at |-> "announce", status |-> s, ids |-> task[p].ids] \in Task /\ Idle \in Task
    BY <2>1 DEF Task, AnnounceTask
  <2>3. task' \in [Procs -> Task]
    BY <1>4, <2>2, BecomeTyped DEF SweepUpdate
  <2>4. reservation' \in [Ids -> Reservation \cup {NoRow}]
    BY <1>4, UpdateEffect DEF SweepUpdate
  <2>5. QED
    BY <1>4, <2>3, <2>4 DEF SweepUpdate, TypeOK
<1>5. "EXPIRED" \in Status /\ "COMPLETED" \in Status
  BY DEF Status
<1>6. CASE ExpiryUpdate(p)
  BY <1>4, <1>5, <1>6, SweptAreBooked DEF ExpiryUpdate
<1>7. CASE CompletionUpdate(p)
  BY <1>4, <1>5, <1>7, SweptAreBooked DEF CompletionUpdate
<1>8. CASE Announce(p)
  <2>1. task[p] \in AnnounceTask
    BY <1>8, TaskShape DEF Announce, TypeOK
  <2>2. PICK r \in task[p].ids :
          /\ announced' = [announced EXCEPT ![r] = task[p].status]
          /\ Become(p, IF task[p].ids = {r} THEN Idle ELSE [task[p] EXCEPT !.ids = @ \ {r}])
    BY <1>8 DEF Announce
  <2>3. [task[p] EXCEPT !.ids = @ \ {r}] \in AnnounceTask
    BY <2>1 DEF AnnounceTask
  <2>4. (IF task[p].ids = {r} THEN Idle ELSE [task[p] EXCEPT !.ids = @ \ {r}]) \in Task
    BY <2>3 DEF Task
  <2>5. task' \in [Procs -> Task]
    BY <2>2, <2>4, BecomeTyped
  <2>6. announced' \in [Ids -> Status \cup {"NONE"}]
    BY <2>1, <2>2 DEF TypeOK, AnnounceTask
  <2>7. QED
    BY <1>8, <2>5, <2>6 DEF Announce, TypeOK
<1>9. QED
  BY <1>2, <1>3, <1>6, <1>7, <1>8

LEMMA OtherTyped ==
    ASSUME TypeOK,
           \/ Tick
           \/ \E l \in Listings : UpdateListing(l) \/ RemoveListing(l)
           \/ \E r \in Ids, type \in ResultType : ResultArrives(r, type)
           \/ \E p \in Procs : Crash(p)
    PROVE  TypeOK'
<1>1. CASE Tick
  BY <1>1, BoundsAssumption DEF Tick, TypeOK, Time
<1>2. ASSUME NEW l \in Listings, UpdateListing(l)
      PROVE  TypeOK'
  BY <1>2 DEF UpdateListing, TypeOK
<1>3. ASSUME NEW l \in Listings, RemoveListing(l)
      PROVE  TypeOK'
  BY <1>3 DEF RemoveListing, TypeOK
<1>4. ASSUME NEW r \in Ids, NEW type \in ResultType, ResultArrives(r, type)
      PROVE  TypeOK'
  BY <1>4 DEF ResultArrives, TypeOK, Result
<1>5. ASSUME NEW p \in Procs, Crash(p)
      PROVE  TypeOK'
  <2>1. task' \in [Procs -> Task]
    BY <1>5, BecomeTyped DEF Crash, Task
  <2>2. crashes' \in 0 .. MaxCrashes
    BY <1>5, BoundsAssumption DEF Crash, TypeOK
  <2>3. QED
    BY <1>5, <2>1, <2>2 DEF Crash, TypeOK
<1>6. QED
  BY <1>1, <1>2, <1>3, <1>4, <1>5

-----------------------------------------------------------------------------
(* What a step may do to the table.                                        *)

\* The sweeps select live rows, the completion sweep confirmed ones.
LEMMA SweptAreLive ==
    /\ StaleHolds \subseteq Live /\ FinishedStays \subseteq Live
    /\ \A r \in FinishedStays : Has(r, "CONFIRMED")
  BY DEF StaleHolds, FinishedStays, Live

\* Some booked rows change their status: only charged holds become CONFIRMED, only confirmed
\* stays COMPLETED, and only a cancellation touches a row that is no longer live.
Moves(R, s) ==
    /\ R \in SUBSET Booked
    /\ s \in Status \ {"HELD"}
    /\ s = "CONFIRMED" => \A r \in R : Has(r, "HELD") /\ Charged(r)
    /\ s = "COMPLETED" => \A r \in R : Has(r, "CONFIRMED")
    /\ s = "EXPIRED" => \A r \in R : Has(r, "HELD")
    /\ s # "CANCELLED" => R \subseteq Live
    /\ reservation' = WithStatus(R, s)

\* A step inserts one claim, moves rows to a status, or leaves the table alone.
LEMMA StepShape ==
    ASSUME TypeInv, [Next]_vars
    PROVE  \/ \E p \in Procs, r \in Ids : ClaimCommits(p, r)
           \/ \E R \in SUBSET Booked, s \in Status : Moves(R, s)
           \/ UNCHANGED reservation
<1> DEFINE Shape == \/ \E p \in Procs, r \in Ids : ClaimCommits(p, r)
                    \/ \E R \in SUBSET Booked, s \in Status : Moves(R, s)
                    \/ UNCHANGED reservation
<1> USE DEF Procs
<1>1. ASSUME NEW p \in Requests, Hold(p)
      PROVE  Shape
  BY <1>1 DEF Hold, HoldRead, ClaimRejected, ClaimDeadlocks
<1>2. ASSUME NEW p \in Requests, Cancel(p)
      PROVE  Shape
  <2>1. CASE CancelUpdate(p)
    <3>1. task[p].id \in Booked
      BY <2>1 DEF CancelUpdate, TypeInv, CancelsKnown
    <3>2. Moves({task[p].id}, "CANCELLED")
      BY <2>1, <3>1 DEF CancelUpdate, Moves, Status
    <3>3. QED
      BY <3>1, <3>2 DEF Status
  <2>2. QED
    BY <1>2, <2>1 DEF Cancel, CancelRead, CancelRefund
<1>3. ASSUME NEW p \in Requests, Settle(p)
      PROVE  Shape
  <2>1. ASSUME NEW r, NEW s \in {"CONFIRMED", "CANCELLED"}, NEW t, SettleUpdate(p, r, s, t),
               s = "CONFIRMED" => Charged(r)
        PROVE  Shape
    <3>1. CASE Has(r, "HELD")
      <4>1. r \in Booked
        BY <3>1 DEF Has
      <4>2. Moves({r}, s)
        BY <2>1, <3>1, <4>1 DEF SettleUpdate, Moves, Status, Live, Booked
      <4>3. QED
        BY <4>1, <4>2 DEF Status
    <3>2. CASE ~Has(r, "HELD")
      BY <2>1, <3>2 DEF SettleUpdate
    <3>3. QED
      BY <3>1, <3>2
  <2>2. PICK m \in results :
            \/ m.type = "PaymentSucceeded" /\ ApplyPaymentSucceeded(p, m.id)
            \/ m.type = "PaymentFailed" /\ ApplyPaymentFailed(p, m.id)
    BY <1>3 DEF Settle
  <2>3. m = [id |-> m.id, type |-> m.type]
    BY DEF TypeInv, TypeOK, Result
  <2>4. m.type = "PaymentSucceeded" => Charged(m.id)
    BY <2>3 DEF Charged
  <2>5. QED
    BY <2>1, <2>2, <2>4 DEF ApplyPaymentSucceeded, ApplyPaymentFailed
<1>4. ASSUME NEW p \in Procs, NEW at, NEW R \in SUBSET Booked,
             NEW s \in {"EXPIRED", "COMPLETED"}, SweepUpdate(p, at, R, s),
             R \subseteq Live, s = "COMPLETED" => \A r \in R : Has(r, "CONFIRMED"),
             s = "EXPIRED" => \A r \in R : Has(r, "HELD")
      PROVE  Shape
  <2>1. Moves(R, s)
    BY <1>4 DEF SweepUpdate, Moves, Status
  <2>2. QED
    BY <2>1 DEF Status
<1>5. ASSUME NEW p \in ExpiryTimers, ExpirySweep(p)
      PROVE  Shape
  <2>1. CASE ExpiryUpdate(p)
    BY <2>1, <1>4, SweptAreBooked, SweptAreLive DEF ExpiryUpdate, StaleHolds
  <2>2. QED
    BY <1>5, <2>1 DEF ExpirySweep, ExpiryRead, Announce
<1>6. ASSUME NEW p \in CompletionTimers, CompletionSweep(p)
      PROVE  Shape
  <2>1. CASE CompletionUpdate(p)
    BY <2>1, <1>4, SweptAreBooked, SweptAreLive DEF CompletionUpdate
  <2>2. QED
    BY <1>6, <2>1 DEF CompletionSweep, CompletionRead, Announce
<1>7. ASSUME \/ Tick
             \/ \E l \in Listings : UpdateListing(l) \/ RemoveListing(l)
             \/ \E r \in Ids, type \in ResultType : ResultArrives(r, type)
             \/ \E p \in Requests : SettleReadBack(p) \/ SettleRefund(p) \/ Announce(p)
             \/ \E p \in Procs : Crash(p)
             \/ UNCHANGED vars
      PROVE  Shape
  BY <1>7 DEF Tick, UpdateListing, RemoveListing, ResultArrives, SettleReadBack,
              SettleRefund, Announce, Crash, vars
<1>8. QED
  BY <1>1, <1>2, <1>3, <1>5, <1>6, <1>7 DEF Next

\* Rows are never deleted.
LEMMA BookedGrows ==
    ASSUME TypeInv, [Next]_vars
    PROVE  Booked \subseteq Booked'
<1>1. ASSUME NEW p \in Procs, NEW r \in Ids, ClaimCommits(p, r)
      PROVE  Booked \subseteq Booked'
  BY <1>1, InsertEffect DEF TypeInv
<1>2. ASSUME NEW R \in SUBSET Booked, NEW s \in Status, Moves(R, s)
      PROVE  Booked \subseteq Booked'
  BY <1>2, UpdateEffect DEF TypeInv, Moves
<1>3. ASSUME UNCHANGED reservation
      PROVE  Booked \subseteq Booked'
  BY <1>3 DEF Booked
<1>4. QED
  BY <1>1, <1>2, <1>3, StepShape

\* An announced task, begun or continued, is not a cancellation.
LEMMA AnnounceBecomes ==
    ASSUME TypeOK, NEW p \in Procs, Announce(p)
    PROVE  \E t \in {Idle} \cup AnnounceTask : Become(p, t)
<1>1. task[p] \in AnnounceTask
  BY TaskShape DEF Announce, TypeOK
<1>2. PICK r \in task[p].ids :
        Become(p, IF task[p].ids = {r} THEN Idle ELSE [task[p] EXCEPT !.ids = @ \ {r}])
  BY DEF Announce
<1>3. [task[p] EXCEPT !.ids = @ \ {r}] \in AnnounceTask
  BY <1>1 DEF AnnounceTask
<1>4. QED
  BY <1>2, <1>3

LEMMA DeadlockBecomes ==
    ASSUME TypeOK, NEW p \in Procs, ClaimDeadlocks(p)
    PROVE  \E t \in {Idle} \cup ClaimTask : Become(p, t)
<1>1. task[p] \in ClaimTask
  BY TaskShape DEF ClaimDeadlocks, Claiming, TypeOK
<1>2. [task[p] EXCEPT !.at = "reclaim"] \in ClaimTask
  BY <1>1 DEF ClaimTask
<1>3. QED
  BY <1>2 DEF ClaimDeadlocks

\* Only a request that has just read a row takes up its cancellation.
LEMMA CancelsStayKnown ==
    ASSUME TypeInv, [Next]_vars
    PROVE  CancelsKnown'
<1> USE DEF TypeInv
<1>1. ASSUME NEW p \in Procs, NEW t, Become(p, t), t.at # "cancel" \/ t.id \in Booked
      PROVE  CancelsKnown'
  <2> SUFFICES ASSUME NEW q \in Procs, task'[q].at = "cancel"
               PROVE  task'[q].id \in Booked'
    BY DEF CancelsKnown
  <2>1. CASE q = p
    BY <1>1, <2>1, BookedGrows DEF Become, TypeOK
  <2>2. CASE q # p
    BY <1>1, <2>2, BookedGrows DEF Become, TypeOK, CancelsKnown
  <2>3. QED
    BY <2>1, <2>2
<1>2. ASSUME UNCHANGED task
      PROVE  CancelsKnown'
  BY <1>2, BookedGrows DEF CancelsKnown
<1>3. Idle.at # "cancel"
  BY DEF Idle
<1>4. \A t \in ClaimTask \cup AnnounceTask : t.at # "cancel"
  BY DEF ClaimTask, AnnounceTask
<1>5. ASSUME NEW p \in Procs, Hold(p)
      PROVE  CancelsKnown'
  <2>1. ASSUME NEW g \in Guests, NEW l \in Listings, NEW s \in Stays, HoldRead(p, g, l, s)
        PROVE  CancelsKnown'
    BY <2>1, <1>1 DEF HoldRead
  <2>2. ASSUME NEW r \in Ids, ClaimCommits(p, r)
        PROVE  CancelsKnown'
    BY <2>2, <1>1 DEF ClaimCommits
  <2>3. CASE ClaimRejected(p)
    BY <2>3, <1>1, <1>3 DEF ClaimRejected
  <2>4. CASE ClaimDeadlocks(p)
    BY <2>4, <1>1, <1>3, <1>4, DeadlockBecomes
  <2>5. QED
    BY <1>5, <2>1, <2>2, <2>3, <2>4 DEF Hold
<1>6. ASSUME NEW p \in Procs, Cancel(p)
      PROVE  CancelsKnown'
  <2>1. ASSUME NEW g \in Guests, NEW r \in Ids, CancelRead(p, g, r)
        PROVE  CancelsKnown'
    BY <2>1, <1>1 DEF CancelRead
  <2>2. CASE CancelUpdate(p)
    BY <2>2, <1>1 DEF CancelUpdate
  <2>3. CASE CancelRefund(p)
    BY <2>3, <1>1 DEF CancelRefund
  <2>4. QED
    BY <1>6, <2>1, <2>2, <2>3 DEF Cancel
<1>7. ASSUME NEW p \in Procs, Settle(p) \/ SettleReadBack(p) \/ SettleRefund(p)
      PROVE  CancelsKnown'
  <2>1. ASSUME NEW r, NEW s, NEW t, SettleUpdate(p, r, s, t), t.at # "cancel"
        PROVE  CancelsKnown'
    BY <2>1, <1>1 DEF SettleUpdate
  <2>2. CASE Settle(p)
    <3>1. PICK m \in results : \/ ApplyPaymentSucceeded(p, m.id)
                               \/ ApplyPaymentFailed(p, m.id)
      BY <2>2 DEF Settle
    <3>2. [at |-> "readBack", id |-> m.id].at # "cancel"
      OBVIOUS
    <3>3. CASE ApplyPaymentSucceeded(p, m.id)
      BY <3>2, <3>3, <2>1 DEF ApplyPaymentSucceeded
    <3>4. CASE ApplyPaymentFailed(p, m.id)
      BY <3>4, <2>1, <1>3 DEF ApplyPaymentFailed
    <3>5. QED
      BY <3>1, <3>3, <3>4
  <2>3. CASE SettleReadBack(p)
    BY <2>3, <1>1, <1>3 DEF SettleReadBack
  <2>4. CASE SettleRefund(p)
    BY <2>4, <1>1, <1>3 DEF SettleRefund
  <2>5. QED
    BY <1>7, <2>2, <2>3, <2>4
<1>8. ASSUME NEW p \in Procs, ExpirySweep(p) \/ CompletionSweep(p) \/ Announce(p) \/ Crash(p)
      PROVE  CancelsKnown'
  <2>1. ASSUME NEW at, NEW R, NEW s, SweepUpdate(p, at, R, s)
        PROVE  CancelsKnown'
    BY <2>1, <1>1, <1>3 DEF SweepUpdate
  <2>2. CASE ExpiryRead(p) \/ CompletionRead(p)
    BY <2>2, <1>1 DEF ExpiryRead, CompletionRead
  <2>3. CASE Announce(p)
    BY <2>3, <1>1, <1>3, <1>4, AnnounceBecomes
  <2>4. CASE Crash(p)
    BY <2>4, <1>1, <1>3 DEF Crash
  <2>5. QED
    BY <1>8, <2>1, <2>2, <2>3, <2>4
       DEF ExpirySweep, CompletionSweep, ExpiryUpdate, CompletionUpdate
<1>9. ASSUME \/ Tick
             \/ \E l \in Listings : UpdateListing(l) \/ RemoveListing(l)
             \/ \E r \in Ids, type \in ResultType : ResultArrives(r, type)
             \/ UNCHANGED vars
      PROVE  CancelsKnown'
  BY <1>9, <1>2 DEF Tick, UpdateListing, RemoveListing, ResultArrives, vars
<1>10. QED
  BY <1>5, <1>6, <1>7, <1>8, <1>9 DEF Next, Procs

LEMMA StepTyped ==
    ASSUME TypeInv, [Next]_vars
    PROVE  TypeInv'
<1>1. ASSUME Next
      PROVE  TypeOK'
  <2>1. ASSUME NEW p \in Procs, Hold(p)
        PROVE  TypeOK'
    BY <2>1, HoldTyped DEF TypeInv
  <2>2. ASSUME NEW p \in Procs, Cancel(p)
        PROVE  TypeOK'
    BY <2>2, CancelTyped
  <2>3. ASSUME NEW p \in Procs, Settle(p) \/ SettleReadBack(p) \/ SettleRefund(p)
        PROVE  TypeOK'
    BY <2>3, SettleTyped
  <2>4. ASSUME NEW p \in Procs, ExpirySweep(p) \/ CompletionSweep(p) \/ Announce(p)
        PROVE  TypeOK'
    BY <2>4, SweepTyped DEF ExpirySweep, CompletionSweep
  <2>5. ASSUME \/ Tick
               \/ \E l \in Listings : UpdateListing(l) \/ RemoveListing(l)
               \/ \E r \in Ids, type \in ResultType : ResultArrives(r, type)
               \/ \E p \in Procs : Crash(p)
        PROVE  TypeOK'
    BY <2>5, OtherTyped DEF TypeInv
  <2>6. QED
    BY <1>1, <2>1, <2>2, <2>3, <2>4, <2>5 DEF Next, Procs
<1>2. ASSUME UNCHANGED vars
      PROVE  TypeOK'
  BY <1>2 DEF vars, TypeInv, TypeOK
<1>3. QED
  BY <1>1, <1>2, CancelsStayKnown DEF TypeInv

LEMMA InitKnown == Init => TypeInv
<1> SUFFICES ASSUME Init PROVE TypeInv
  OBVIOUS
<1>1. \A p \in Procs : task[p].at = "idle"
  BY DEF Init, Idle
<1>2. QED
  BY <1>1, InitTyped DEF TypeInv, CancelsKnown

\* Init, and every step of every activity, respects the types; with TypeOK goes that a
\* pending cancellation names a row that exists.
THEOREM TypeCorrect == Spec => []TypeInv
<1>1. TypeInv /\ [Next]_vars => TypeInv'
  BY StepTyped
<1>2. QED
  BY <1>1, InitKnown, PTL DEF Spec

\* Every variable keeps its type, for any number of activities (TypeOK of the module).
THEOREM TypesHold == Spec => []TypeOK
  BY TypeCorrect, PTL DEF TypeInv

-----------------------------------------------------------------------------
(* The slot.                                                               *)

LEMMA LiveEffect ==
    ASSUME TypeInv, NEW R \in SUBSET Booked, NEW s \in Status, Moves(R, s)
    PROVE  Live' \subseteq Live
<1> SUFFICES ASSUME NEW r \in Live' PROVE r \in Live
  OBVIOUS
<1>1. r \in Ids /\ (Has(r, "HELD")' \/ Has(r, "CONFIRMED")')
  BY DEF Live
<1>2. \A q \in Ids, t \in Status : Has(q, t)' <=> IF q \in R THEN t = s ELSE Has(q, t)
  BY UpdateEffect DEF TypeInv, Moves
<1>3. "HELD" \in Status /\ "CONFIRMED" \in Status
  BY DEF Status
<1>4. CASE r \in R
  BY <1>1, <1>2, <1>3, <1>4 DEF Moves, Live
<1>5. CASE r \notin R
  BY <1>1, <1>2, <1>3, <1>5 DEF Live
<1>6. QED
  BY <1>4, <1>5

LEMMA InsertLive ==
    ASSUME TypeInv, NEW p \in Procs, NEW r \in Ids, ClaimCommits(p, r)
    PROVE  Live' = Live \cup {r} /\ r \notin Live
<1>1. /\ r \notin Booked
      /\ \A q \in Ids, t \in Status : Has(q, t)' <=> IF q = r THEN t = "HELD" ELSE Has(q, t)
  BY InsertEffect DEF TypeInv
<1>2. "HELD" \in Status /\ "CONFIRMED" \in Status
  BY DEF Status
<1>3. Live' = Live \cup {r}
  BY <1>1, <1>2 DEF Live
<1>4. r \notin Live
  BY <1>1 DEF Live, Has
<1>5. QED
  BY <1>3, <1>4

LEMMA LiveIsBooked == Live \subseteq Booked
  BY DEF Live, Has

\* A claim is inserted only where it overlaps nothing, and no other step adds a live row or
\* changes the dates of one.
LEMMA SlotStep ==
    ASSUME TypeInv, NoOverlap, [Next]_vars
    PROVE  NoOverlap'
<1>1. ASSUME NEW p \in Procs, NEW r \in Ids, ClaimCommits(p, r)
      PROVE  NoOverlap'
  <2>1. Live' = Live \cup {r} /\ r \notin Live
    BY <1>1, InsertLive
  <2>2. /\ reservation'[r].listing = task[p].listing
        /\ reservation'[r].stay = task[p].stay
        /\ \A q \in Live : reservation'[q] = reservation[q]
    BY <1>1, InsertEffect, LiveIsBooked DEF TypeInv
  <2>3. \A q \in Live : reservation[q].listing = task[p].listing
                          => ~Overlap(reservation[q].stay, task[p].stay)
    BY <1>1 DEF ClaimCommits, Conflicts
  <2>4. \A q \in Live : reservation[q].listing = task[p].listing
                          => ~Overlap(task[p].stay, reservation[q].stay)
    BY <2>3 DEF Overlap
  <2> SUFFICES ASSUME NEW a \in Live', NEW b \in Live', a # b,
                      reservation'[a].listing = reservation'[b].listing
               PROVE  ~Overlap(reservation'[a].stay, reservation'[b].stay)
    BY DEF NoOverlap, Overlap
  <2>5. CASE a \in Live /\ b \in Live
    BY <2>2, <2>5 DEF NoOverlap
  <2>6. CASE a = r /\ b \in Live
    BY <2>2, <2>4, <2>6
  <2>7. CASE b = r /\ a \in Live
    BY <2>2, <2>3, <2>7
  <2>8. QED
    BY <2>1, <2>5, <2>6, <2>7
<1>2. ASSUME NEW R \in SUBSET Booked, NEW s \in Status, Moves(R, s)
      PROVE  NoOverlap'
  <2>1. Live' \subseteq Live
    BY <1>2, LiveEffect
  <2>2. \A q \in Live : /\ reservation'[q].listing = reservation[q].listing
                        /\ reservation'[q].stay = reservation[q].stay
    BY <1>2, UpdateEffect, LiveIsBooked DEF TypeInv, Moves
  <2>3. QED
    BY <2>1, <2>2 DEF NoOverlap, Overlap
<1>3. ASSUME UNCHANGED reservation
      PROVE  NoOverlap'
  BY <1>3 DEF NoOverlap, Overlap, Live, Has, Booked
<1>4. QED
  BY <1>1, <1>2, <1>3, StepShape

\* The product's promise, for every number of guests, listings, holds and activities: no two
\* live reservations of a listing ever share an instant.
THEOREM NoOverlapHolds == Spec => []NoOverlap
<1>1. Init => NoOverlap
  BY DEF Init, NoOverlap, Live, Has, Booked
<1>2. TypeInv /\ NoOverlap /\ [Next]_vars => NoOverlap'
  BY SlotStep
<1>3. QED
  BY <1>1, <1>2, TypeCorrect, PTL DEF Spec

\* A reservation that left HELD and CONFIRMED never returns to them, whatever late result,
\* sweep or stale cancellation reaches its row.
THEOREM ReleasedForGood == Spec => ReleasedStaysReleased
<1>1. TypeInv /\ [Next]_vars => [\A r \in Booked \ Live : r \notin Live']_vars
  <2> SUFFICES ASSUME TypeInv, [Next]_vars, NEW r \in Booked \ Live
               PROVE  r \notin Live'
    OBVIOUS
  <2>1. ASSUME NEW p \in Procs, NEW q \in Ids, ClaimCommits(p, q)
        PROVE  r \notin Live'
    BY <2>1, InsertLive, InsertEffect DEF TypeInv
  <2>2. ASSUME NEW R \in SUBSET Booked, NEW s \in Status, Moves(R, s)
        PROVE  r \notin Live'
    BY <2>2, LiveEffect
  <2>3. ASSUME UNCHANGED reservation
        PROVE  r \notin Live'
    BY <2>3 DEF Live, Has, Booked
  <2>4. QED
    BY <2>1, <2>2, <2>3, StepShape
<1>2. QED
  BY <1>1, TypeCorrect, PTL DEF Spec, ReleasedStaysReleased

-----------------------------------------------------------------------------
(* The money and the announcements.                                        *)

\* What an activity in the middle of something may rely on.
TaskFacts(t) ==
    /\ t.at = "cancel" => t.id \in Booked /\ (t.wasPaid => Charged(t.id))
    /\ t.at = "cancelRefund" => Has(t.id, "CANCELLED") /\ Charged(t.id)
    /\ t.at = "settleRefund" => t.id \in Booked \ Live /\ Charged(t.id)
    /\ t.at = "readBack" => t.id \in Booked /\ ~Has(t.id, "HELD") /\ Charged(t.id)
    /\ t.at \in {"expire", "complete"} => t.ids \subseteq Booked
    /\ t.at = "announce" =>
         \A r \in t.ids : /\ r \in Booked
                          /\ t.status = "CANCELLED" => Has(r, "CANCELLED")
                          /\ t.status = "CONFIRMED" => Charged(r)

EventsKnown == outbox \subseteq Booked /\ \A m \in results : m.id \in Booked

TasksHonest == \A p \in Procs, t \in Task : t = task[p] => TaskFacts(t)

MoneyInv ==
    OnlyPaidStays /\ RefundsAreOwed /\ AnnouncementsAreTrue /\ EventsKnown /\ TasksHonest

\* Which step writes which of the logs.
LEMMA Footprint ==
    ASSUME TypeInv, [Next]_vars
    PROVE  /\ outbox' = outbox \/ \E p \in Procs, r \in Ids : ClaimCommits(p, r)
           /\ results' = results \/ \E r \in Ids, type \in ResultType : ResultArrives(r, type)
           /\ refunds' = refunds \/ \E p \in Procs : CancelRefund(p) \/ SettleRefund(p)
           /\ announced' = announced \/ \E p \in Procs : Announce(p)
<1> DEFINE Foot == /\ outbox' = outbox \/ \E p \in Procs, r \in Ids : ClaimCommits(p, r)
                   /\ results' = results
                        \/ \E r \in Ids, type \in ResultType : ResultArrives(r, type)
                   /\ refunds' = refunds \/ \E p \in Procs : CancelRefund(p) \/ SettleRefund(p)
                   /\ announced' = announced \/ \E p \in Procs : Announce(p)
<1>1. ASSUME NEW p \in Procs, Hold(p)
      PROVE  Foot
  <2>1. ASSUME NEW r \in Ids, ClaimCommits(p, r)
        PROVE  Foot
    BY <2>1 DEF ClaimCommits
  <2>2. QED
    BY <1>1, <2>1 DEF Hold, HoldRead, ClaimRejected, ClaimDeadlocks
<1>2. ASSUME NEW p \in Procs, Cancel(p)
      PROVE  Foot
  BY <1>2 DEF Cancel, CancelRead, CancelUpdate, CancelRefund
<1>3. ASSUME NEW p \in Procs, Settle(p) \/ SettleReadBack(p) \/ SettleRefund(p)
      PROVE  Foot
  BY <1>3 DEF Settle, ApplyPaymentSucceeded, ApplyPaymentFailed, SettleUpdate,
              SettleReadBack, SettleRefund
<1>4. ASSUME NEW p \in Procs, ExpirySweep(p) \/ CompletionSweep(p) \/ Announce(p) \/ Crash(p)
      PROVE  Foot
  BY <1>4 DEF ExpirySweep, CompletionSweep, ExpiryRead, CompletionRead, ExpiryUpdate,
              CompletionUpdate, SweepUpdate, Announce, Crash
<1>5. ASSUME \/ Tick
             \/ \E l \in Listings : UpdateListing(l) \/ RemoveListing(l)
             \/ \E r \in Ids, type \in ResultType : ResultArrives(r, type)
             \/ UNCHANGED vars
      PROVE  Foot
  BY <1>5 DEF Tick, UpdateListing, RemoveListing, ResultArrives, vars
<1>6. QED
  BY <1>1, <1>2, <1>3, <1>4, <1>5 DEF Next, Procs

\* What, once true of a reservation, stays true.
LEMMA Lasting ==
    ASSUME TypeInv, [Next]_vars
    PROVE  /\ Booked \subseteq Booked'
           /\ Booked \ Live \subseteq Booked' \ Live'
           /\ \A r \in Ids : Charged(r) => Charged(r)'
           /\ \A r \in Booked : ~Has(r, "HELD") => ~Has(r, "HELD")'
           /\ \A r \in Ids : Has(r, "CANCELLED") => Has(r, "CANCELLED")'
           /\ \A r \in Booked : ~Has(r, "HELD") /\ Has(r, "EXPIRED")' => Has(r, "EXPIRED")
<1>1. Booked \subseteq Booked'
  BY BookedGrows
<1>2. results \subseteq results'
  BY Footprint DEF ResultArrives
<1>3. \A r \in Ids : Charged(r) => Charged(r)'
  BY <1>2 DEF Charged
<1> DEFINE Rest == /\ Booked \ Live \subseteq Booked' \ Live'
                   /\ \A r \in Booked : ~Has(r, "HELD") => ~Has(r, "HELD")'
                   /\ \A r \in Ids : Has(r, "CANCELLED") => Has(r, "CANCELLED")'
                   /\ \A r \in Booked : ~Has(r, "HELD") /\ Has(r, "EXPIRED")' => Has(r, "EXPIRED")
<1>4. \A r \in Booked : r \in Ids
  BY DEF Booked
<1>5. "HELD" \in Status /\ "CANCELLED" \in Status /\ "EXPIRED" \in Status
  BY DEF Status
<1>6. ASSUME NEW p \in Procs, NEW q \in Ids, ClaimCommits(p, q)
      PROVE  Rest
  <2>1. /\ q \notin Booked
        /\ \A r \in Ids, t \in Status : Has(r, t)' <=> IF r = q THEN t = "HELD" ELSE Has(r, t)
    BY <1>6, InsertEffect DEF TypeInv
  <2>2. Live' = Live \cup {q}
    BY <1>6, InsertLive
  <2>3. ~Has(q, "CANCELLED")
    BY <2>1 DEF Has
  <2>4. QED
    BY <2>1, <2>2, <2>3, <1>1, <1>4, <1>5
<1>7. ASSUME NEW R \in SUBSET Booked, NEW s \in Status, Moves(R, s)
      PROVE  Rest
  <2>1. \A r \in Ids, t \in Status : Has(r, t)' <=> IF r \in R THEN t = s ELSE Has(r, t)
    BY <1>7, UpdateEffect DEF TypeInv, Moves
  <2>2. Live' \subseteq Live
    BY <1>7, LiveEffect
  <2>3. \A r \in Live : ~Has(r, "CANCELLED")
    BY DEF Live, Has
  <2>4. /\ s # "HELD" /\ (s # "CANCELLED" => R \subseteq Live)
        /\ s = "EXPIRED" => \A r \in R : Has(r, "HELD")
    BY <1>7 DEF Moves
  <2>5. QED
    BY <2>1, <2>2, <2>3, <2>4, <1>1, <1>4, <1>5
<1>8. ASSUME UNCHANGED reservation
      PROVE  Rest
  BY <1>8 DEF Live, Has, Booked
<1>9. QED
  BY <1>1, <1>3, <1>6, <1>7, <1>8, StepShape

\* A task taken up in good faith stays so, whatever the others do.
LEMMA FactsLast ==
    ASSUME TypeInv, [Next]_vars, NEW t \in Task, TaskFacts(t)
    PROVE  TaskFacts(t)'
<1>1. /\ t.at = "cancel" => t.id \in Ids
      /\ t.at \in {"cancelRefund", "settleRefund"} => t.id \in Ids
      /\ t.at = "readBack" => t.id \in Ids
      /\ t.at = "announce" => t.ids \subseteq Ids
  BY TaskShape DEF CancelTask, RefundTask, ReadBackTask, AnnounceTask
<1>2. QED
  BY <1>1, Lasting DEF TaskFacts

LEMMA TasksStayHonest ==
    ASSUME TypeInv, MoneyInv, [Next]_vars
    PROVE  TasksHonest'
<1> USE DEF MoneyInv
<1>1. ASSUME NEW p \in Procs, NEW t, Become(p, t), TaskFacts(t)'
      PROVE  TasksHonest'
  <2> SUFFICES ASSUME NEW q \in Procs, NEW u \in Task, u = task'[q]
               PROVE  TaskFacts(u)'
    BY DEF TasksHonest
  <2>1. CASE q = p
    <3>1. u = t
      BY <1>1, <2>1 DEF Become, TypeInv, TypeOK
    <3>2. QED
      BY <1>1, <3>1
  <2>2. CASE q # p
    <3>1. u = task[q]
      BY <1>1, <2>2 DEF Become, TypeInv, TypeOK
    <3>2. QED
      BY <3>1, FactsLast DEF TasksHonest
  <2>3. QED
    BY <2>1, <2>2
<1>2. ASSUME UNCHANGED task
      PROVE  TasksHonest'
  <2> SUFFICES ASSUME NEW q \in Procs, NEW u \in Task, u = task'[q]
               PROVE  TaskFacts(u)'
    BY DEF TasksHonest
  <2>1. u = task[q]
    BY <1>2
  <2>2. QED
    BY <2>1, FactsLast DEF TasksHonest
<1>3. TaskFacts(Idle)'
  BY DEF TaskFacts, Idle
<1>4. ASSUME NEW p \in Procs, Hold(p)
      PROVE  TasksHonest'
  <2>1. \A t \in ClaimTask : TaskFacts(t)'
    BY DEF TaskFacts, ClaimTask
  <2>2. ASSUME NEW g \in Guests, NEW l \in Listings, NEW s \in Stays, HoldRead(p, g, l, s)
        PROVE  TasksHonest'
    <3>0. PICK cents : cents = Nights(s) * listing[l].nightlyPriceCents
      OBVIOUS
    <3> DEFINE t == [at |-> "claim", guest |-> g, listing |-> l, stay |-> s, price |-> cents]
    <3>1. TaskFacts(t)'
      BY DEF TaskFacts
    <3>2. Become(p, t)
      BY <2>2, <3>0 DEF HoldRead
    <3> HIDE DEF t
    <3>3. QED
      BY <3>1, <3>2, <1>1
  <2>3. ASSUME NEW r \in Ids, ClaimCommits(p, r)
        PROVE  TasksHonest'
    <3> DEFINE t == [at |-> "announce", status |-> "HELD", ids |-> {r}]
    <3>1. r \in Booked'
      BY <2>3, InsertEffect DEF TypeInv
    <3>2. TaskFacts(t)'
      BY <3>1 DEF TaskFacts
    <3>3. Become(p, t)
      BY <2>3 DEF ClaimCommits
    <3> HIDE DEF t
    <3>4. QED
      BY <3>2, <3>3, <1>1
  <2>4. CASE ClaimRejected(p)
    BY <2>4, <1>1, <1>3 DEF ClaimRejected
  <2>5. CASE ClaimDeadlocks(p)
    <3>1. PICK t \in {Idle} \cup ClaimTask : Become(p, t)
      BY <2>5, DeadlockBecomes DEF TypeInv
    <3>2. TaskFacts(t)'
      BY <2>1, <1>3, <3>1
    <3>3. QED
      BY <3>1, <3>2, <1>1
  <2>6. QED
    BY <1>4, <2>2, <2>3, <2>4, <2>5 DEF Hold
<1>5. ASSUME NEW p \in Procs, NEW t, Become(p, t), TaskFacts(t), t \in Task
      PROVE  TasksHonest'
  BY <1>5, <1>1, FactsLast
<1>6. ASSUME NEW p \in Procs, Cancel(p)
      PROVE  TasksHonest'
  <2>1. ASSUME NEW g \in Guests, NEW r \in Ids, CancelRead(p, g, r)
        PROVE  TasksHonest'
    <3>0. PICK paid \in BOOLEAN : paid = (reservation[r].status = "CONFIRMED")
      OBVIOUS
    <3> DEFINE t == [at |-> "cancel", id |-> r, wasPaid |-> paid]
    <3>1. t \in Task
      BY DEF Task, CancelTask
    <3>2. r \in Booked
      BY <2>1 DEF CancelRead
    <3>3. paid => Charged(r)
      BY <3>0, <3>2 DEF OnlyPaidStays, Has, Booked
    <3>4. TaskFacts(t)
      BY <3>2, <3>3 DEF TaskFacts
    <3>5. Become(p, t)
      BY <2>1, <3>0 DEF CancelRead
    <3> HIDE DEF t
    <3>6. QED
      BY <3>1, <3>4, <3>5, <1>5
  <2>2. CASE CancelUpdate(p)
    <3>0. PICK id : id = task[p].id
      OBVIOUS
    <3> DEFINE refund == [at |-> "cancelRefund", id |-> id]
               announce == [at |-> "announce", status |-> "CANCELLED", ids |-> {id}]
    <3>1. task[p].at = "cancel" /\ TaskFacts(task[p])
      BY <2>2 DEF CancelUpdate, TasksHonest, TypeInv, TypeOK
    <3>2. id \in Booked /\ (task[p].wasPaid => Charged(id))
      BY <3>0, <3>1 DEF TaskFacts
    <3>3. id \in Ids /\ id \in Booked'
      BY <3>2, Lasting DEF Booked
    <3>4. \A t \in Status : Has(id, t)' <=> t = "CANCELLED"
      <4>1. {id} \in SUBSET Booked /\ "CANCELLED" \in Status
        BY <3>2 DEF Status
      <4>2. reservation' = WithStatus({id}, "CANCELLED")
        BY <2>2, <3>0 DEF CancelUpdate
      <4>3. QED
        BY <3>3, <4>1, <4>2, UpdateEffect DEF TypeInv
    <3>5. Has(id, "CANCELLED")' /\ id \notin Live'
      BY <3>4 DEF Status, Live
    <3>6. Charged(id) => Charged(id)'
      BY <3>3, Lasting
    <3>7. task[p].wasPaid => TaskFacts(refund)'
      BY <3>2, <3>3, <3>5, <3>6 DEF TaskFacts
    <3>8. TaskFacts(announce)'
      BY <3>3, <3>5 DEF TaskFacts
    <3>9. Become(p, IF task[p].wasPaid THEN refund ELSE announce)
      BY <2>2, <3>0 DEF CancelUpdate
    <3> HIDE DEF refund, announce
    <3>10. QED
      BY <3>7, <3>8, <3>9, <1>1
  <2>3. CASE CancelRefund(p)
    <3>0. PICK id : id = task[p].id
      OBVIOUS
    <3> DEFINE announce == [at |-> "announce", status |-> "CANCELLED", ids |-> {id}]
    <3>1. task[p].at = "cancelRefund" /\ TaskFacts(task[p])
      BY <2>3 DEF CancelRefund, TasksHonest, TypeInv, TypeOK
    <3>2. Has(id, "CANCELLED")
      BY <3>0, <3>1 DEF TaskFacts
    <3>3. Has(id, "CANCELLED")' /\ id \in Booked'
      BY <3>2, Lasting DEF Has, Booked
    <3>4. TaskFacts(announce)'
      BY <3>3 DEF TaskFacts
    <3>5. Become(p, announce)
      BY <2>3, <3>0 DEF CancelRefund
    <3> HIDE DEF announce
    <3>6. QED
      BY <3>4, <3>5, <1>1
  <2>4. QED
    BY <1>6, <2>1, <2>2, <2>3 DEF Cancel
<1>7. ASSUME NEW p \in Procs, Settle(p)
      PROVE  TasksHonest'
  <2>1. PICK m \in results :
            \/ m.type = "PaymentSucceeded" /\ ApplyPaymentSucceeded(p, m.id)
            \/ m.type = "PaymentFailed" /\ ApplyPaymentFailed(p, m.id)
    BY <1>7 DEF Settle
  <2>2. m \in Result /\ m.id \in Ids /\ m.id \in Booked
    BY DEF TypeInv, TypeOK, Result, EventsKnown
  <2>3. m.type = "PaymentSucceeded" => Charged(m.id)
    BY <2>2 DEF Charged, Result
  <2>4. ASSUME NEW s \in {"CONFIRMED", "CANCELLED"}, NEW t,
               SettleUpdate(p, m.id, s, t), Has(m.id, "HELD"),
               s = "CONFIRMED" => Charged(m.id)
        PROVE  TasksHonest'
    <3> DEFINE announce == [at |-> "announce", status |-> s, ids |-> {m.id}]
    <3>1. {m.id} \in SUBSET Booked /\ s \in Status
      BY <2>2 DEF Status
    <3>2. reservation' = WithStatus({m.id}, s)
      BY <2>4 DEF SettleUpdate
    <3>3. Has(m.id, s)'
      BY <3>1, <3>2, <2>2, UpdateEffect DEF TypeInv
    <3>4. m.id \in Booked' /\ (Charged(m.id) => Charged(m.id)')
      BY <2>2, Lasting
    <3>5. TaskFacts(announce)'
      BY <3>3, <3>4, <2>4 DEF TaskFacts
    <3>6. Become(p, announce)
      BY <2>4 DEF SettleUpdate
    <3> HIDE DEF announce
    <3>7. QED
      BY <3>5, <3>6, <1>1
  <2>5. ASSUME NEW s, NEW t \in Task,
               SettleUpdate(p, m.id, s, t), ~Has(m.id, "HELD"), TaskFacts(t)
        PROVE  TasksHonest'
    BY <2>5, <1>5 DEF SettleUpdate
  <2>6. CASE m.type = "PaymentSucceeded" /\ ApplyPaymentSucceeded(p, m.id)
    <3> DEFINE t == [at |-> "readBack", id |-> m.id]
    <3>1. t \in Task
      BY <2>2 DEF Task, ReadBackTask
    <3>2. ~Has(m.id, "HELD") => TaskFacts(t)
      BY <2>2, <2>3, <2>6 DEF TaskFacts
    <3>3. SettleUpdate(p, m.id, "CONFIRMED", t)
      BY <2>6 DEF ApplyPaymentSucceeded
    <3> HIDE DEF t
    <3>4. QED
      BY <3>1, <3>2, <3>3, <2>3, <2>4, <2>5, <2>6
  <2>7. CASE m.type = "PaymentFailed" /\ ApplyPaymentFailed(p, m.id)
    <3>1. Idle \in Task /\ TaskFacts(Idle)
      BY DEF Task, TaskFacts, Idle
    <3>2. SettleUpdate(p, m.id, "CANCELLED", Idle)
      BY <2>7 DEF ApplyPaymentFailed
    <3>3. QED
      BY <3>1, <3>2, <2>4, <2>5
  <2>8. QED
    BY <2>1, <2>6, <2>7
<1>8. ASSUME NEW p \in Procs, SettleReadBack(p) \/ SettleRefund(p)
      PROVE  TasksHonest'
  <2>1. CASE SettleReadBack(p)
    <3>0. PICK id : id = task[p].id
      OBVIOUS
    <3> DEFINE refund == [at |-> "settleRefund", id |-> id]
    <3>1. task[p].at = "readBack" /\ TaskFacts(task[p]) /\ task[p] \in ReadBackTask
      BY <2>1, TaskShape DEF SettleReadBack, TasksHonest, TypeInv, TypeOK
    <3>2. id \in Booked /\ ~Has(id, "HELD") /\ Charged(id) /\ id \in Ids
      BY <3>0, <3>1 DEF TaskFacts, ReadBackTask
    <3>3. refund \in Task
      BY <3>2 DEF Task, RefundTask
    <3>4. ~Has(id, "CONFIRMED") => TaskFacts(refund)
      BY <3>2 DEF TaskFacts, Live
    <3>5. Become(p, IF id \notin Booked \/ Has(id, "CONFIRMED") THEN Idle ELSE refund)
      BY <2>1, <3>0 DEF SettleReadBack
    <3> HIDE DEF refund
    <3>6. CASE id \notin Booked \/ Has(id, "CONFIRMED")
      BY <3>5, <3>6, <1>1, <1>3
    <3>7. CASE ~(id \notin Booked \/ Has(id, "CONFIRMED"))
      BY <3>3, <3>4, <3>5, <3>7, <1>5
    <3>8. QED
      BY <3>6, <3>7
  <2>2. CASE SettleRefund(p)
    BY <2>2, <1>1, <1>3 DEF SettleRefund
  <2>3. QED
    BY <1>8, <2>1, <2>2
<1>9. ASSUME NEW p \in Procs, ExpirySweep(p) \/ CompletionSweep(p) \/ Announce(p) \/ Crash(p)
      PROVE  TasksHonest'
  <2>1. ASSUME NEW at \in {"expire", "complete"}, NEW R, NEW s \in {"EXPIRED", "COMPLETED"},
               SweepUpdate(p, at, R, s)
        PROVE  TasksHonest'
    <3>0. PICK ids : ids = task[p].ids
      OBVIOUS
    <3> DEFINE announce == [at |-> "announce", status |-> s, ids |-> ids]
    <3>1. task[p].at = at /\ TaskFacts(task[p])
      BY <2>1 DEF SweepUpdate, TasksHonest, TypeInv, TypeOK
    <3>2. ids \subseteq Booked'
      BY <3>0, <3>1, Lasting DEF TaskFacts
    <3>3. TaskFacts(announce)'
      BY <3>2 DEF TaskFacts
    <3>4. Become(p, IF task[p].ids = {} THEN Idle ELSE announce)
      BY <2>1, <3>0 DEF SweepUpdate
    <3> HIDE DEF announce
    <3>5. QED
      BY <3>3, <3>4, <1>1, <1>3
  <2>2. CASE ExpiryRead(p)
    <3>1. PICK R \in SUBSET Booked : R = StaleHolds
      BY SweptAreBooked
    <3> DEFINE t == [at |-> "expire", ids |-> R]
    <3>2. t \in Task /\ TaskFacts(t)
      BY <3>1 DEF Task, SweepTask, Booked, TaskFacts
    <3>3. Become(p, t)
      BY <2>2, <3>1 DEF ExpiryRead
    <3> HIDE DEF t
    <3>4. QED
      BY <3>2, <3>3, <1>5
  <2>3. CASE CompletionRead(p)
    <3>1. PICK R \in SUBSET Booked : R = FinishedStays
      BY SweptAreBooked
    <3> DEFINE t == [at |-> "complete", ids |-> R]
    <3>2. t \in Task /\ TaskFacts(t)
      BY <3>1 DEF Task, SweepTask, Booked, TaskFacts
    <3>3. Become(p, t)
      BY <2>3, <3>1 DEF CompletionRead
    <3> HIDE DEF t
    <3>4. QED
      BY <3>2, <3>3, <1>5
  <2>4. CASE Announce(p)
    <3>1. task[p].at = "announce" /\ TaskFacts(task[p]) /\ task[p] \in AnnounceTask
      BY <2>4, TaskShape DEF Announce, TasksHonest, TypeInv, TypeOK
    <3>2. PICK r \in task[p].ids :
            Become(p, IF task[p].ids = {r} THEN Idle ELSE [task[p] EXCEPT !.ids = @ \ {r}])
      BY <2>4 DEF Announce
    <3>0. PICK t : t = [task[p] EXCEPT !.ids = @ \ {r}]
      OBVIOUS
    <3>3. /\ t \in Task /\ t.at = "announce" /\ t.status = task[p].status
          /\ t.ids = task[p].ids \ {r}
      BY <3>0, <3>1 DEF AnnounceTask, Task
    <3>4. TaskFacts(t)
      BY <3>1, <3>3 DEF TaskFacts
    <3>5. Become(p, IF task[p].ids = {r} THEN Idle ELSE t)
      BY <3>0, <3>2
    <3>6. QED
      BY <3>3, <3>4, <3>5, <1>1, <1>3, <1>5
  <2>5. CASE Crash(p)
    BY <2>5, <1>1, <1>3 DEF Crash
  <2>6. QED
    BY <1>9, <2>1, <2>2, <2>3, <2>4, <2>5
       DEF ExpirySweep, CompletionSweep, ExpiryUpdate, CompletionUpdate
<1>10. ASSUME \/ Tick
              \/ \E l \in Listings : UpdateListing(l) \/ RemoveListing(l)
              \/ \E r \in Ids, type \in ResultType : ResultArrives(r, type)
              \/ UNCHANGED vars
       PROVE  TasksHonest'
  BY <1>10, <1>2 DEF Tick, UpdateListing, RemoveListing, ResultArrives, vars
<1>11. QED
  BY <1>4, <1>6, <1>7, <1>8, <1>9, <1>10 DEF Next, Procs

LEMMA MoneyStep ==
    ASSUME TypeInv, MoneyInv, [Next]_vars
    PROVE  MoneyInv'
<1> USE DEF MoneyInv
<1>1. TasksHonest'
  BY TasksStayHonest
<1>2. EventsKnown'
  <2>1. outbox' \subseteq Booked'
    <3>1. ASSUME NEW p \in Procs, NEW r \in Ids, ClaimCommits(p, r)
          PROVE  outbox' \subseteq Booked'
      <4>1. outbox' = outbox \cup {r} /\ outbox \subseteq Booked
        BY <3>1 DEF ClaimCommits, EventsKnown
      <4>2. Booked' = Booked \cup {r}
        BY <3>1, InsertEffect DEF TypeInv
      <4>3. QED
        BY <4>1, <4>2
    <3>2. QED
      BY <3>1, Footprint, Lasting DEF EventsKnown
  <2>2. \A m \in results' : m.id \in Booked'
    BY Footprint, Lasting DEF EventsKnown, ResultArrives
  <2>3. QED
    BY <2>1, <2>2 DEF EventsKnown
<1>3. OnlyPaidStays'
  <2> SUFFICES ASSUME NEW r \in Ids, Has(r, "CONFIRMED")' \/ Has(r, "COMPLETED")'
               PROVE  Charged(r)'
    BY DEF OnlyPaidStays
  <2>1. {"HELD", "CONFIRMED", "COMPLETED"} \subseteq Status
    BY DEF Status
  <2>2. ASSUME NEW p \in Procs, NEW q \in Ids, ClaimCommits(p, q)
        PROVE  Charged(r)
    BY <2>1, <2>2, InsertEffect DEF TypeInv, OnlyPaidStays
  <2>3. ASSUME NEW R \in SUBSET Booked, NEW s \in Status, Moves(R, s)
        PROVE  Charged(r)
    <3>1. \A t \in Status : Has(r, t)' <=> IF r \in R THEN t = s ELSE Has(r, t)
      BY <2>3, UpdateEffect DEF TypeInv, Moves
    <3>2. CASE r \in R
      BY <2>1, <2>3, <3>1, <3>2 DEF Moves, OnlyPaidStays
    <3>3. CASE r \notin R
      BY <2>1, <3>1, <3>3 DEF OnlyPaidStays
    <3>4. QED
      BY <3>2, <3>3
  <2>4. ASSUME UNCHANGED reservation
        PROVE  Charged(r)
    BY <2>4 DEF OnlyPaidStays, Has, Booked
  <2>5. Charged(r)
    BY <2>2, <2>3, <2>4, StepShape
  <2>6. QED
    BY <2>5, Lasting
<1>4. RefundsAreOwed'
  <2> SUFFICES ASSUME NEW r \in refunds'
               PROVE  r \in Booked' \ Live' /\ Charged(r)'
    BY DEF RefundsAreOwed
  <2>1. CASE r \in refunds
    BY <2>1, Lasting DEF RefundsAreOwed, Booked
  <2>2. ASSUME NEW p \in Procs, CancelRefund(p) \/ SettleRefund(p), r \notin refunds
        PROVE  r \in Booked \ Live /\ Charged(r)
    <3>1. /\ r = task[p].id /\ TaskFacts(task[p])
          /\ task[p].at \in {"cancelRefund", "settleRefund"}
      BY <2>2 DEF CancelRefund, SettleRefund, TasksHonest, TypeInv, TypeOK
    <3>2. QED
      BY <3>1 DEF TaskFacts, Live, Has, Booked
  <2>3. CASE r \notin refunds
    <3>1. r \in Booked \ Live /\ Charged(r)
      BY <2>2, <2>3, Footprint
    <3>2. QED
      BY <3>1, Lasting DEF Booked
  <2>4. QED
    BY <2>1, <2>3
<1>5. AnnouncementsAreTrue'
  <2> SUFFICES ASSUME NEW r \in Ids
               PROVE  /\ announced'[r] # "NONE" => r \in Booked'
                      /\ announced'[r] = "CANCELLED" => Has(r, "CANCELLED")'
                      /\ announced'[r] = "CONFIRMED" => Charged(r)'
    BY DEF AnnouncementsAreTrue
  <2>1. CASE announced'[r] = announced[r]
    BY <2>1, Lasting DEF AnnouncementsAreTrue
  <2>2. ASSUME NEW p \in Procs, Announce(p), announced'[r] # announced[r]
        PROVE  /\ r \in Booked
               /\ announced'[r] = "CANCELLED" => Has(r, "CANCELLED")
               /\ announced'[r] = "CONFIRMED" => Charged(r)
    <3>1. task[p].at = "announce" /\ TaskFacts(task[p])
      BY <2>2 DEF Announce, TasksHonest, TypeInv, TypeOK
    <3>2. r \in task[p].ids /\ announced'[r] = task[p].status
      BY <2>2 DEF Announce, TypeInv, TypeOK
    <3>3. QED
      BY <3>1, <3>2 DEF TaskFacts
  <2>3. CASE announced'[r] # announced[r]
    BY <2>2, <2>3, Footprint, Lasting
  <2>4. QED
    BY <2>1, <2>3
<1>6. QED
  BY <1>1, <1>2, <1>3, <1>4, <1>5

LEMMA InitMoney == Init => MoneyInv
<1> SUFFICES ASSUME Init PROVE MoneyInv
  OBVIOUS
<1>1. Booked = {} /\ \A r \in Ids, s \in Status : ~Has(r, s)
  BY DEF Init, Booked, Has
<1>2. TasksHonest
  <2>1. TaskFacts(Idle)
    BY DEF TaskFacts, Idle
  <2>2. QED
    BY <2>1 DEF Init, TasksHonest
<1>3. AnnouncementsAreTrue
  BY DEF Init, AnnouncementsAreTrue
<1>4. QED
  BY <1>1, <1>2, <1>3 DEF Init, MoneyInv, OnlyPaidStays, RefundsAreOwed, EventsKnown, Status

LEMMA MoneyHolds == Spec => []MoneyInv
<1>1. TypeInv /\ MoneyInv /\ [Next]_vars => MoneyInv'
  BY MoneyStep
<1>2. QED
  BY <1>1, InitMoney, TypeCorrect, PTL DEF Spec

\* Nobody stays in a listing without having been charged for it.
THEOREM PaidStays == Spec => []OnlyPaidStays
  BY MoneyHolds, PTL DEF MoneyInv

\* No refund is ever requested for a booking that stands or that was never charged, although
\* cancel acts on a status it read before and results are delivered any number of times.
THEOREM RefundsOwed == Spec => []RefundsAreOwed
  BY MoneyHolds, PTL DEF MoneyInv

\* What watchers are told of a cancellation or a confirmation is true for good.
THEOREM TrueAnnouncements == Spec => []AnnouncementsAreTrue
  BY MoneyHolds, PTL DEF MoneyInv

-----------------------------------------------------------------------------
(* The calendar.                                                           *)

ClaimOf(row, state) == [listing |-> row.listing, stay |-> row.stay, state |-> state]

LEMMA GivenUp ==
    ASSUME NEW l, NEW s
    PROVE  [[listing |-> l, stay |-> s, state |-> "standing"] EXCEPT !.state = "released"]
             = [listing |-> l, stay |-> s, state |-> "released"]
  OBVIOUS

LEMMA ClaimedRow ==
    ASSUME TypeInv, NEW r \in Booked
    PROVE  /\ r \in Live => claimed[r] = ClaimOf(reservation[r], "standing")
           /\ r \notin Live => claimed[r] = ClaimOf(reservation[r], "released")
           /\ claimed[r].listing = reservation[r].listing
           /\ claimed[r].stay = reservation[r].stay
           /\ claimed[r].state = "standing" <=> r \in Live
           /\ claimed[r] # NoRow
<1>1. r \in Ids /\ reservation[r] # NoRow /\ reservation[r] \in Reservation
  BY DEF Booked, TypeInv, TypeOK
<1>2. reservation[r].listing \in Listings /\ reservation[r].stay \in Stays
  BY <1>1 DEF Reservation
<1>3. ASSUME NEW state \in {"standing", "released"}
      PROVE  ClaimOf(reservation[r], state) # NoRow
  <2>1. ClaimOf(reservation[r], state)
          \in [listing : Listings, stay : Stays, state : {"standing", "released"}]
    BY <1>2 DEF ClaimOf
  <2>2. QED
    BY <2>1, NoClaimAssumption
<1>4. CASE r \in Live
  <2>1. claimed[r] = ClaimOf(reservation[r], "standing")
    BY <1>1, <1>4 DEF claimed, ClaimOf
  <2>2. /\ claimed[r].listing = reservation[r].listing
        /\ claimed[r].stay = reservation[r].stay
        /\ claimed[r].state = "standing"
    BY <2>1 DEF ClaimOf
  <2>3. claimed[r] # NoRow
    BY <1>3, <2>1
  <2>4. QED
    BY <1>4, <2>1, <2>2, <2>3
<1>5. CASE r \notin Live
  <2>1. claimed[r] = ClaimOf(reservation[r], "released")
    BY <1>1, <1>5 DEF claimed, ClaimOf
  <2>2. /\ claimed[r].listing = reservation[r].listing
        /\ claimed[r].stay = reservation[r].stay
        /\ claimed[r].state = "released"
    BY <2>1 DEF ClaimOf
  <2>3. claimed[r] # NoRow
    BY <1>3, <2>1
  <2>4. QED
    BY <1>5, <2>1, <2>2, <2>3
<1>6. QED
  BY <1>4, <1>5

LEMMA StandingIsLive ==
    ASSUME TypeInv
    PROVE  Promise!Standing = Live
<1>1. \A r \in Ids \ Booked : claimed[r] = NoRow
  BY DEF claimed, Booked
<1>2. \A r \in Booked : claimed[r] # NoRow /\ (claimed[r].state = "standing" <=> r \in Live)
  BY ClaimedRow
<1>3. QED
  BY <1>1, <1>2, LiveIsBooked DEF Promise!Standing, Booked

\* Each step of the table is a step of the calendar, or leaves the calendar as it was.
LEMMA CalendarStep ==
    ASSUME TypeInv, TypeInv', [Next]_vars
    PROVE  [Promise!Next]_claimed
<1>1. ASSUME NEW p \in Procs, NEW r \in Ids, ClaimCommits(p, r)
      PROVE  Promise!Next
  <2>1. PICK l \in Listings, s \in Stays : l = task[p].listing /\ s = task[p].stay
    BY <1>1, InsertEffect DEF TypeInv, ClaimTask
  <2>2. /\ r \notin Booked /\ Booked' = Booked \cup {r}
        /\ reservation'[r].listing = l /\ reservation'[r].stay = s
        /\ \A q \in Booked : reservation'[q] = reservation[q]
    BY <1>1, <2>1, InsertEffect DEF TypeInv
  <2>3. Live' = Live \cup {r} /\ r \notin Live
    BY <1>1, InsertLive
  <2>4. claimed[r] = NoRow
    BY <2>2 DEF claimed, Booked
  <2>5. Promise!Free(l, s)
    <3>1. \A q \in Live : claimed[q].listing = reservation[q].listing
                          /\ claimed[q].stay = reservation[q].stay
      BY ClaimedRow, LiveIsBooked
    <3>2. \A q \in Live : reservation[q].listing = l => ~Overlap(reservation[q].stay, s)
      BY <1>1, <2>1 DEF ClaimCommits, Conflicts
    <3>3. QED
      BY <3>1, <3>2, StandingIsLive DEF Promise!Free, Promise!Clash, Overlap
  <2>6. claimed' = [claimed EXCEPT ![r] = [listing |-> l, stay |-> s, state |-> "standing"]]
    <3>1. claimed'[r] = [listing |-> l, stay |-> s, state |-> "standing"]
      BY <2>2, <2>3 DEF claimed, Booked
    <3>2. ASSUME NEW q \in Ids, q # r
          PROVE  claimed'[q] = claimed[q]
      BY <3>2, <2>2, <2>3 DEF claimed, Booked
    <3>3. QED
      BY <3>1, <3>2 DEF claimed
  <2>7. Promise!Take(r, l, s)
    BY <2>4, <2>5, <2>6 DEF Promise!Take
  <2>8. QED
    BY <2>7 DEF Promise!Next
<1>2. ASSUME NEW R \in SUBSET Booked, NEW st \in Status, Moves(R, st)
      PROVE  Promise!Next
  <2>1. /\ Booked' = Booked
        /\ \A q \in Booked : /\ reservation'[q].listing = reservation[q].listing
                             /\ reservation'[q].stay = reservation[q].stay
    BY <1>2, UpdateEffect DEF TypeInv, Moves
  <2>2. Live' \subseteq Live /\ Live \subseteq Ids
    BY <1>2, LiveEffect DEF Live
  <2>3. PICK G \in SUBSET Live : G = Live \ Live'
    OBVIOUS
  <2>4. ASSUME NEW q \in Ids
        PROVE  claimed'[q] = IF q \in G THEN [claimed[q] EXCEPT !.state = "released"]
                                        ELSE claimed[q]
    <3>1. CASE q \notin Booked
      BY <3>1, <2>1, <2>3, LiveIsBooked DEF claimed, Booked
    <3>2. CASE q \in Booked
      <4>1. /\ q \in Live => claimed[q] = ClaimOf(reservation[q], "standing")
            /\ q \notin Live => claimed[q] = ClaimOf(reservation[q], "released")
        BY <3>2, ClaimedRow
      <4>2. /\ q \in Live' => claimed'[q] = ClaimOf(reservation[q], "standing")
            /\ q \notin Live' => claimed'[q] = ClaimOf(reservation[q], "released")
        BY <3>2, <2>1 DEF claimed, Booked, ClaimOf
      <4>3. [ClaimOf(reservation[q], "standing") EXCEPT !.state = "released"]
              = ClaimOf(reservation[q], "released")
        BY GivenUp DEF ClaimOf
      <4>4. QED
        BY <4>1, <4>2, <4>3, <2>2, <2>3
    <3>3. QED
      BY <3>1, <3>2
  <2>5. Promise!GiveUp(G)
    BY <2>4 DEF Promise!GiveUp, claimed
  <2>6. QED
    BY <2>3, <2>5, StandingIsLive DEF Promise!Next
<1>3. ASSUME UNCHANGED reservation
      PROVE  UNCHANGED claimed
  BY <1>3 DEF claimed, Live, Has, Booked
<1>4. QED
  BY <1>1, <1>2, <1>3, StepShape

\* The booking component implements the calendar it promises: whatever its activities do and
\* wherever they stop, a range is claimed only when free and given up for good.
THEOREM ImplementsCalendar == Spec => CalendarPromise
<1>1. Init => Promise!Init
  BY DEF Init, Promise!Init, claimed
<1>2. TypeInv /\ TypeInv' /\ [Next]_vars => [Promise!Next]_claimed
  BY CalendarStep
<1>3. QED
  BY <1>1, <1>2, TypeCorrect, PTL DEF Spec, CalendarPromise, Promise!Spec
=============================================================================
