------------------------------ MODULE Checkout ------------------------------
(***************************************************************************)
(* One browser tab of one guest: the Reserve page, which places a hold on  *)
(* arrival and follows it, and the Trips page, which lists and cancels.    *)
(* Both are guarded by the session, whose query is keyed by the access     *)
(* token.  The server is reduced to what module Booking lets this guest    *)
(* see of one date range: one row for each hold the tab asked for, and     *)
(* whether somebody else has the dates.                                    *)
(***************************************************************************)
EXTENDS Integers, FiniteSets

CONSTANTS
    Holds,        \* the POSTs of the tab, numbered; hold n makes row n
    MaxTroubles,  \* bound: token refreshes, realtime updates, fetches that fail and
                  \* presses of "Try again", together
    MaxVisits,    \* bound: pages the guest goes to
    Nothing       \* no data, no id

Status == {"HELD", "CONFIRMED", "EXPIRED", "CANCELLED", "COMPLETED"}
Rows == [Holds -> Status \cup {"none"}]
Money == {"none", "declined", "taken"}
Cancelling == {"no", "sent", "found", "updated", "done", "refused"}
Call == [at : {"unused", "sent", "served", "answered"},
         result : {"none", "created", "taken", "own", "failed"}]

ASSUME HoldsAssumption == Holds \in SUBSET Nat
ASSUME BoundsAssumption == {MaxTroubles, MaxVisits} \subseteq Nat

\* No data is neither a status nor a list, no id no number.
ASSUME NothingAssumption == Nothing \notin Nat \cup Status \cup Rows

Q == INSTANCE Queries

VARIABLES
    row,        \* the guest's reservations of these dates
    money,      \* what became of the charge of each
    rival,      \* somebody else has the dates
    call,       \* the POST of each hold
    cancelling, \* trips whose cancel is under way, and how far the server is with it
    page,       \* the route
    identity,   \* the session query of the current token: known, or being asked
    current,    \* the POST the Reserve page observes; Nothing while it is not mounted
    first,      \* the POST it began with
    shown,      \* its reservationId
    timer,      \* its stall timer is running
    stalled,
    detail,     \* the cached query of each reservation
    trips,      \* the cached query of the guest's reservations
    cancelled,  \* history: trips whose cancel the open list was told succeeded
    troubles, visits

serverVars == <<row, money, rival>>
tripVars == <<cancelling, trips, cancelled>>
viewVars == <<current, first, shown, timer, stalled>>
bounds == <<troubles, visits>>
vars == <<serverVars, call, page, identity, viewVars, detail, tripVars, bounds>>

Retried == current # first

TypeOK ==
    /\ row \in Rows
    /\ money \in [Holds -> Money]
    /\ rival \in BOOLEAN
    /\ call \in [Holds -> Call]
    /\ cancelling \in [Holds -> Cancelling]
    /\ page \in {"elsewhere", "reserve", "trips"} /\ identity \in {"known", "asking"}
    /\ current # Nothing => page = "reserve" /\ identity = "known" /\ {first, current} \subseteq Holds
    /\ shown # Nothing => shown \in first .. current
    /\ timer \in BOOLEAN /\ stalled \in BOOLEAN
    /\ detail \in [Holds -> Q!Query(Status)]
    /\ trips \in Q!Query(Rows) /\ cancelled \subseteq Holds
    /\ troubles \in 0 .. MaxTroubles /\ visits \in 0 .. MaxVisits

Init ==
    /\ row = [n \in Holds |-> "none"] /\ money = [n \in Holds |-> "none"]
    /\ rival \in BOOLEAN
    /\ call = [n \in Holds |-> [at |-> "unused", result |-> "none"]]
    /\ page = "elsewhere" /\ identity = "known"
    /\ current = Nothing /\ first = Nothing /\ shown = Nothing
    /\ timer = FALSE /\ stalled = FALSE
    /\ detail = [n \in Holds |-> Q!Empty]
    /\ cancelling = [n \in Holds |-> "no"] /\ trips = Q!Empty /\ cancelled = {}
    /\ troubles = 0 /\ visits = 0

Trouble == troubles < MaxTroubles /\ troubles' = troubles + 1 /\ UNCHANGED visits

-----------------------------------------------------------------------------
\* The server.

Live(n) == row[n] \in {"HELD", "CONFIRMED"}
Free == ~rival /\ \A n \in Holds : ~Live(n)

ServerStep ==
    UNCHANGED <<page, identity, viewVars, detail, trips, cancelled, bounds>>

Served(n, result) == call' = [call EXCEPT ![n] = [at |-> "served", result |-> result]]

\* The hold takes the dates, finds them taken, or fails for another reason.
ServeHold(n) ==
    /\ call[n].at = "sent"
    /\ \/ /\ Free
          /\ row' = [row EXCEPT ![n] = "HELD"]
          /\ Served(n, "created")
       \/ /\ ~Free
          /\ Served(n, IF rival THEN "taken" ELSE "own")
          /\ UNCHANGED row
       \/ /\ Served(n, "failed")
          /\ UNCHANGED row
    /\ UNCHANGED <<money, rival, cancelling>>
    /\ ServerStep

\* The payment worker charges the card, whenever it comes to it, whatever became of the hold.
Charge(n) ==
    /\ row[n] # "none" /\ money[n] = "none"
    /\ \E m \in {"taken", "declined"} : money' = [money EXCEPT ![n] = m]
    /\ UNCHANGED <<row, rival, call, cancelling>>
    /\ ServerStep

\* The result of the charge settles the hold, or the expiry sweep ends it before that.
Decide(n) ==
    /\ row[n] = "HELD"
    /\ \E s \in {"CONFIRMED", "CANCELLED", "EXPIRED"} :
          /\ s = "CONFIRMED" => money[n] = "taken"
          /\ s = "CANCELLED" => money[n] = "declined"
          /\ row' = [row EXCEPT ![n] = s]
    /\ UNCHANGED <<money, rival, call, cancelling>>
    /\ ServerStep

Complete(n) ==
    /\ row[n] = "CONFIRMED"
    /\ row' = [row EXCEPT ![n] = "COMPLETED"]
    /\ UNCHANGED <<money, rival, call, cancelling>>
    /\ ServerStep

\* The cancel: what was cancelled is answered so, what has ended otherwise is refused.
CancelRead(n) ==
    /\ cancelling[n] = "sent"
    /\ cancelling' = [cancelling EXCEPT ![n] =
          IF row[n] = "CANCELLED" THEN "done" ELSE IF Live(n) THEN "found" ELSE "refused"]
    /\ UNCHANGED <<row, money, rival, call>>
    /\ ServerStep

\* The update is by id: whatever the booking has become since, it is cancelled now.
CancelUpdate(n) ==
    /\ cancelling[n] = "found"
    /\ row' = [row EXCEPT ![n] = "CANCELLED"]
    /\ cancelling' = [cancelling EXCEPT ![n] = "updated"]
    /\ UNCHANGED <<money, rival, call>>
    /\ ServerStep

\* The refund, if it was read as paid, and the announcement; then it is answered.
CancelEnds(n) ==
    /\ cancelling[n] = "updated"
    /\ cancelling' = [cancelling EXCEPT ![n] = "done"]
    /\ UNCHANGED <<row, money, rival, call>>
    /\ ServerStep

\* A statement fails; what the ones before it did stays.
CancelFails(n) ==
    /\ cancelling[n] \in {"sent", "found", "updated"}
    /\ cancelling' = [cancelling EXCEPT ![n] = "refused"]
    /\ UNCHANGED <<row, money, rival, call>>
    /\ ServerStep

ServeCancel(n) == CancelRead(n) \/ CancelUpdate(n) \/ CancelEnds(n) \/ CancelFails(n)

RivalTakes ==
    /\ Free
    /\ rival' = TRUE
    /\ UNCHANGED <<row, money, call, cancelling>>
    /\ ServerStep

-----------------------------------------------------------------------------
\* What the Reserve page shows.

\* Slip: a hold counts as the end of the story.
IsSettledOnceHeld(status) == TRUE

IsSettled(status) == status # "HELD"

Mounted == current # Nothing

IsError == call[current].at = "answered" /\ call[current].result # "created"
SlotTaken == IsError /\ call[current].result \in {"taken", "own"}

\* data of the reservation's query; disabled without an id.
Reservation == IF shown = Nothing THEN Nothing ELSE detail[shown].data

Panel ==
    CASE ~Mounted -> "none"
      [] Mounted /\ SlotTaken -> "taken"
      [] Mounted /\ IsError /\ ~SlotTaken -> "failed"
      [] Mounted /\ ~IsError /\ Reservation = Nothing /\ stalled -> "stalled"
      [] Mounted /\ ~IsError /\ Reservation = Nothing /\ ~stalled -> "securing"
      [] OTHER -> Reservation

\* What the panels tell the guest.
SaysPaid == {"CONFIRMED"}
SaysReleased == Status \ {"HELD", "CONFIRMED"}
SaysSomebodyElseHasIt == {"taken"}

-----------------------------------------------------------------------------
\* The Reserve page.

Unused == {n \in Holds : call[n].at = "unused"}

\* The effect posts the hold; the observer follows that POST from now on.
Place(n) ==
    /\ n \in Unused /\ \A k \in Unused : n <= k
    /\ call' = [call EXCEPT ![n] = [at |-> "sent", result |-> "none"]]
    /\ current' = n

\* A fresh component: the ref that remembers the placed hold is fresh too.
MountReserve ==
    /\ \E n \in Holds : Place(n) /\ first' = n
    /\ shown' = Nothing /\ timer' = TRUE /\ stalled' = FALSE
    /\ UNCHANGED trips

Unmounted ==
    /\ current' = Nothing /\ first' = Nothing /\ shown' = Nothing
    /\ timer' = FALSE /\ stalled' = FALSE

MountTrips ==
    /\ trips' \in Q!Mounts(trips)
    /\ Unmounted
    /\ UNCHANGED call

Render(to) ==
    \/ to = "reserve" /\ MountReserve
    \/ to = "trips" /\ MountTrips
    \/ to = "elsewhere" /\ Unmounted /\ UNCHANGED <<call, trips>>

Navigate(to) ==
    /\ identity = "known"
    /\ page # to
    /\ visits < MaxVisits /\ visits' = visits + 1
    /\ page' = to
    /\ Render(to)
    /\ UNCHANGED <<serverVars, cancelling, cancelled, identity, detail, troubles>>

\* This component sent it, and keeps the id.
Sent(n) == Mounted /\ n \in first .. current

\* Slip: the guest is shown a confirmation at once.
HoldAnsweredOptimistic(n) ==
    /\ call[n].at = "served"
    /\ call' = [call EXCEPT ![n].at = "answered"]
    /\ LET created == call[n].result = "created" IN
         /\ detail' = IF created THEN [detail EXCEPT ![n] = Q!Put(@, "CONFIRMED")] ELSE detail
         /\ shown' = IF created /\ Sent(n) THEN n ELSE shown
         /\ timer' = (timer /\ ~(IF created THEN Sent(n) ELSE n = current))
    /\ UNCHANGED <<serverVars, page, identity, current, first, stalled, tripVars, bounds>>

\* The answer of a POST: its onSuccess seeds the cache, whoever observes it.  A reservation, or
\* an error of the POST that is observed, stops the timer.
HoldAnswered(n) ==
    /\ call[n].at = "served"
    /\ call' = [call EXCEPT ![n].at = "answered"]
    /\ LET created == call[n].result = "created" IN
         /\ detail' = IF created THEN [detail EXCEPT ![n] = Q!Put(@, "HELD")] ELSE detail
         /\ shown' = IF created /\ Sent(n) THEN n ELSE shown
         /\ timer' = (timer /\ ~(IF created THEN Sent(n) ELSE n = current))
    /\ UNCHANGED <<serverVars, page, identity, current, first, stalled, tripVars, bounds>>

Stall ==
    /\ timer
    /\ timer' = FALSE
    /\ stalled' = TRUE
    /\ UNCHANGED <<serverVars, call, page, identity, current, first, shown, detail, tripVars,
                   bounds>>

\* Only a change of the reservation or of the error would start the timer again.
RetryHold ==
    /\ Panel = "stalled"
    /\ Trouble
    /\ stalled' = FALSE
    /\ \E n \in Holds : Place(n)
    /\ UNCHANGED <<serverVars, page, identity, first, shown, timer, detail, tripVars>>

\* Every POLL_MS until the status has settled.
Poll ==
    /\ Mounted
    /\ shown # Nothing
    /\ ~IsSettled(detail[shown].data)
    /\ ~Q!Fetching(detail[shown])
    /\ detail' = [detail EXCEPT ![shown] = Q!Poll(@)]
    /\ UNCHANGED <<serverVars, call, page, identity, viewVars, tripVars, bounds>>

\* Slip: the pushed status is taken for the truth; events may come late.
UpdatePatches ==
    /\ Mounted /\ shown # Nothing
    /\ \E s \in {row[shown], "HELD"} : detail' = [detail EXCEPT ![shown] = Q!Put(@, s)]
    /\ UNCHANGED trips

\* A realtime update, or a reconnect: re-read what the open page shows.
Update ==
    \/ /\ Mounted /\ shown # Nothing
       /\ detail' = [detail EXCEPT ![shown] = Q!Invalidate(@)]
       /\ UNCHANGED trips
    \/ /\ page = "trips" /\ identity = "known"
       /\ trips' = Q!Invalidate(trips)
       /\ UNCHANGED detail

Hint ==
    /\ Trouble
    /\ Update
    /\ UNCHANGED <<serverVars, call, page, identity, viewVars, cancelling, cancelled>>

-----------------------------------------------------------------------------
\* The Trips page.

TripsInUse == page = "trips" /\ identity = "known"
TripsShown == TripsInUse /\ Q!Loaded(trips)

TripsStep == UNCHANGED <<serverVars, call, page, identity, viewVars, detail, bounds>>

TripsPoll ==
    /\ TripsShown
    /\ \E n \in Holds : trips.data[n] # "none" /\ ~IsSettled(trips.data[n])
    /\ ~Q!Fetching(trips)
    /\ trips' = Q!Poll(trips)
    /\ UNCHANGED <<cancelling, cancelled>>
    /\ TripsStep

\* The button is there for what the list shows as live, and not while it is pending.
CancelTrip(n) ==
    /\ TripsShown
    /\ trips.data[n] \in {"HELD", "CONFIRMED"}
    /\ cancelling[n] = "no"
    /\ cancelling' = [cancelling EXCEPT ![n] = "sent"]
    /\ UNCHANGED <<trips, cancelled>>
    /\ TripsStep

\* Slip: the answer joins whatever read is under way.
CancelAnsweredPolls(n) ==
    /\ cancelling[n] = "done"
    /\ cancelling' = [cancelling EXCEPT ![n] = "no"]
    /\ trips' = IF TripsInUse THEN Q!Poll(trips) ELSE Q!Mark(trips)
    /\ cancelled' = IF TripsInUse THEN cancelled \cup {n} ELSE cancelled
    /\ TripsStep

\* Every query of reservations is invalid now; the list is read again if it is open.
CancelAnswered(n) ==
    /\ cancelling[n] = "done"
    /\ cancelling' = [cancelling EXCEPT ![n] = "no"]
    /\ trips' = IF TripsInUse THEN Q!Invalidate(trips) ELSE Q!Mark(trips)
    /\ cancelled' = IF TripsInUse THEN cancelled \cup {n} ELSE cancelled
    /\ TripsStep

\* A refusal changes nothing on the page.
CancelRefused(n) ==
    /\ cancelling[n] = "refused"
    /\ cancelling' = [cancelling EXCEPT ![n] = "no"]
    /\ UNCHANGED <<trips, cancelled>>
    /\ TripsStep

-----------------------------------------------------------------------------
\* Fetches.

DetailFetch(n) ==
    /\ \/ detail[n].fetch = "asked" /\ detail' = [detail EXCEPT ![n] = Q!Read(@, row[n])]
       \/ detail[n].fetch = "read" /\ detail' = [detail EXCEPT ![n] = Q!Answer(@)]
    /\ UNCHANGED <<serverVars, call, page, identity, viewVars, tripVars, bounds>>

TripsFetch ==
    /\ \/ trips.fetch = "asked" /\ trips' = Q!Read(trips, row)
       \/ trips.fetch = "read" /\ trips' = Q!Answer(trips)
    /\ UNCHANGED <<cancelling, cancelled>>
    /\ TripsStep

FetchFails ==
    /\ Trouble
    /\ \/ /\ \E n \in Holds : /\ Q!Fetching(detail[n])
                              /\ detail' = [detail EXCEPT ![n] = Q!Fail(@)]
          /\ UNCHANGED trips
       \/ /\ Q!Fetching(trips) /\ trips' = Q!Fail(trips)
          /\ UNCHANGED detail
    /\ UNCHANGED <<serverVars, call, page, identity, viewVars, cancelling, cancelled>>

-----------------------------------------------------------------------------
\* The session.

InFlight ==
    \/ \E n \in Holds : call[n].at = "sent" \/ cancelling[n] = "sent"
    \/ \E n \in Holds : detail[n].fetch = "asked"
    \/ trips.fetch = "asked"

\* A request is answered 401 and sent again with a new token.  The session query has no data
\* for that token, so the guard takes the page down until the API says whose it is.
SilentRefresh ==
    /\ page # "elsewhere" /\ identity = "known"
    /\ InFlight
    /\ Trouble
    /\ identity' = "asking"
    /\ Unmounted
    /\ UNCHANGED <<serverVars, call, page, detail, tripVars>>

\* The page is put up again, from nothing; without an identity the guest is sent to sign in.
IdentityAnswered ==
    /\ identity = "asking"
    /\ identity' = "known"
    /\ page' \in {page, "elsewhere"}
    /\ Render(page')
    /\ UNCHANGED <<serverVars, cancelling, cancelled, detail, bounds>>

Next ==
    \/ \E n \in Holds : ServeHold(n) \/ Charge(n) \/ Decide(n) \/ Complete(n)
                        \/ ServeCancel(n)
    \/ RivalTakes
    \/ \E to \in {"elsewhere", "reserve", "trips"} : Navigate(to)
    \/ \E n \in Holds : HoldAnswered(n) \/ CancelTrip(n) \/ CancelAnswered(n)
                        \/ CancelRefused(n) \/ DetailFetch(n)
    \/ Stall \/ RetryHold \/ Poll \/ Hint
    \/ TripsPoll \/ TripsFetch \/ FetchFails
    \/ SilentRefresh \/ IdentityAnswered

\* The timers of the reserve page run and its fetches end; the server decides every hold
\* (Booking.BookingsEnd).  A POST may hang for ever.
Fairness ==
    /\ WF_vars(Stall) /\ WF_vars(Poll)
    /\ \A n \in Holds : WF_vars(DetailFetch(n)) /\ WF_vars(Decide(n))

Spec == Init /\ [][Next]_vars /\ Fairness

-----------------------------------------------------------------------------
(* Properties.                                                             *)

\* What the panels say is true however late they say it: a confirmed booking was paid for, and
\* what is shown as released stands no more (Reserve.tsx:336-340).
PanelsTellTheTruth ==
    /\ Panel \in SaysPaid => money[shown] = "taken"
    /\ Panel \in SaysReleased => ~Live(shown)

\* Not optimistic (Reserve.tsx:362-364): as long as the page stays open and nothing was tried
\* again, what it showed of the reservation is followed by later statuses only.
ScreenMovesForward ==
    [][ current # Nothing /\ current' = current /\ ~Retried /\ Panel' # Panel =>
          /\ Panel = "HELD" => Panel' \in Status
          /\ Panel = "CONFIRMED" => Panel' \in {"CANCELLED", "COMPLETED"}
          /\ Panel \notin {"HELD", "CONFIRMED", "securing", "stalled"} => FALSE ]_vars

\* The screen settles: neither the spinner nor the hold stays for ever, whatever is lost, unless
\* the guest tried again (Reserve.tsx:431-434).
ScreenSettles ==
    (Panel \in {"securing", "HELD"} /\ ~Retried)
        ~> Panel \notin {"securing", "HELD"} \/ Retried

\* A trip the guest was told is cancelled is not shown as standing again: no list read before
\* the cancel comes back (Trips.tsx:146-149).
CancelledTripsShowIt ==
    TripsShown /\ ~trips.failed =>
        Q!WillShow(trips, {t \in Rows : \A n \in cancelled : t[n] = "CANCELLED"})

-----------------------------------------------------------------------------
(* Statements of the code that the code does not keep.                     *)

\* Reserve.tsx:394-396: the guard keeps a guest from being "told they lost a race against
\* themselves".  A silent refresh takes the page down and puts it up again, and the new page
\* posts again; somebody else has the dates only if it was not the guest.
TakenMeansSomebodyElse ==
    Panel \in SaysSomebodyElseHasIt /\ ~Retried => call[current].result # "own"

\* Reserve.tsx:279-281, 339-340: declines and expiries share a panel because "no money moved":
\* "You weren't charged", "No charge was made".  The card may be charged after the sweep ended
\* the hold, or the booking was paid for, and cancelled or over.
ReleasedIsNotCharged == Panel \in SaysReleased => money[shown] # "taken"
=============================================================================
