--------------------------- MODULE CheckoutProofs ---------------------------
(***************************************************************************)
(* What TLC checks of Checkout on small instances, proved for any number   *)
(* of holds, troubles and visits.                                          *)
(***************************************************************************)
EXTENDS Checkout, TLAPS

-----------------------------------------------------------------------------
(* The inductive invariants.                                               *)

ServerTyped ==
    /\ row \in Rows
    /\ money \in [Holds -> Money]
    /\ rival \in BOOLEAN
    /\ call \in [Holds -> Call]
    /\ cancelling \in [Holds -> Cancelling]
PageTyped ==
    /\ page \in {"elsewhere", "reserve", "trips"} /\ identity \in {"known", "asking"}
    /\ current # Nothing => page = "reserve" /\ identity = "known"
TimerTyped == timer \in BOOLEAN /\ stalled \in BOOLEAN
BoundsTyped == troubles \in 0 .. MaxTroubles /\ visits \in 0 .. MaxVisits
QueriesTyped ==
    /\ detail \in [Holds -> Q!Query(Status)]
    /\ trips \in Q!Query(Rows) /\ cancelled \subseteq Holds

\* A hold not yet served is not charged for, a booking is.
RowInv == \A n \in Holds :
    /\ row[n] = "none" => money[n] = "none"
    /\ row[n] \in {"CONFIRMED", "COMPLETED"} => money[n] = "taken"
    /\ call[n].at \in {"unused", "sent"} => row[n] = "none"
    /\ call[n].result = "created" => row[n] # "none"

\* The holds an open Reserve page follows, and those to come: their cancels are not under way,
\* since the trips and this page are never open together.
Watched(n) == current # Nothing /\ first <= n
WatchedInv == \A n \in Holds : Watched(n) => cancelling[n] = "no"

\* A status is followed by later ones only; a cancel that had read a live booking may overwrite
\* what the booking has become.
After(s, n) ==
    IF s = "HELD" THEN Status
    ELSE IF s = "CONFIRMED" THEN {"CONFIRMED", "CANCELLED", "COMPLETED"}
    ELSE IF Watched(n) THEN {s}
    ELSE {s, "CANCELLED"}

\* What was read of a hold was so once.
WasSo(s, n) ==
    s # Nothing =>
        /\ s \in Status /\ row[n] \in After(s, n)
        /\ s = "CONFIRMED" => money[n] = "taken"

\* What is cached of a hold, and what a fetch under way has read of it; nothing is known of a hold
\* before its answer.
Created(n) == call[n].at = "answered" /\ call[n].result = "created"
Fits(q, n) ==
    /\ WasSo(q.data, n) /\ WasSo(q.seen, n)
    /\ q.fetch = "read" <=> q.seen # Nothing
    /\ q.data # Nothing /\ q.seen # Nothing => q.seen \in After(q.data, n)
    /\ q.data # Nothing \/ q.fetch # "none" => Created(n)
DetailInv == \A n \in Holds : Fits(detail[n], n)

\* The page observes a POST it made; the id it keeps is of one that was answered.  Holds are posted
\* in the order of their numbers.
ViewInv ==
    /\ current = Nothing => shown = Nothing
    /\ current # Nothing =>
         {first, current} \subseteq Holds /\ first <= current /\ call[current].at # "unused"
    /\ shown # Nothing =>
         shown \in Holds /\ Created(shown) /\ shown \in first .. current
         /\ detail[shown].data # Nothing
OrderInv == \A u \in Unused, k \in Holds \ Unused : k < u

\* The list, once it shows again what was told: it is read after the cancel, or the last read failed.
\* It lists what exists, and only what it lists is cancelled.
Standing(d) == \E n \in cancelled : d[n] # "CANCELLED"
Listed(d) == \A n \in Holds : d[n] # "none" => row[n] # "none"
IsCancelled(n) == n \in cancelled \/ cancelling[n] \in {"updated", "done"}
TripsInv ==
    /\ \A n \in Holds : IsCancelled(n) => row[n] = "CANCELLED"
    /\ \A n \in Holds : cancelling[n] # "no" => Q!Loaded(trips) /\ row[n] # "none"
    /\ Q!Loaded(trips) => Listed(trips.data)
    /\ trips.fetch = "read" => trips.seen \in Rows /\ ~Standing(trips.seen) /\ Listed(trips.seen)
    /\ trips.fetch = "none" => trips.failed \/ ~Q!Loaded(trips) \/ ~Standing(trips.data)

-----------------------------------------------------------------------------
(* Lemmas about queries.                                                   *)

LEMMA AskEffect ==
    ASSUME NEW Data, NEW q \in Q!Query(Data)
    PROVE  /\ Q!Ask(q) \in Q!Query(Data) /\ Q!Ask(q).fetch = "asked"
           /\ Q!Ask(q).data = q.data /\ Q!Ask(q).seen = Nothing
BY DEF Q!Query, Q!Ask

LEMMA PollEffect ==
    ASSUME NEW Data, NEW q \in Q!Query(Data)
    PROVE  /\ Q!Poll(q) \in Q!Query(Data) /\ Q!Poll(q).data = q.data
           /\ Q!Poll(q) = q \/ (Q!Poll(q).fetch = "asked" /\ Q!Poll(q).seen = Nothing)
BY AskEffect DEF Q!Poll, Q!Fetching

LEMMA MountsEffect ==
    ASSUME NEW Data, NEW q \in Q!Query(Data), NEW r \in Q!Mounts(q)
    PROVE  r \in Q!Query(Data) /\ r.data = q.data /\ (r = q \/ r.fetch = "asked")
BY PollEffect DEF Q!Mounts

LEMMA MarkEffect ==
    ASSUME NEW Data, NEW q \in Q!Query(Data)
    PROVE  /\ Q!Mark(q) \in Q!Query(Data) /\ Q!Mark(q).fetch = q.fetch
           /\ Q!Mark(q).data = q.data /\ Q!Mark(q).seen = q.seen /\ Q!Mark(q).failed = q.failed
<1>1. Q!Mark(q) \in Q!Query(Data)
  BY Zenon DEF Q!Query, Q!Mark
<1>2. Q!Mark(q).fetch = q.fetch /\ Q!Mark(q).data = q.data /\ Q!Mark(q).seen = q.seen
  BY DEF Q!Query, Q!Mark
<1>3. Q!Mark(q).failed = q.failed
  BY Zenon DEF Q!Query, Q!Mark
<1>4. QED
  BY <1>1, <1>2, <1>3

LEMMA InvalidateEffect ==
    ASSUME NEW Data, NEW q \in Q!Query(Data)
    PROVE  /\ Q!Invalidate(q) \in Q!Query(Data) /\ Q!Invalidate(q).data = q.data
           /\ \/ Q!Invalidate(q).fetch = "asked" /\ Q!Invalidate(q).seen = Nothing
              \/ /\ ~Q!Loaded(q) /\ Q!Fetching(q)
                 /\ Q!Invalidate(q).fetch = q.fetch /\ Q!Invalidate(q).seen = q.seen
<1>1. CASE Q!Absorbs(q)
  <2>1. Q!Invalidate(q) = Q!Mark(q)
    BY <1>1, Zenon DEF Q!Invalidate, Q!Mark
  <2>2. QED
    BY <1>1, <2>1, MarkEffect DEF Q!Absorbs
<1>2. CASE ~Q!Absorbs(q)
  <2>1. Q!Invalidate(q) = Q!Mark(Q!Ask(q))
    BY <1>2, Zenon DEF Q!Invalidate, Q!Mark
  <2>2. QED
    BY <2>1, AskEffect, MarkEffect
<1>3. QED
  BY <1>1, <1>2

LEMMA ReadEffect ==
    ASSUME NEW Data, NEW q \in Q!Query(Data), NEW value \in Data
    PROVE  /\ Q!Read(q, value) \in Q!Query(Data) /\ Q!Read(q, value).fetch = "read"
           /\ Q!Read(q, value).data = q.data /\ Q!Read(q, value).seen = value
BY DEF Q!Query, Q!Read

LEMMA AnswerEffect ==
    ASSUME NEW Data, NEW q \in Q!Query(Data)
    PROVE  /\ Q!Answer(q) \in Q!Query(Data) /\ Q!Answer(q).fetch = "none"
           /\ Q!Answer(q).data = q.seen /\ Q!Answer(q).seen = Nothing
BY DEF Q!Query, Q!Answer, Q!Empty

LEMMA FailEffect ==
    ASSUME NEW Data, NEW q \in Q!Query(Data)
    PROVE  /\ Q!Fail(q) \in Q!Query(Data) /\ Q!Fail(q).fetch = "none" /\ Q!Fail(q).failed
           /\ Q!Fail(q).data = q.data /\ Q!Fail(q).seen = Nothing
<1>1. Q!Fail(q) \in Q!Query(Data)
  BY Zenon DEF Q!Query, Q!Fail
<1>2. Q!Fail(q).fetch = "none" /\ Q!Fail(q).data = q.data /\ Q!Fail(q).seen = Nothing
  BY DEF Q!Query, Q!Fail
<1>3. Q!Fail(q).failed
  BY Zenon DEF Q!Query, Q!Fail
<1>4. QED
  BY <1>1, <1>2, <1>3

LEMMA PutEffect ==
    ASSUME NEW Data, NEW q \in Q!Query(Data), NEW value \in Data
    PROVE  /\ Q!Put(q, value) \in Q!Query(Data) /\ Q!Put(q, value).fetch = q.fetch
           /\ Q!Put(q, value).data = value /\ Q!Put(q, value).seen = q.seen
BY DEF Q!Query, Q!Put

-----------------------------------------------------------------------------
(* What a step does to the server and to the calls.                        *)

Decides == \E n \in Holds : Decide(n) \/ Charge(n) \/ Complete(n) \/ ServeCancel(n)
Serves(n, result) ==
    /\ call[n].at = "sent"
    /\ call' = [call EXCEPT ![n] = [at |-> "served", result |-> result]]
    /\ row' = IF result = "created" THEN [row EXCEPT ![n] = "HELD"] ELSE row
    /\ UNCHANGED money
Posts(n) ==
    /\ Place(n)
    /\ UNCHANGED <<row, money>>
Answers(n) ==
    /\ call[n].at = "served" /\ call' = [call EXCEPT ![n].at = "answered"]
    /\ UNCHANGED <<row, money>>

LEMMA CallSteps ==
    ASSUME [Next]_vars
    PROVE  \/ UNCHANGED <<row, money, call>>
           \/ Decides /\ UNCHANGED call
           \/ \E n \in Holds : \E result \in {"created", "taken", "own", "failed"} : Serves(n, result)
           \/ \E n \in Holds : Posts(n)
           \/ \E n \in Holds : HoldAnswered(n) /\ Answers(n)
<1>1. ASSUME NEW n \in Holds, ServeHold(n)
      PROVE  \E result \in {"created", "taken", "own", "failed"} : Serves(n, result)
  BY <1>1 DEF ServeHold, Served, Serves
<1>2. ASSUME NEW n \in Holds, Decide(n) \/ Charge(n) \/ Complete(n) \/ ServeCancel(n)
      PROVE  Decides /\ UNCHANGED call
  BY <1>2 DEF Decides, Decide, Charge, Complete, ServeCancel, CancelRead, CancelUpdate, CancelEnds,
              CancelFails
<1>3. ASSUME NEW to, Render(to), UNCHANGED <<row, money>>
      PROVE  UNCHANGED <<row, money, call>> \/ \E n \in Holds : Posts(n)
  BY <1>3 DEF Render, MountReserve, MountTrips, Posts
<1>4. ASSUME NEW to, Navigate(to)
      PROVE  UNCHANGED <<row, money, call>> \/ \E n \in Holds : Posts(n)
  BY <1>3, <1>4 DEF Navigate, serverVars
<1>5. CASE IdentityAnswered
  <2>1. PICK to : to = page'
    OBVIOUS
  <2>2. QED
    BY <1>3, <1>5, <2>1 DEF IdentityAnswered, serverVars
<1>6. CASE RetryHold
  BY <1>6 DEF RetryHold, serverVars, Posts
<1>7. ASSUME NEW n \in Holds, HoldAnswered(n)
      PROVE  Answers(n)
  BY <1>7 DEF HoldAnswered, Answers, serverVars
<1>8. ASSUME NEW n \in Holds, CancelTrip(n) \/ CancelAnswered(n) \/ CancelRefused(n) \/ DetailFetch(n)
      PROVE  UNCHANGED <<row, money, call>>
  BY <1>8 DEF CancelTrip, CancelAnswered, CancelRefused, DetailFetch, TripsStep, serverVars
<1>9. CASE \/ RivalTakes \/ Stall \/ Poll \/ Hint \/ TripsPoll \/ TripsFetch \/ FetchFails
           \/ SilentRefresh \/ UNCHANGED vars
  BY <1>9 DEF RivalTakes, Stall, Poll, Hint, TripsPoll, TripsFetch, FetchFails, SilentRefresh,
              TripsStep, serverVars, vars
<1>10. QED
  BY <1>1, <1>2, <1>4, <1>5, <1>6, <1>7, <1>8, <1>9 DEF Next

\* A POST is made, served and answered; its result is that of the service.
CallMay(n) ==
    \/ call'[n] = call[n]
    \/ call[n].at = "unused" /\ call'[n].at = "sent" /\ call'[n].result = "none"
    \/ call[n].at = "sent" /\ call'[n].at = "served" /\ (call'[n].result = "created" => row'[n] = "HELD")
    \/ call[n].at = "served" /\ call'[n].at = "answered" /\ call'[n].result = call[n].result
RowMay(n) ==
    \/ row'[n] = row[n] /\ money'[n] = money[n]
    \/ /\ row[n] = "none" /\ row'[n] = "HELD" /\ money'[n] = money[n]
       /\ call[n].at = "sent" /\ call'[n].at = "served"
    \/ row'[n] = row[n] /\ row[n] # "none" /\ money[n] = "none"
    \/ row[n] = "HELD" /\ row'[n] = "CONFIRMED" /\ money'[n] = money[n] /\ money[n] = "taken"
    \/ row[n] = "HELD" /\ row'[n] \in {"CANCELLED", "EXPIRED"} /\ money'[n] = money[n]
    \/ row[n] = "CONFIRMED" /\ row'[n] = "COMPLETED" /\ money'[n] = money[n]
    \/ /\ row[n] # "none" /\ row'[n] = "CANCELLED" /\ money'[n] = money[n]
       /\ cancelling[n] = "found"

LEMMA PostsEffect ==
    ASSUME ServerTyped, NEW n \in Holds, Place(n)
    PROVE  /\ call' \in [Holds -> Call] /\ call'[n].at = "sent" /\ call'[n].result = "none"
           /\ call[n].at = "unused" /\ current' = n
           /\ \A k \in Holds : k # n => call'[k] = call[k]
<1>1. PICK new \in Call : new = [at |-> "sent", result |-> "none"]
  BY DEF Call
<1>2. call' = [call EXCEPT ![n] = new]
  BY <1>1 DEF Place
<1>3. QED
  BY <1>1, <1>2 DEF Place, Unused, ServerTyped

LEMMA ServesEffect ==
    ASSUME ServerTyped, NEW n \in Holds, NEW result \in {"created", "taken", "own", "failed"},
           Serves(n, result)
    PROVE  /\ call' \in [Holds -> Call] /\ call'[n].at = "served" /\ call'[n].result = result
           /\ \A k \in Holds : k # n => call'[k] = call[k]
<1>1. PICK new \in Call : new = [at |-> "served", result |-> result]
  BY DEF Call
<1>2. call' = [call EXCEPT ![n] = new]
  BY <1>1 DEF Serves
<1>3. QED
  BY <1>1, <1>2 DEF ServerTyped

LEMMA AnswersEffect ==
    ASSUME ServerTyped, NEW n \in Holds, Answers(n)
    PROVE  /\ call' \in [Holds -> Call] /\ call'[n].at = "answered"
           /\ call'[n].result = call[n].result
           /\ \A k \in Holds : k # n => call'[k] = call[k]
<1>1. PICK old \in Call : old = call[n]
  BY DEF ServerTyped
<1>2. PICK new : new = [old EXCEPT !.at = "answered"]
  OBVIOUS
<1>3. new \in Call /\ new.at = "answered" /\ new.result = old.result
  BY <1>2 DEF Call
<1>4. call' = [call EXCEPT ![n] = new]
  BY <1>1, <1>2, Zenon DEF Answers
<1>5. QED
  BY <1>1, <1>3, <1>4 DEF ServerTyped

LEMMA CallsStep ==
    ASSUME ServerTyped, RowInv, TripsInv, [Next]_vars
    PROVE  call' \in [Holds -> Call] /\ \A n \in Holds : CallMay(n)
<1>1. CASE UNCHANGED call
  BY <1>1 DEF ServerTyped, CallMay
<1>2. ASSUME NEW n \in Holds, NEW result \in {"created", "taken", "own", "failed"}, Serves(n, result)
      PROVE  call' \in [Holds -> Call] /\ \A k \in Holds : CallMay(k)
  <2>1. row'[n] = "HELD" \/ result # "created"
    BY <1>2 DEF Serves, ServerTyped, Rows
  <2>2. QED
    BY <1>2, <2>1, ServesEffect DEF CallMay, Serves
<1>3. ASSUME NEW n \in Holds, Posts(n)
      PROVE  call' \in [Holds -> Call] /\ \A k \in Holds : CallMay(k)
  BY <1>3, PostsEffect DEF CallMay, Posts
<1>4. ASSUME NEW n \in Holds, Answers(n)
      PROVE  call' \in [Holds -> Call] /\ \A k \in Holds : CallMay(k)
  BY <1>4, AnswersEffect DEF CallMay, Answers
<1>5. QED
  BY <1>1, <1>2, <1>3, <1>4, CallSteps

LEMMA RowsStep ==
    ASSUME ServerTyped, RowInv, TripsInv, [Next]_vars
    PROVE  /\ row' \in Rows /\ money' \in [Holds -> Money]
           /\ \A n \in Holds : RowMay(n)
<1>1. CASE UNCHANGED <<row, money>>
  BY <1>1 DEF ServerTyped, RowMay
<1>2. ASSUME NEW n \in Holds, NEW result \in {"created", "taken", "own", "failed"}, Serves(n, result)
      PROVE  /\ row' \in Rows /\ money' \in [Holds -> Money]
             /\ \A k \in Holds : RowMay(k)
  <2>1. row[n] = "none" /\ call[n].at = "sent" /\ call'[n].at = "served"
    BY <1>2, ServesEffect DEF Serves, RowInv
  <2>2. CASE result # "created"
    BY <1>1, <1>2, <2>2 DEF Serves
  <2>3. CASE result = "created"
    BY <1>2, <2>1, <2>3 DEF Serves, ServerTyped, Rows, Status, RowMay
  <2>4. QED
    BY <2>2, <2>3
<1>3. ASSUME NEW n \in Holds, Decide(n)
      PROVE  /\ row' \in Rows /\ money' \in [Holds -> Money]
             /\ \A k \in Holds : RowMay(k)
  BY <1>3 DEF Decide, ServerTyped, Rows, Status, RowMay
<1>4. ASSUME NEW n \in Holds, Charge(n)
      PROVE  /\ row' \in Rows /\ money' \in [Holds -> Money]
             /\ \A k \in Holds : RowMay(k)
  BY <1>4 DEF Charge, ServerTyped, Rows, Money, RowMay
<1>5. ASSUME NEW n \in Holds, Complete(n)
      PROVE  /\ row' \in Rows /\ money' \in [Holds -> Money]
             /\ \A k \in Holds : RowMay(k)
  BY <1>5 DEF Complete, ServerTyped, Rows, Status, RowMay
<1>6. ASSUME NEW n \in Holds, CancelUpdate(n)
      PROVE  /\ row' \in Rows /\ money' \in [Holds -> Money]
             /\ \A k \in Holds : RowMay(k)
  <2>1. row[n] # "none" /\ cancelling[n] = "found"
    BY <1>6 DEF CancelUpdate, TripsInv
  <2>2. row' = [row EXCEPT ![n] = "CANCELLED"] /\ UNCHANGED money
    BY <1>6 DEF CancelUpdate
  <2>3. QED
    BY <2>1, <2>2 DEF ServerTyped, Rows, Status, RowMay
<1>7. ASSUME NEW n \in Holds, ServeCancel(n)
      PROVE  CancelUpdate(n) \/ UNCHANGED <<row, money>>
  BY <1>7 DEF ServeCancel, CancelRead, CancelEnds, CancelFails
<1>8. QED
  BY <1>1, <1>2, <1>3, <1>4, <1>5, <1>6, <1>7, CallSteps DEF Decides, Posts, Answers

LEMMA RowInvStep ==
    ASSUME ServerTyped, RowInv, TripsInv, [Next]_vars
    PROVE  RowInv'
<1>1. SUFFICES ASSUME NEW n \in Holds
               PROVE  /\ row'[n] = "none" => money'[n] = "none"
                      /\ row'[n] \in {"CONFIRMED", "COMPLETED"} => money'[n] = "taken"
                      /\ call'[n].at \in {"unused", "sent"} => row'[n] = "none"
                      /\ call'[n].result = "created" => row'[n] # "none"
  BY DEF RowInv
<1>2. RowMay(n) /\ CallMay(n)
  BY RowsStep, CallsStep
<1>3. /\ row'[n] = "none" => money'[n] = "none"
      /\ row'[n] \in {"CONFIRMED", "COMPLETED"} => money'[n] = "taken"
  BY <1>2 DEF RowMay, RowInv
<1>4. call'[n].at \in {"unused", "sent"} => row'[n] = "none"
  <2>1. call'[n].at \in {"unused", "sent"} => row[n] = "none" /\ call'[n].at # "served"
    BY <1>2 DEF CallMay, RowInv
  <2>2. QED
    BY <1>2, <2>1 DEF RowMay
<1>5. call'[n].result = "created" => row'[n] # "none"
  <2>1. row[n] # "none" => row'[n] # "none"
    BY <1>2 DEF RowMay
  <2>2. QED
    BY <1>2, <2>1 DEF CallMay, RowInv
<1>6. QED
  BY <1>3, <1>4, <1>5

\* Who changes what the page follows.
LEMMA ViewSteps ==
    ASSUME [Next]_vars
    PROVE  \/ UNCHANGED <<current, first, shown>>
           \/ \E n \in Holds : HoldAnswered(n)
           \/ Unmounted
           \/ \E n \in Holds : Place(n) /\ first' = n /\ shown' = Nothing
           \/ \E n \in Holds : Mounted /\ Place(n) /\ UNCHANGED <<first, shown>>
<1>1. ASSUME NEW n, ServeHold(n) \/ Decide(n) \/ Charge(n) \/ Complete(n) \/ ServeCancel(n)
                    \/ RivalTakes
      PROVE  UNCHANGED <<current, first, shown>>
  BY <1>1 DEF ServeHold, Decide, Charge, Complete, ServeCancel, CancelRead, CancelUpdate,
              CancelEnds, CancelFails, RivalTakes, ServerStep, viewVars
<1>2. ASSUME NEW n, CancelTrip(n) \/ CancelAnswered(n) \/ CancelRefused(n) \/ TripsPoll \/ TripsFetch
      PROVE  UNCHANGED <<current, first, shown>>
  BY <1>2 DEF CancelTrip, CancelAnswered, CancelRefused, TripsPoll, TripsFetch, TripsStep, viewVars
<1>3. ASSUME NEW n, DetailFetch(n) \/ Stall \/ Poll \/ Hint \/ FetchFails \/ UNCHANGED vars
      PROVE  UNCHANGED <<current, first, shown>>
  BY <1>3 DEF DetailFetch, Stall, Poll, Hint, FetchFails, viewVars, vars
<1>4. ASSUME NEW to, Render(to)
      PROVE  Unmounted \/ \E n \in Holds : Place(n) /\ first' = n /\ shown' = Nothing
  BY <1>4 DEF Render, MountReserve, MountTrips
<1>5. ASSUME NEW to, Navigate(to) \/ IdentityAnswered \/ SilentRefresh
      PROVE  Unmounted \/ \E n \in Holds : Place(n) /\ first' = n /\ shown' = Nothing
  <2>1. PICK next : next = page'
    OBVIOUS
  <2>2. QED
    BY <1>4, <1>5, <2>1 DEF Navigate, IdentityAnswered, SilentRefresh
<1>6. CASE RetryHold
  <2>1. Mounted
    BY <1>6 DEF RetryHold, Panel
  <2>2. QED
    BY <1>6, <2>1 DEF RetryHold
<1>7. QED
  BY <1>1, <1>2, <1>3, <1>5, <1>6 DEF Next

\* A page that opens follows holds that are not posted yet.
LEMMA WatchedStep ==
    ASSUME ViewInv, OrderInv, [Next]_vars, NEW n \in Holds, Watched(n)'
    PROVE  Watched(n) \/ call[n].at = "unused"
<1>1. \A k \in Holds : k \in Nat
  BY HoldsAssumption
<1>2. CASE UNCHANGED <<current, first>>
  BY <1>2 DEF Watched
<1>3. ASSUME NEW k \in Holds, Place(k), first' = k
      PROVE  Watched(n) \/ call[n].at = "unused"
  BY <1>1, <1>3 DEF Place, OrderInv, Unused, Watched
<1>4. CASE Mounted /\ UNCHANGED first
  BY <1>4 DEF Watched, Mounted
<1>5. ~Unmounted
  BY DEF Unmounted, Watched
<1>6. QED
  BY <1>2, <1>3, <1>4, <1>5, ViewSteps DEF HoldAnswered

\* What was so of a hold stays behind it.
LEMMA AfterTransitive ==
    ASSUME NEW n, NEW a, NEW b \in After(a, n), NEW c \in After(b, n), a \in Status
    PROVE  c \in After(a, n) /\ b \in Status
BY DEF After, Status

LEMMA RowAfter ==
    ASSUME ServerTyped, RowInv, TripsInv, WatchedInv, [Next]_vars, NEW n \in Holds,
           row[n] \in Status
    PROVE  row'[n] \in After(row[n], n)
<1>1. RowMay(n)
  BY RowsStep
<1>2. cancelling[n] = "found" => ~Watched(n)
  BY DEF WatchedInv
<1>3. QED
  BY <1>1, <1>2 DEF RowMay, After, Status

\* A page that closes may only allow more.
LEMMA AfterLasts ==
    ASSUME NEW n, Watched(n)' => Watched(n), NEW s, NEW t \in After(s, n)
    PROVE  t \in After(s, n)'
BY DEF After

LEMMA WasSoLasts ==
    ASSUME ServerTyped, RowInv, TripsInv, WatchedInv, [Next]_vars, NEW n \in Holds, NEW s, WasSo(s, n),
           Watched(n)' => Watched(n)
    PROVE  WasSo(s, n)'
<1>1. RowMay(n)
  BY RowsStep
<1>2. money[n] = "taken" => money'[n] = "taken"
  BY <1>1 DEF RowMay
<1>3. CASE s # Nothing
  <2>1. row[n] \in Status
    BY <1>3 DEF WasSo, After, Status
  <2>2. row'[n] \in After(s, n)
    BY <1>3, <2>1, RowAfter, AfterTransitive DEF WasSo
  <2>3. row'[n] \in After(s, n)'
    BY <2>2, AfterLasts
  <2>4. QED
    BY <1>2, <1>3, <2>3 DEF WasSo
<1>4. QED
  BY <1>3 DEF WasSo

-----------------------------------------------------------------------------
(* What is cached of a hold.                                               *)

LEMMA CreatedLasts ==
    ASSUME ServerTyped, RowInv, TripsInv, [Next]_vars, NEW n \in Holds, Created(n)
    PROVE  Created(n)'
BY CallsStep DEF CallMay, Created

LEMMA FitsLasts ==
    ASSUME ServerTyped, RowInv, TripsInv, WatchedInv, ViewInv, OrderInv, [Next]_vars,
           NEW n \in Holds, NEW q \in Q!Query(Status), Fits(q, n)
    PROVE  Fits(q, n)'
<1>1. CASE Watched(n)' => Watched(n)
  <2>1. q.data # Nothing /\ q.seen # Nothing => q.seen \in After(q.data, n)'
    BY <1>1, AfterLasts DEF Fits
  <2>2. WasSo(q.data, n)' /\ WasSo(q.seen, n)'
    BY <1>1, WasSoLasts DEF Fits
  <2>3. QED
    BY <2>1, <2>2, CreatedLasts DEF Fits
<1>2. CASE ~(Watched(n)' => Watched(n))
  <2>1. ~Created(n)
    BY <1>2, WatchedStep DEF Created
  <2>2. q.data = Nothing /\ q.fetch = "none" /\ q.seen = Nothing
    BY <2>1 DEF Fits
  <2>3. QED
    BY <2>2 DEF Fits, WasSo
<1>3. QED
  BY <1>1, <1>2

LEMMA RowWasSo ==
    ASSUME ServerTyped, RowInv, NEW n \in Holds, row[n] # "none"
    PROVE  row[n] \in Status /\ WasSo(row[n], n)
BY DEF ServerTyped, Rows, RowInv, WasSo, After, Status

Refreshed(q, r, n) ==
    \/ q.data # Nothing /\ r \in {Q!Poll(q), Q!Invalidate(q)}
    \/ q.fetch = "asked" /\ r = Q!Read(q, row[n])
    \/ q.fetch = "read" /\ r = Q!Answer(q)
    \/ Q!Fetching(q) /\ r = Q!Fail(q)

LEMMA FitsRefreshed ==
    ASSUME ServerTyped, RowInv, NEW n \in Holds, NEW q \in Q!Query(Status), Fits(q, n),
           NEW r, Refreshed(q, r, n)
    PROVE  r \in Q!Query(Status) /\ Fits(r, n) /\ (q.data # Nothing => r.data # Nothing)
           /\ (q.data # Nothing => r.data \in After(q.data, n))
<1>1. q.data # Nothing => q.data \in Status /\ q.data \in After(q.data, n)
  BY DEF Fits, WasSo, After, Status
<1>2. CASE q.data # Nothing /\ r \in {Q!Poll(q), Q!Invalidate(q)}
  <2>1. r \in Q!Query(Status) /\ r.data = q.data
    BY <1>2, PollEffect, InvalidateEffect
  <2>2. (r.fetch = "asked" /\ r.seen = Nothing) \/ (r.fetch = q.fetch /\ r.seen = q.seen)
    BY <1>2, PollEffect, InvalidateEffect
  <2>3. Fits(r, n)
    BY <1>2, <2>1, <2>2 DEF Fits, WasSo
  <2>4. QED
    BY <1>1, <2>1, <2>3
<1>3. CASE q.fetch = "asked" /\ r = Q!Read(q, row[n])
  <2>1. Created(n)
    BY <1>3 DEF Fits
  <2>2. row[n] \in Status /\ WasSo(row[n], n)
    BY <2>1, RowWasSo DEF Created, RowInv
  <2>3. r \in Q!Query(Status) /\ r.fetch = "read" /\ r.data = q.data /\ r.seen = row[n]
    BY <1>3, <2>2, ReadEffect
  <2>4. row[n] # Nothing
    BY <2>2, NothingAssumption
  <2>5. Fits(r, n)
    BY <2>1, <2>2, <2>3, <2>4 DEF Fits, WasSo
  <2>6. QED
    BY <1>1, <2>3, <2>5
<1>4. CASE q.fetch = "read" /\ r = Q!Answer(q)
  <2>1. r \in Q!Query(Status) /\ r.fetch = "none" /\ r.data = q.seen /\ r.seen = Nothing
    BY <1>4, AnswerEffect
  <2>2. q.seen # Nothing /\ Created(n)
    BY <1>4 DEF Fits
  <2>3. Fits(r, n)
    BY <2>1, <2>2 DEF Fits, WasSo
  <2>4. QED
    BY <2>1, <2>2, <2>3 DEF Fits
<1>5. CASE Q!Fetching(q) /\ r = Q!Fail(q)
  <2>1. r \in Q!Query(Status) /\ r.fetch = "none" /\ r.data = q.data /\ r.seen = Nothing
    BY <1>5, FailEffect
  <2>2. Fits(r, n)
    BY <1>5, <2>1 DEF Fits, WasSo, Q!Fetching
  <2>3. QED
    BY <1>1, <2>1, <2>2
<1>6. QED
  BY <1>2, <1>3, <1>4, <1>5 DEF Refreshed

\* A step changes at most one of the cached reservations.
Refreshes(n) ==
    /\ UNCHANGED <<row, money, call>>
    /\ \E r : Refreshed(detail[n], r, n) /\ detail' = [detail EXCEPT ![n] = r]

LEMMA DetailSteps ==
    ASSUME ViewInv, [Next]_vars
    PROVE  \/ UNCHANGED detail
           \/ \E n \in Holds : Refreshes(n) /\ UNCHANGED <<current, first, shown>>
           \/ \E n \in Holds : HoldAnswered(n)
<1> DEFINE Goal == UNCHANGED detail \/ \E n \in Holds : Refreshes(n) /\ UNCHANGED <<current, first, shown>>
<1>1. ASSUME NEW n \in Holds, NEW r, Refreshed(detail[n], r, n), detail' = [detail EXCEPT ![n] = r],
             UNCHANGED <<serverVars, call, viewVars>>
      PROVE  Goal
  BY <1>1 DEF Refreshes, serverVars, viewVars
<1>2. CASE Poll
  <2>1. shown \in Holds /\ detail[shown].data # Nothing
    BY <1>2 DEF Poll, ViewInv
  <2>2. Refreshed(detail[shown], Q!Poll(detail[shown]), shown)
    BY <2>1 DEF Refreshed
  <2>3. QED
    BY <1>1, <1>2, <2>1, <2>2 DEF Poll
<1>3. CASE Hint
  <2>1. CASE UNCHANGED detail
    BY <2>1
  <2>2. CASE ~UNCHANGED detail
    <3>1. shown # Nothing /\ detail' = [detail EXCEPT ![shown] = Q!Invalidate(detail[shown])]
          /\ UNCHANGED <<serverVars, call, viewVars>>
      BY <1>3, <2>2 DEF Hint, Update
    <3>2. shown \in Holds /\ detail[shown].data # Nothing
      BY <3>1 DEF ViewInv
    <3>3. Refreshed(detail[shown], Q!Invalidate(detail[shown]), shown)
      BY <3>2 DEF Refreshed
    <3>4. QED
      BY <1>1, <3>1, <3>2, <3>3
  <2>3. QED
    BY <2>1, <2>2
<1>4. ASSUME NEW n \in Holds, DetailFetch(n)
      PROVE  Goal
  <2>1. CASE detail[n].fetch = "asked" /\ detail' = [detail EXCEPT ![n] = Q!Read(detail[n], row[n])]
    <3>1. Refreshed(detail[n], Q!Read(detail[n], row[n]), n)
      BY <2>1 DEF Refreshed
    <3>2. QED
      BY <1>1, <1>4, <2>1, <3>1 DEF DetailFetch
  <2>2. CASE detail[n].fetch = "read" /\ detail' = [detail EXCEPT ![n] = Q!Answer(detail[n])]
    <3>1. Refreshed(detail[n], Q!Answer(detail[n]), n)
      BY <2>2 DEF Refreshed
    <3>2. QED
      BY <1>1, <1>4, <2>2, <3>1 DEF DetailFetch
  <2>3. QED
    BY <1>4, <2>1, <2>2 DEF DetailFetch
<1>5. CASE FetchFails
  <2>1. CASE UNCHANGED detail
    BY <2>1
  <2>2. CASE ~UNCHANGED detail
    <3>1. PICK n \in Holds : /\ Q!Fetching(detail[n])
                             /\ detail' = [detail EXCEPT ![n] = Q!Fail(detail[n])]
      BY <1>5, <2>2 DEF FetchFails
    <3>2. Refreshed(detail[n], Q!Fail(detail[n]), n)
      BY <3>1 DEF Refreshed
    <3>3. QED
      BY <1>1, <1>5, <3>1, <3>2 DEF FetchFails
  <2>3. QED
    BY <2>1, <2>2
<1>6. ASSUME NEW n, ServeHold(n) \/ Decide(n) \/ Charge(n) \/ Complete(n) \/ ServeCancel(n)
                    \/ RivalTakes
      PROVE  UNCHANGED detail
  BY <1>6 DEF ServeHold, Decide, Charge, Complete, ServeCancel, CancelRead, CancelUpdate,
              CancelEnds, CancelFails, RivalTakes, ServerStep
<1>7. ASSUME NEW n, CancelTrip(n) \/ CancelAnswered(n) \/ CancelRefused(n) \/ TripsPoll \/ TripsFetch
      PROVE  UNCHANGED detail
  BY <1>7 DEF CancelTrip, CancelAnswered, CancelRefused, TripsPoll, TripsFetch, TripsStep
<1>8. ASSUME NEW to, Navigate(to) \/ IdentityAnswered \/ SilentRefresh \/ RetryHold \/ Stall
                     \/ UNCHANGED vars
      PROVE  UNCHANGED detail
  BY <1>8 DEF Navigate, IdentityAnswered, SilentRefresh, RetryHold, Stall, vars
<1>9. QED
  BY <1>2, <1>3, <1>4, <1>5, <1>6, <1>7, <1>8 DEF Next

LEMMA RefreshesEffect ==
    ASSUME ServerTyped, RowInv, QueriesTyped, DetailInv, NEW n \in Holds, Refreshes(n)
    PROVE  /\ detail' \in [Holds -> Q!Query(Status)]
           /\ Fits(detail'[n], n) /\ \A k \in Holds : k # n => detail'[k] = detail[k]
           /\ detail[n].data # Nothing => detail'[n].data # Nothing
           /\ detail[n].data # Nothing => detail'[n].data \in After(detail[n].data, n)
<1>1. PICK q \in Q!Query(Status) : q = detail[n]
  BY DEF QueriesTyped
<1>2. PICK r : Refreshed(q, r, n) /\ detail' = [detail EXCEPT ![n] = r]
  BY <1>1 DEF Refreshes
<1>3. Fits(q, n)
  BY <1>1 DEF DetailInv
<1>4. r \in Q!Query(Status) /\ Fits(r, n) /\ (q.data # Nothing => r.data # Nothing)
      /\ (q.data # Nothing => r.data \in After(q.data, n))
  BY <1>2, <1>3, FitsRefreshed
<1>5. detail'[n] = r /\ detail' \in [Holds -> Q!Query(Status)]
      /\ \A k \in Holds : k # n => detail'[k] = detail[k]
  BY <1>2, <1>4 DEF QueriesTyped
<1>6. QED
  BY <1>1, <1>4, <1>5

\* The answer of a POST is the first that is known of its reservation.
LEMMA AnsweredEffect ==
    ASSUME ServerTyped, RowInv, QueriesTyped, DetailInv, NEW n \in Holds, HoldAnswered(n)
    PROVE  /\ detail' \in [Holds -> Q!Query(Status)]
           /\ \A k \in Holds : k # n => detail'[k] = detail[k]
           /\ detail[n].data = Nothing /\ detail[n].seen = Nothing /\ detail[n].fetch = "none"
           /\ \/ call[n].result # "created" /\ detail'[n] = detail[n]
              \/ /\ call[n].result = "created" /\ detail'[n].data = "HELD"
                 /\ detail'[n].seen = Nothing /\ detail'[n].fetch = "none"
<1>1. PICK q \in Q!Query(Status) : q = detail[n]
  BY DEF QueriesTyped
<1>2. ~Created(n)
  BY DEF HoldAnswered, Created
<1>3. q.data = Nothing /\ q.fetch = "none" /\ q.seen = Nothing
  BY <1>1, <1>2 DEF DetailInv, Fits
<1>4. CASE call[n].result # "created"
  BY <1>1, <1>3, <1>4 DEF HoldAnswered, QueriesTyped
<1>5. CASE call[n].result = "created"
  <2>1. PICK r : r = Q!Put(q, "HELD")
    OBVIOUS
  <2>2. "HELD" \in Status
    BY DEF Status
  <2>3. r \in Q!Query(Status) /\ r.fetch = q.fetch /\ r.data = "HELD" /\ r.seen = q.seen
    BY <2>1, <2>2, PutEffect
  <2>4. detail' = [detail EXCEPT ![n] = r]
    BY <1>1, <1>5, <2>1, Zenon DEF HoldAnswered
  <2>5. QED
    BY <1>1, <1>3, <1>5, <2>3, <2>4 DEF QueriesTyped
<1>6. QED
  BY <1>4, <1>5

LEMMA FitsNow ==
    ASSUME NEW n \in Holds, NEW r, detail'[n] = r, Fits(r, n)'
    PROVE  Fits(detail[n], n)'
BY DEF Fits, WasSo, Created

LEMMA DetailStep ==
    ASSUME ServerTyped, RowInv, TripsInv, WatchedInv, QueriesTyped, DetailInv, ViewInv, OrderInv,
           [Next]_vars
    PROVE  detail' \in [Holds -> Q!Query(Status)] /\ DetailInv'
<1>1. ASSUME NEW n \in Holds, detail'[n] = detail[n]
      PROVE  Fits(detail[n], n)'
  <2>1. PICK q \in Q!Query(Status) : q = detail[n]
    BY DEF QueriesTyped
  <2>2. Fits(q, n)'
    BY <2>1, FitsLasts DEF DetailInv
  <2>3. QED
    BY <1>1, <2>1, <2>2, FitsNow
<1>2. CASE UNCHANGED detail
  BY <1>1, <1>2 DEF QueriesTyped, DetailInv
<1>3. ASSUME NEW n \in Holds, Refreshes(n)
      PROVE  detail' \in [Holds -> Q!Query(Status)] /\ DetailInv'
  <2>1. PICK r \in Q!Query(Status) : r = detail'[n]
    BY <1>3, RefreshesEffect
  <2>2. Fits(r, n)
    BY <1>3, <2>1, RefreshesEffect
  <2>3. Fits(r, n)'
    BY <2>2, FitsLasts
  <2>4. Fits(detail[n], n)'
    BY <2>1, <2>3, FitsNow
  <2>5. QED
    BY <1>1, <1>3, <2>4, RefreshesEffect DEF DetailInv
<1>4. ASSUME NEW n \in Holds, HoldAnswered(n)
      PROVE  detail' \in [Holds -> Q!Query(Status)] /\ DetailInv'
  <2>1. CASE call[n].result # "created"
    BY <1>1, <1>4, <2>1, AnsweredEffect DEF DetailInv
  <2>2. CASE call[n].result = "created"
    <3>1. Answers(n)
      BY <1>4 DEF HoldAnswered, Answers, serverVars
    <3>2. call'[n].at = "answered" /\ call'[n].result = "created" /\ row'[n] = row[n]
      BY <2>2, <3>1, AnswersEffect DEF Answers
    <3>3. row'[n] \in Status
      BY <2>2, <3>2, RowWasSo DEF RowInv
    <3>4. detail'[n].data = "HELD" /\ detail'[n].seen = Nothing /\ detail'[n].fetch = "none"
      BY <1>4, <2>2, AnsweredEffect
    <3>5. PICK r : r = detail'[n]
      OBVIOUS
    <3>6. Fits(r, n)'
      BY <3>2, <3>3, <3>4, <3>5 DEF Fits, WasSo, After, Status, Created
    <3>7. Fits(detail[n], n)'
      BY <3>5, <3>6, FitsNow
    <3>8. QED
      BY <1>1, <1>4, <3>7, AnsweredEffect DEF DetailInv
  <2>3. QED
    BY <2>1, <2>2
<1>5. QED
  BY <1>2, <1>3, <1>4, DetailSteps

\* Data that is there stays, and is followed by later statuses only.
LEMMA DataLasts ==
    ASSUME ServerTyped, RowInv, TripsInv, WatchedInv, QueriesTyped, DetailInv, ViewInv, [Next]_vars,
           NEW n \in Holds, detail[n].data # Nothing
    PROVE  detail'[n].data # Nothing /\ detail'[n].data \in After(detail[n].data, n)
<1>1. detail[n].data \in Status /\ detail[n].data \in After(detail[n].data, n)
  BY DEF DetailInv, Fits, WasSo, After, Status
<1>2. ASSUME NEW k \in Holds, Refreshes(k)
      PROVE  detail'[n].data # Nothing /\ detail'[n].data \in After(detail[n].data, n)
  BY <1>1, <1>2, RefreshesEffect
<1>3. ASSUME NEW k \in Holds, HoldAnswered(k)
      PROVE  detail'[n] = detail[n]
  BY <1>3, AnsweredEffect
<1>4. QED
  BY <1>1, <1>2, <1>3, DetailSteps

-----------------------------------------------------------------------------
(* What the page observes.                                                 *)

LEMMA OrderStep ==
    ASSUME ServerTyped, RowInv, TripsInv, OrderInv, [Next]_vars
    PROVE  OrderInv'
<1>1. ASSUME NEW n \in Holds, Posts(n)
      PROVE  OrderInv'
  <2>1. n \in Unused /\ Unused' = Unused \ {n} /\ \A u \in Unused : n <= u
    BY <1>1, PostsEffect DEF Posts, Place, Unused
  <2>2. \A u \in Unused \ {n} : n < u
    BY <2>1, HoldsAssumption DEF Unused
  <2>3. QED
    BY <2>1, <2>2 DEF OrderInv
<1>2. ASSUME NEW n \in Holds, Answers(n)
      PROVE  Unused' = Unused
  BY <1>2, AnswersEffect DEF Answers, Unused
<1>3. ASSUME NEW n \in Holds, NEW result \in {"created", "taken", "own", "failed"}, Serves(n, result)
      PROVE  Unused' = Unused
  BY <1>3, ServesEffect DEF Serves, Unused
<1>4. CASE UNCHANGED call
  BY <1>4 DEF Unused, OrderInv
<1>5. QED
  BY <1>1, <1>2, <1>3, <1>4, CallSteps DEF OrderInv

LEMMA ViewStep ==
    ASSUME ServerTyped, RowInv, TripsInv, WatchedInv, QueriesTyped, DetailInv, ViewInv, OrderInv,
           [Next]_vars
    PROVE  ViewInv'
<1>1. \A n \in Holds : call[n].at # "unused" => call'[n].at # "unused"
  BY CallsStep DEF CallMay
<1>2. \A n \in Holds : n \in Nat
  BY HoldsAssumption
<1>3. ASSUME UNCHANGED <<current, first, shown>>
      PROVE  ViewInv'
  <2>1. shown # Nothing => shown \in Holds /\ Created(shown) /\ detail[shown].data # Nothing
    BY DEF ViewInv
  <2>2. ASSUME NEW n \in Holds, Created(n), detail[n].data # Nothing
        PROVE  Created(n)' /\ detail'[n].data # Nothing
    BY <2>2, CreatedLasts, DataLasts
  <2>3. QED
    BY <1>1, <1>3, <2>1, <2>2 DEF ViewInv, Created
<1>4. ASSUME NEW n \in Holds, HoldAnswered(n)
      PROVE  ViewInv'
  <2>1. CASE shown' = shown
    BY <1>3, <1>4, <2>1 DEF HoldAnswered
  <2>2. CASE shown' # shown
    <3>1. call[n].result = "created" /\ Sent(n) /\ shown' = n /\ UNCHANGED <<current, first>>
      BY <1>4, <2>2 DEF HoldAnswered
    <3>2. Answers(n)
      BY <1>4 DEF HoldAnswered, Answers, serverVars
    <3>3. Created(n)'
      BY <3>1, <3>2, AnswersEffect DEF Created
    <3>4. detail'[n].data # Nothing
      BY <1>4, <3>1, AnsweredEffect, NothingAssumption DEF Status
    <3>5. QED
      BY <1>1, <3>1, <3>3, <3>4 DEF ViewInv, Created, Sent, Mounted
  <2>3. QED
    BY <2>1, <2>2
<1>5. CASE Unmounted
  BY <1>5 DEF Unmounted, ViewInv
<1>6. ASSUME NEW n \in Holds, Place(n), first' = n, shown' = Nothing
      PROVE  ViewInv'
  <2>1. current' = n /\ call'[n].at = "sent" /\ n <= n /\ n # Nothing
    BY <1>2, <1>6, PostsEffect, NothingAssumption
  <2>2. QED
    BY <1>6, <2>1 DEF ViewInv
<1>7. ASSUME NEW n \in Holds, Mounted, Place(n), UNCHANGED <<first, shown>>
      PROVE  ViewInv'
  <2>1. current' = n /\ call'[n].at = "sent" /\ n # Nothing /\ call[n].at = "unused"
    BY <1>2, <1>7, PostsEffect, NothingAssumption
  <2>2. {first, current} \subseteq Holds /\ first <= current /\ call[current].at # "unused"
    BY <1>7 DEF ViewInv, Mounted
  <2>3. current < n
    BY <2>1, <2>2 DEF OrderInv, Unused
  <2>4. first <= n /\ first .. current \subseteq first .. n
    BY <1>2, <2>2, <2>3
  <2>5. shown # Nothing => /\ shown \in Holds /\ Created(shown) /\ shown \in first .. n
                           /\ detail[shown].data # Nothing
    BY <2>4 DEF ViewInv
  <2>6. shown # Nothing => Created(shown)' /\ detail'[shown].data # Nothing
    <3>1. ASSUME NEW k \in Holds, Created(k), detail[k].data # Nothing
          PROVE  Created(k)' /\ detail'[k].data # Nothing
      BY <3>1, CreatedLasts, DataLasts
    <3>2. QED
      BY <1>7, <2>5, <3>1 DEF Created
  <2>7. QED
    BY <1>7, <2>1, <2>2, <2>4, <2>5, <2>6 DEF ViewInv, Created
<1>8. QED
  BY <1>3, <1>4, <1>5, <1>6, <1>7, ViewSteps

-----------------------------------------------------------------------------
(* The list of trips.                                                      *)

\* Who changes the list: a cancel that was answered, and what refreshes it.
TripsRefreshed ==
    \/ trips' \in Q!Mounts(trips) \cup {Q!Invalidate(trips), trips}
    \/ trips.fetch = "asked" /\ trips' = Q!Read(trips, row)
    \/ trips.fetch = "read" /\ trips' = Q!Answer(trips)
    \/ trips' = Q!Fail(trips)

LEMMA TripsSteps ==
    ASSUME [Next]_vars
    PROVE  \/ \E n \in Holds : CancelAnswered(n)
           \/ TripsRefreshed /\ UNCHANGED <<cancelling, cancelled>>
           \/ /\ UNCHANGED <<trips, cancelled>>
              /\ \E n \in Holds : ServeCancel(n) \/ CancelTrip(n) \/ CancelRefused(n)
<1> DEFINE Goal == TripsRefreshed /\ UNCHANGED <<cancelling, cancelled>>
<1>1. ASSUME NEW n, ServeHold(n) \/ Decide(n) \/ Charge(n) \/ Complete(n) \/ RivalTakes
      PROVE  Goal
  BY <1>1 DEF ServeHold, Decide, Charge, Complete, RivalTakes, ServerStep, TripsRefreshed
<1>2. ASSUME NEW n, HoldAnswered(n) \/ DetailFetch(n) \/ Stall \/ Poll \/ RetryHold \/ SilentRefresh
                    \/ UNCHANGED vars
      PROVE  Goal
  BY <1>2 DEF HoldAnswered, DetailFetch, Stall, Poll, RetryHold, SilentRefresh, tripVars, vars,
              TripsRefreshed
<1>3. ASSUME NEW to, Render(to), UNCHANGED <<cancelling, cancelled>>
      PROVE  Goal
  BY <1>3 DEF Render, MountReserve, MountTrips, TripsRefreshed
<1>4. ASSUME NEW to, Navigate(to) \/ IdentityAnswered
      PROVE  Goal
  <2>1. PICK next : next = page'
    OBVIOUS
  <2>2. QED
    BY <1>3, <1>4, <2>1 DEF Navigate, IdentityAnswered
<1>5. CASE TripsPoll
  BY <1>5 DEF TripsPoll, Q!Mounts, TripsRefreshed
<1>6. CASE Hint
  BY <1>6 DEF Hint, Update, TripsRefreshed
<1>7. CASE TripsFetch
  BY <1>7 DEF TripsFetch, TripsRefreshed
<1>8. CASE FetchFails
  BY <1>8 DEF FetchFails, TripsRefreshed
<1>9. ASSUME NEW n \in Holds, ServeCancel(n) \/ CancelTrip(n) \/ CancelRefused(n)
      PROVE  UNCHANGED <<trips, cancelled>>
  BY <1>9 DEF ServeCancel, CancelRead, CancelUpdate, CancelEnds, CancelFails, CancelTrip,
              CancelRefused, ServerStep
<1>10. QED
  BY <1>1, <1>2, <1>4, <1>5, <1>6, <1>7, <1>8, <1>9 DEF Next

LEMMA WatchedInvStep ==
    ASSUME ServerTyped, RowInv, PageTyped, ViewInv, OrderInv, TripsInv, WatchedInv, [Next]_vars
    PROVE  WatchedInv'
<1> SUFFICES ASSUME NEW n \in Holds, Watched(n)', cancelling'[n] # "no"
             PROVE  FALSE
  BY DEF WatchedInv
<1>1. cancelling[n] = "no"
  BY WatchedStep DEF WatchedInv, TripsInv, RowInv
<1>2. CancelTrip(n)
  <2>1. ASSUME NEW k \in Holds, ServeCancel(k) \/ CancelTrip(k) \/ CancelRefused(k) \/ CancelAnswered(k)
        PROVE  CancelTrip(n)
    BY <1>1, <2>1 DEF ServeCancel, CancelRead, CancelUpdate, CancelEnds, CancelFails, CancelTrip,
                      CancelRefused, CancelAnswered, ServerTyped
  <2>2. QED
    BY <1>1, <2>1, TripsSteps
<1>3. current' = current /\ current = Nothing
  BY <1>2 DEF CancelTrip, TripsShown, TripsInUse, TripsStep, viewVars, PageTyped
<1>4. QED
  BY <1>3 DEF Watched

LEMMA CancelledLasts ==
    ASSUME ServerTyped, RowInv, TripsInv, [Next]_vars, NEW n \in Holds, row[n] = "CANCELLED"
    PROVE  row'[n] = "CANCELLED"
BY RowsStep DEF RowMay

\* What the refreshed list brings; once loaded it stays so.
LEMMA TripsEffect ==
    ASSUME ServerTyped, TripsInv, trips \in Q!Query(Rows), cancelled \subseteq Holds, TripsRefreshed
    PROVE  /\ trips' \in Q!Query(Rows)
           /\ Q!Loaded(trips) => Q!Loaded(trips)'
           /\ trips'.fetch = "read" => /\ trips'.seen \in Rows
                                       /\ ~Standing(trips'.seen) /\ Listed(trips'.seen)
           /\ Q!Loaded(trips)' => Listed(trips'.data)
           /\ trips'.fetch = "none" => trips'.failed \/ trips'.data = Nothing \/ ~Standing(trips'.data)
<1>0. Q!Loaded(trips) => Listed(trips.data)
  BY DEF TripsInv
<1>1. CASE trips' = trips
  BY <1>1 DEF TripsInv, Q!Loaded
<1>2. CASE trips' \in Q!Mounts(trips) /\ trips' # trips
  BY <1>0, <1>2, MountsEffect DEF Q!Loaded
<1>3. CASE trips' = Q!Invalidate(trips)
  BY <1>3, InvalidateEffect DEF TripsInv, Q!Loaded, Q!Fetching
<1>4. CASE trips.fetch = "asked" /\ trips' = Q!Read(trips, row)
  <2>1. row \in Rows
    BY DEF ServerTyped
  <2>2. ~Standing(row) /\ Listed(row)
    BY <2>1 DEF Standing, Listed, TripsInv, IsCancelled
  <2>3. QED
    BY <1>0, <1>4, <2>1, <2>2, ReadEffect DEF Q!Loaded
<1>5. CASE trips.fetch = "read" /\ trips' = Q!Answer(trips)
  BY <1>5, AnswerEffect, NothingAssumption DEF TripsInv, Q!Loaded
<1>6. CASE trips' = Q!Fail(trips)
  BY <1>0, <1>6, FailEffect DEF Q!Loaded
<1>7. QED
  BY <1>1, <1>2, <1>3, <1>4, <1>5, <1>6 DEF TripsRefreshed

LEMMA TripsStepInv ==
    ASSUME ServerTyped, RowInv, TripsInv, trips \in Q!Query(Rows), cancelled \subseteq Holds,
           [Next]_vars
    PROVE  /\ trips' \in Q!Query(Rows) /\ cancelled' \subseteq Holds
           /\ cancelling' \in [Holds -> Cancelling] /\ TripsInv'
<1>1. \A n \in Holds : /\ row[n] = "CANCELLED" => row'[n] = "CANCELLED"
                       /\ row[n] # "none" => row'[n] # "none"
  BY CancelledLasts, RowsStep DEF RowMay
<1>2. \A d : Listed(d) => Listed(d)'
  BY <1>1 DEF Listed
<1>3. ASSUME NEW n \in Holds, CancelAnswered(n)
      PROVE  /\ trips' \in Q!Query(Rows) /\ cancelled' \subseteq Holds
             /\ cancelling' \in [Holds -> Cancelling] /\ TripsInv'
  <2>1. /\ cancelling[n] = "done" /\ cancelling' = [cancelling EXCEPT ![n] = "no"]
        /\ cancelled' = IF TripsInUse THEN cancelled \cup {n} ELSE cancelled
        /\ trips' = IF TripsInUse THEN Q!Invalidate(trips) ELSE Q!Mark(trips)
    BY <1>3 DEF CancelAnswered
  <2>2. Q!Loaded(trips) /\ row[n] = "CANCELLED" /\ Listed(trips.data)
    BY <2>1 DEF TripsInv, IsCancelled
  <2>3. /\ cancelled' \subseteq Holds
        /\ cancelling' \in [Holds -> Cancelling]
        /\ \A k \in Holds : cancelling'[k] = cancelling[k] \/ cancelling'[k] = "no"
    BY <2>1 DEF ServerTyped, Cancelling
  <2>4. \A k \in Holds : IsCancelled(k)' => row'[k] = "CANCELLED"
    BY <1>1, <2>1, <2>2, <2>3 DEF TripsInv, IsCancelled
  <2>5. \A k \in Holds : cancelling'[k] # "no" => row'[k] # "none"
    BY <1>1, <2>3 DEF TripsInv
  <2>6. CASE TripsInUse
    <3>1. trips' \in Q!Query(Rows) /\ trips'.data = trips.data /\ trips'.fetch = "asked"
      BY <2>1, <2>2, <2>6, InvalidateEffect
    <3>2. QED
      BY <1>2, <2>2, <2>3, <2>4, <2>5, <3>1 DEF TripsInv, Q!Loaded
  <2>7. CASE ~TripsInUse
    <3>1. /\ trips' \in Q!Query(Rows) /\ trips'.data = trips.data /\ trips'.fetch = trips.fetch
          /\ trips'.seen = trips.seen /\ trips'.failed = trips.failed
      BY <2>1, <2>7, MarkEffect
    <3>2. cancelled' = cancelled
      BY <2>1, <2>7
    <3>3. QED
      BY <1>2, <2>2, <2>3, <2>4, <2>5, <3>1, <3>2 DEF TripsInv, Q!Loaded, Standing
  <2>8. QED
    BY <2>6, <2>7
<1>4. CASE TripsRefreshed /\ UNCHANGED <<cancelling, cancelled>>
  <2>1. \A k \in Holds : /\ IsCancelled(k)' => row'[k] = "CANCELLED"
                         /\ cancelling'[k] # "no" => row'[k] # "none"
    BY <1>1, <1>4 DEF TripsInv, IsCancelled
  <2>2. \A d : Standing(d)' <=> Standing(d)
    BY <1>4 DEF Standing
  <2>3. /\ trips' \in Q!Query(Rows)
        /\ Q!Loaded(trips) => Q!Loaded(trips)'
        /\ trips'.fetch = "read" => /\ trips'.seen \in Rows
                                    /\ ~Standing(trips'.seen) /\ Listed(trips'.seen)
        /\ Q!Loaded(trips)' => Listed(trips'.data)
        /\ trips'.fetch = "none" => trips'.failed \/ trips'.data = Nothing \/ ~Standing(trips'.data)
    BY <1>4, TripsEffect
  <2>4. \A k \in Holds : cancelling'[k] # "no" => Q!Loaded(trips)'
    BY <1>4, <2>3 DEF TripsInv
  <2>5. TripsInv'
    BY <1>2, <2>1, <2>2, <2>3, <2>4 DEF TripsInv, Q!Loaded
  <2>6. QED
    BY <1>4, <2>3, <2>5 DEF ServerTyped
<1>5. ASSUME NEW n \in Holds, UNCHANGED <<trips, cancelled>>,
             ServeCancel(n) \/ CancelTrip(n) \/ CancelRefused(n)
      PROVE  /\ trips' \in Q!Query(Rows) /\ cancelled' \subseteq Holds
             /\ cancelling' \in [Holds -> Cancelling] /\ TripsInv'
  <2>1. PICK to \in Cancelling :
          /\ cancelling' = [cancelling EXCEPT ![n] = to]
          /\ to \in {"updated", "done"} => row'[n] = "CANCELLED"
          /\ to # "no" => Q!Loaded(trips) /\ row[n] # "none"
    <3>1. CASE ServeCancel(n)
      <4>1. CASE CancelRead(n)
        BY <4>1 DEF CancelRead, ServerTyped, Rows, TripsInv, Cancelling
      <4>2. CASE CancelUpdate(n)
        BY <4>2 DEF CancelUpdate, ServerTyped, Rows, TripsInv, Cancelling
      <4>3. CASE CancelEnds(n)
        BY <4>3 DEF CancelEnds, ServerTyped, Rows, TripsInv, IsCancelled, Cancelling
      <4>4. CASE CancelFails(n)
        BY <4>4 DEF CancelFails, TripsInv, Cancelling
      <4>5. QED
        BY <3>1, <4>1, <4>2, <4>3, <4>4 DEF ServeCancel
    <3>2. CASE CancelTrip(n)
      BY <3>2 DEF CancelTrip, TripsShown, TripsInv, Listed, Cancelling
    <3>3. CASE CancelRefused(n)
      BY <3>3 DEF CancelRefused, Cancelling
    <3>4. QED
      BY <1>5, <3>1, <3>2, <3>3
  <2>2. cancelling' \in [Holds -> Cancelling]
    BY <2>1 DEF ServerTyped
  <2>3. \A k \in Holds : IsCancelled(k)' => row'[k] = "CANCELLED"
    BY <1>1, <1>5, <2>1 DEF TripsInv, IsCancelled, ServerTyped
  <2>4. \A k \in Holds : cancelling'[k] # "no" => Q!Loaded(trips) /\ row'[k] # "none"
    BY <1>1, <2>1 DEF TripsInv, ServerTyped
  <2>5. QED
    BY <1>2, <1>5, <2>2, <2>3, <2>4 DEF TripsInv, Standing, Q!Loaded
<1>6. QED
  BY <1>3, <1>4, <1>5, TripsSteps

-----------------------------------------------------------------------------
(* The types of the rest.                                                  *)

LEMMA RivalStep ==
    ASSUME rival \in BOOLEAN, [Next]_vars
    PROVE  rival' \in BOOLEAN
<1>1. ASSUME NEW n, ServeHold(n) \/ Decide(n) \/ Charge(n) \/ Complete(n) \/ ServeCancel(n)
                    \/ RivalTakes
      PROVE  rival' \in BOOLEAN
  BY <1>1 DEF ServeHold, Decide, Charge, Complete, ServeCancel, CancelRead, CancelUpdate,
              CancelEnds, CancelFails, RivalTakes
<1>2. ASSUME NEW n, CancelTrip(n) \/ CancelAnswered(n) \/ CancelRefused(n) \/ TripsPoll \/ TripsFetch
                    \/ HoldAnswered(n) \/ DetailFetch(n)
      PROVE  rival' \in BOOLEAN
  BY <1>2 DEF CancelTrip, CancelAnswered, CancelRefused, TripsPoll, TripsFetch, TripsStep, HoldAnswered,
              DetailFetch, serverVars
<1>3. ASSUME NEW to, Navigate(to) \/ IdentityAnswered \/ SilentRefresh \/ RetryHold \/ Stall \/ Poll
                     \/ Hint \/ FetchFails \/ UNCHANGED vars
      PROVE  rival' \in BOOLEAN
  BY <1>3 DEF Navigate, IdentityAnswered, SilentRefresh, RetryHold, Stall, Poll, Hint, FetchFails, vars,
              serverVars
<1>4. QED
  BY <1>1, <1>2, <1>3 DEF Next

LEMMA PageStep ==
    ASSUME PageTyped, TimerTyped, [Next]_vars
    PROVE  PageTyped' /\ TimerTyped'
<1>1. ASSUME UNCHANGED <<page, identity, viewVars>>
      PROVE  PageTyped' /\ TimerTyped'
  BY <1>1 DEF PageTyped, TimerTyped, viewVars
<1>2. ASSUME NEW n, ServeHold(n) \/ Decide(n) \/ Charge(n) \/ Complete(n) \/ ServeCancel(n)
                    \/ RivalTakes
      PROVE  UNCHANGED <<page, identity, viewVars>>
  BY <1>2 DEF ServeHold, Decide, Charge, Complete, ServeCancel, CancelRead, CancelUpdate,
              CancelEnds, CancelFails, RivalTakes, ServerStep
<1>3. ASSUME NEW n, CancelTrip(n) \/ CancelAnswered(n) \/ CancelRefused(n) \/ TripsPoll \/ TripsFetch
      PROVE  UNCHANGED <<page, identity, viewVars>>
  BY <1>3 DEF CancelTrip, CancelAnswered, CancelRefused, TripsPoll, TripsFetch, TripsStep
<1>4. ASSUME NEW n, DetailFetch(n) \/ Poll \/ Hint \/ FetchFails \/ UNCHANGED vars
      PROVE  UNCHANGED <<page, identity, viewVars>>
  BY <1>4 DEF DetailFetch, Poll, Hint, FetchFails, vars
<1>5. ASSUME NEW n, HoldAnswered(n)
      PROVE  PageTyped' /\ TimerTyped'
  <2>1. UNCHANGED <<page, identity, current, stalled>>
    BY <1>5 DEF HoldAnswered
  <2>2. \E b \in BOOLEAN : timer' = b
    BY <1>5, Zenon DEF HoldAnswered
  <2>3. QED
    BY <2>1, <2>2 DEF PageTyped, TimerTyped
<1>6. CASE Stall
  BY <1>6 DEF Stall, PageTyped, TimerTyped
<1>7. CASE RetryHold
  BY <1>7 DEF RetryHold, Panel, Mounted, PageTyped, TimerTyped
<1>8. ASSUME NEW to, Render(to), page' = to, identity' = "known",
             to \in {"elsewhere", "reserve", "trips"}
      PROVE  PageTyped' /\ TimerTyped'
  BY <1>8 DEF Render, MountReserve, MountTrips, Unmounted, PageTyped, TimerTyped
<1>9. ASSUME NEW to \in {"elsewhere", "reserve", "trips"}, Navigate(to)
      PROVE  PageTyped' /\ TimerTyped'
  BY <1>8, <1>9 DEF Navigate
<1>10. CASE IdentityAnswered
  <2>1. PICK to : to = page'
    OBVIOUS
  <2>2. QED
    BY <1>8, <1>10, <2>1 DEF IdentityAnswered, PageTyped
<1>11. CASE SilentRefresh
  BY <1>11 DEF SilentRefresh, Unmounted, PageTyped, TimerTyped
<1>12. QED
  BY <1>1, <1>2, <1>3, <1>4, <1>5, <1>6, <1>7, <1>9, <1>10, <1>11 DEF Next

LEMMA OneMore ==
    ASSUME NEW max \in Nat, NEW n \in 0 .. max, n < max
    PROVE  n + 1 \in 0 .. max
OBVIOUS

LEMMA BoundsStep ==
    ASSUME BoundsTyped, [Next]_vars
    PROVE  BoundsTyped'
<1>0. MaxTroubles \in Nat /\ MaxVisits \in Nat
  BY BoundsAssumption
<1>1. ASSUME UNCHANGED bounds
      PROVE  BoundsTyped'
  BY <1>1 DEF BoundsTyped, bounds
<1>2. ASSUME Trouble
      PROVE  BoundsTyped'
  BY <1>0, <1>2, OneMore DEF Trouble, BoundsTyped
<1>3. ASSUME NEW n, ServeHold(n) \/ Decide(n) \/ Charge(n) \/ Complete(n) \/ ServeCancel(n)
                    \/ RivalTakes
      PROVE  UNCHANGED bounds
  BY <1>3 DEF ServeHold, Decide, Charge, Complete, ServeCancel, CancelRead, CancelUpdate,
              CancelEnds, CancelFails, RivalTakes, ServerStep
<1>4. ASSUME NEW n, CancelTrip(n) \/ CancelAnswered(n) \/ CancelRefused(n) \/ TripsPoll \/ TripsFetch
      PROVE  UNCHANGED bounds
  BY <1>4 DEF CancelTrip, CancelAnswered, CancelRefused, TripsPoll, TripsFetch, TripsStep
<1>5. ASSUME NEW n, HoldAnswered(n) \/ DetailFetch(n) \/ Poll \/ Stall \/ IdentityAnswered
                    \/ UNCHANGED vars
      PROVE  UNCHANGED bounds
  BY <1>5 DEF HoldAnswered, DetailFetch, Poll, Stall, IdentityAnswered, vars
<1>6. CASE RetryHold \/ Hint \/ FetchFails \/ SilentRefresh
  BY <1>2, <1>6 DEF RetryHold, Hint, FetchFails, SilentRefresh
<1>7. ASSUME NEW to, Navigate(to)
      PROVE  BoundsTyped'
  BY <1>0, <1>7, OneMore DEF Navigate, BoundsTyped
<1>8. QED
  BY <1>1, <1>3, <1>4, <1>5, <1>6, <1>7 DEF Next

-----------------------------------------------------------------------------
(* The inductive invariant, and what follows.                              *)

CheckoutInv ==
    /\ ServerTyped /\ PageTyped /\ TimerTyped /\ BoundsTyped /\ QueriesTyped
    /\ RowInv /\ WatchedInv /\ DetailInv /\ ViewInv /\ OrderInv /\ TripsInv

LEMMA InvInit ==
    ASSUME Init
    PROVE  CheckoutInv
<1>1. \A n \in Holds : call[n].at = "unused" /\ call[n].result = "none"
  BY DEF Init
<1>2. ServerTyped
  BY DEF Init, ServerTyped, Rows, Money, Cancelling, Call
<1>3. PageTyped /\ TimerTyped
  BY DEF Init, PageTyped, TimerTyped
<1>4. BoundsTyped
  BY BoundsAssumption DEF Init, BoundsTyped
<1>5. /\ Q!Empty \in Q!Query(Status) /\ Q!Empty \in Q!Query(Rows) /\ Q!Empty.fetch = "none"
      /\ Q!Empty.data = Nothing /\ Q!Empty.seen = Nothing
  BY DEF Q!Empty, Q!Query
<1>6. QueriesTyped
  BY <1>5 DEF Init, QueriesTyped
<1>7. RowInv
  BY <1>1 DEF Init, RowInv
<1>8. DetailInv
  <2>1. \A n \in Holds : detail[n] = Q!Empty
    BY DEF Init
  <2>2. QED
    BY <1>5, <2>1 DEF DetailInv, Fits, WasSo
<1>9. ViewInv
  BY DEF Init, ViewInv
<1>10. OrderInv
  BY <1>1 DEF OrderInv, Unused
<1>11. TripsInv
  BY <1>5 DEF Init, TripsInv, IsCancelled, Q!Loaded
<1>12. WatchedInv
  BY DEF Init, WatchedInv
<1>13. QED
  BY <1>2, <1>3, <1>4, <1>6, <1>7, <1>8, <1>9, <1>10, <1>11, <1>12 DEF CheckoutInv

LEMMA InvStep ==
    ASSUME CheckoutInv, [Next]_vars
    PROVE  CheckoutInv'
<1> USE DEF CheckoutInv
<1>1. trips' \in Q!Query(Rows) /\ cancelled' \subseteq Holds /\ TripsInv'
      /\ cancelling' \in [Holds -> Cancelling]
  BY TripsStepInv DEF QueriesTyped
<1>2. ServerTyped'
  BY <1>1, RowsStep, CallsStep, RivalStep DEF ServerTyped
<1>3. PageTyped' /\ TimerTyped' /\ BoundsTyped'
  BY PageStep, BoundsStep
<1>4. QueriesTyped' /\ DetailInv'
  BY <1>1, DetailStep DEF QueriesTyped
<1>5. RowInv' /\ ViewInv' /\ OrderInv' /\ WatchedInv'
  BY RowInvStep, ViewStep, OrderStep, WatchedInvStep
<1>6. QED
  BY <1>1, <1>2, <1>3, <1>4, <1>5

\* The inductive invariant holds in every state of every behaviour.
THEOREM InvHolds == Spec => []CheckoutInv
BY InvInit, InvStep, PTL DEF Spec

\* Rows, calls, the page and its queries are of their types.
THEOREM TypesHold == Spec => []TypeOK
<1>1. CheckoutInv => TypeOK
  BY DEF CheckoutInv, ServerTyped, PageTyped, TimerTyped, BoundsTyped, QueriesTyped, ViewInv, TypeOK
<1>2. QED
  BY <1>1, InvHolds, PTL

\* A panel that names a status shows what is cached of the hold it follows.
LEMMA PanelShows ==
    ASSUME Panel \in Status
    PROVE  Mounted /\ ~IsError /\ shown # Nothing /\ Panel = detail[shown].data
BY DEF Panel, Reservation, Status, SlotTaken

LEMMA PanelIsError ==
    ASSUME Panel \in {"taken", "failed"}, Reservation \in Status \cup {Nothing}
    PROVE  IsError
BY DEF Panel, SlotTaken, Status

LEMMA PanelValues ==
    ASSUME CheckoutInv, current # Nothing
    PROVE  /\ Reservation \in Status \cup {Nothing}
           /\ Panel \in Status \cup {"taken", "failed", "securing", "stalled"}
<1>1. Reservation \in Status \cup {Nothing}
  BY DEF Reservation, CheckoutInv, ViewInv, QueriesTyped, Q!Query
<1>2. QED
  BY <1>1 DEF Panel, Mounted

\* What a panel says is so: a booking shown as confirmed was paid for, and what is shown as
\* released stands no more.
THEOREM PanelsAreTrue == Spec => []PanelsTellTheTruth
<1>1. ASSUME CheckoutInv, Panel \in Status
      PROVE  shown \in Holds /\ WasSo(Panel, shown) /\ Panel # Nothing
  BY <1>1, PanelShows DEF CheckoutInv, ViewInv, DetailInv, Fits
<1>2. ASSUME CheckoutInv, Panel \in SaysPaid
      PROVE  money[shown] = "taken"
  BY <1>1, <1>2 DEF SaysPaid, Status, WasSo
<1>3. ASSUME CheckoutInv, Panel \in SaysReleased
      PROVE  ~Live(shown)
  <2>1. Panel \in {"CANCELLED", "EXPIRED", "COMPLETED"} /\ Panel \in Status
    BY <1>3 DEF SaysReleased, Status
  <2>2. row[shown] \in {Panel, "CANCELLED"}
    BY <1>1, <1>3, <2>1 DEF WasSo, After
  <2>3. QED
    BY <2>1, <2>2 DEF Live
<1>4. CheckoutInv => PanelsTellTheTruth
  BY <1>2, <1>3 DEF PanelsTellTheTruth
<1>5. QED
  BY <1>4, InvHolds, PTL

\* No list that was read before a cancel is shown after it: a trip the guest was told is cancelled
\* stays so on the screen.
THEOREM CancelsShow == Spec => []CancelledTripsShowIt
<1>1. ASSUME CheckoutInv, TripsShown, ~trips.failed
      PROVE  Q!WillShow(trips, {t \in Rows : \A n \in cancelled : t[n] = "CANCELLED"})
  <2>1. trips \in Q!Query(Rows) /\ Q!Loaded(trips)
    BY <1>1 DEF CheckoutInv, QueriesTyped, TripsShown
  <2>2. trips.data \in Rows /\ trips.fetch \in {"none", "asked", "read"}
    BY <2>1 DEF Q!Query, Q!Loaded
  <2>3. trips.fetch = "read" => trips.seen \in Rows /\ ~Standing(trips.seen)
    BY <1>1 DEF CheckoutInv, TripsInv
  <2>4. trips.fetch = "none" => ~Standing(trips.data)
    BY <1>1, <2>1 DEF CheckoutInv, TripsInv
  <2>5. QED
    BY <2>2, <2>3, <2>4 DEF Q!WillShow, Q!Fetching, Standing
<1>2. CheckoutInv => CancelledTripsShowIt
  BY <1>1 DEF CancelledTripsShowIt
<1>3. QED
  BY <1>2, InvHolds, PTL

\* What an open page followed stays what it follows.
LEMMA ShownLasts ==
    ASSUME CheckoutInv, [Next]_vars, current # Nothing, current' = current, ~Retried, shown # Nothing
    PROVE  shown = current /\ shown' = shown /\ Created(current)'
<1>1. /\ current \in Holds /\ current \in Nat /\ first = current /\ call[current].at # "unused"
      /\ Created(shown) /\ shown \in first .. current
  BY HoldsAssumption DEF CheckoutInv, ViewInv, Retried
<1>2. shown = current
  BY <1>1
<1>3. Created(current)'
  BY <1>1, <1>2, CreatedLasts DEF CheckoutInv
<1>4. ASSUME NEW n \in Holds, HoldAnswered(n)
      PROVE  shown' = shown
  <2>1. Sent(n) => n = current
    BY <1>1, <1>4, HoldsAssumption DEF Sent
  <2>2. call[n].at = "served" /\ call[current].at = "answered"
    BY <1>1, <1>2, <1>4 DEF HoldAnswered, Created
  <2>3. ~Sent(n)
    BY <2>1, <2>2
  <2>4. QED
    BY <1>4, <2>3 DEF HoldAnswered
<1>5. ASSUME NEW n \in Holds, Place(n)
      PROVE  FALSE
  BY <1>1, <1>5 DEF Place, Unused
<1>6. ~Unmounted
  BY DEF Unmounted
<1>7. QED
  BY <1>2, <1>3, <1>4, <1>5, <1>6, ViewSteps

\* As long as the page stays open and nothing was tried again, a status is followed by later ones
\* only, and an error by nothing.
THEOREM ScreenGoesForward == Spec => ScreenMovesForward
<1>1. ASSUME CheckoutInv, [Next]_vars, current # Nothing, current' = current, ~Retried, Panel' # Panel
      PROVE  /\ Panel = "HELD" => Panel' \in Status
             /\ Panel = "CONFIRMED" => Panel' \in {"CANCELLED", "COMPLETED"}
             /\ Panel \notin {"HELD", "CONFIRMED", "securing", "stalled"} => FALSE
  <2>1. CASE Panel \in Status
    <3>1. shown # Nothing /\ Panel = detail[shown].data
      BY <2>1, PanelShows
    <3>2. shown = current /\ shown' = shown /\ Created(current)' /\ current \in Holds
      BY <1>1, <3>1, ShownLasts DEF CheckoutInv, ViewInv
    <3>3. detail'[current].data # Nothing /\ detail'[current].data \in After(Panel, current)
      BY <1>1, <2>1, <3>1, <3>2, DataLasts, NothingAssumption DEF CheckoutInv
    <3>4. Panel' = detail'[current].data
      BY <1>1, <3>1, <3>2, <3>3 DEF Panel, Mounted, IsError, SlotTaken, Reservation, Created
    <3>5. Watched(current)
      BY <1>1, <3>2, HoldsAssumption DEF Retried, Watched
    <3>6. QED
      BY <1>1, <2>1, <3>3, <3>4, <3>5 DEF After, Status
  <2>2. CASE Panel \in {"taken", "failed"}
    <3>1. IsError
      BY <1>1, <2>2, PanelIsError, PanelValues
    <3>2. call'[current] = call[current]
      BY <1>1, <3>1, CallsStep DEF CallMay, IsError, CheckoutInv, ViewInv
    <3>3. Panel' = Panel
      BY <1>1, <3>1, <3>2 DEF Panel, Mounted, IsError, SlotTaken
    <3>4. QED
      BY <1>1, <3>3
  <2>3. CASE Panel \in {"securing", "stalled"}
    BY <2>3
  <2>4. Panel \in Status \cup {"taken", "failed", "securing", "stalled"}
    BY <1>1, PanelValues
  <2>5. QED
    BY <2>1, <2>2, <2>3, <2>4
<1>2. QED
  BY <1>1, InvHolds, PTL DEF Spec, ScreenMovesForward
=============================================================================
