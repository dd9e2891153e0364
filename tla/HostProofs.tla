----------------------------- MODULE HostProofs -----------------------------
(***************************************************************************)
(* What TLC checks of Host on small instances, proved for any number of    *)
(* requests and of pages gone to.                                          *)
(***************************************************************************)
EXTENDS Host, FiniteSetTheorems, NaturalsInduction, TLAPS

-----------------------------------------------------------------------------
(* The inductive invariants.                                               *)

Made(r) == request[r] # Nothing
Answered(r) == Made(r) /\ request[r].at \in {"served", "told"}
Ended(kind) == \E r \in Requests : Answered(r) /\ request[r].kind = kind

Rows ==
    /\ listing \in [Listings -> ListingRow \cup {Nothing}]
    /\ block \in [Blocks -> Listings \cup {Nothing}]
    /\ stay \in [Stays -> StayRow \cup {Nothing}]
    /\ review \subseteq Review
Calls == request \in [Requests -> Request \cup {Nothing}]

\* What the clients ask for: the new listing, window and booking are asked for once, and what
\* changes the host's list is asked for by his tab.
Form(q) ==
    /\ q.kind # "review" => q.of \in Listings
    /\ q.kind = "create" => q.of = New
    /\ q.kind = "addBlock" => q.item = Block2
    /\ q.kind = "removeBlock" => q.item \in Blocks
    /\ q.kind = "hold" => q.item = Stay2
    /\ q.kind = "review" => q.item = Stay1
    /\ q.by = Owner /\ q.kind \in {"create", "pause", "resume", "remove"} => q.tab
    /\ q.kind = "review" /\ q.tab => q.by # Owner
Single(kind) == \A r, q \in Requests :
    Made(r) /\ Made(q) /\ request[r].kind = kind /\ request[q].kind = kind => r = q
FormInv ==
    /\ \A r \in Requests : Made(r) => Form(request[r])
    /\ Single("create") /\ Single("addBlock") /\ Single("hold")

\* What is there was asked for, and nothing outlives what it belongs to.
TableInv ==
    /\ listing[New] # Nothing => Ended("create")
    /\ block[Block2] # Nothing => Ended("addBlock")
    /\ stay[Stay2] # Nothing => Ended("hold")
    /\ \A l \in Listings : listing[l] # Nothing => listing[l].host # Guest
    /\ \A b \in Blocks : block[b] # Nothing => listing[block[b]] # Nothing
    /\ \A s \in Stays : stay[s] # Nothing => listing[stay[s].of] # Nothing
    /\ stay[Stay1] # Nothing /\ stay[Stay1].of = Theirs

\* What a statement has checked is still so when the next one writes; what is gone does not come
\* back in other hands.
Settled(l) == l = New => Ended("create")
OwnerInv == \A r \in Requests :
    Made(r) /\ request[r].kind \in OwnerKinds /\ request[r].at = "checked" =>
        /\ request[r].by # Guest
        /\ Settled(request[r].of)
        /\ listing[request[r].of] # Nothing => listing[request[r].of].host = request[r].by
ReviewInv == \A r \in Requests :
    Made(r) /\ request[r].kind = "review" /\ request[r].at = "checked" =>
        /\ stay[request[r].item] # Nothing /\ stay[request[r].item].over
        /\ request[r].of = stay[request[r].item].of
RefusalInv == \A r \in Requests : Made(r) =>
    /\ SaysHasBookings(r) => StaysOf(request[r].of) # {}
    /\ SaysReviewed(r) => \E v \in review : v.stay = request[r].item
    /\ SaysForbidden(r) /\ request[r].by # Guest =>
         /\ Settled(request[r].of)
         /\ listing[request[r].of] # Nothing => listing[request[r].of].host # request[r].by

\* The host's list, once his presses are answered: what changed it since it was read makes it
\* read again.
AnsweredLate(r) ==
    /\ Made(r) /\ request[r].tab /\ request[r].by = Owner
    /\ request[r].at = "served" /\ request[r].result = "done"
MineInv ==
    \/ "mine" \in crossed
    \/ \E r \in Requests : AnsweredLate(r)
    \/ mine.fetch = "asked"
    \/ mine.fetch = "read" /\ mine.seen = OwnedBy(Owner)
    \/ mine.fetch = "none" /\ (mine.stale \/ ~Q!Loaded(mine) \/ mine.data = OwnedBy(Owner))

\* A review that was accepted is in the table, and in what the page reads from then on.
WrittenInv == \A r \in Requests :
    Made(r) /\ request[r].kind = "review" /\ request[r].result = "done" =>
        \E v \in review : v.by = r /\ v.of = Theirs
Shown(r) ==
    \/ "summary" \in crossed
    \/ /\ summary.fetch = "asked"
       /\ part.list # Nothing => \E v \in part.list : v.by = r
       /\ part.count # Nothing => part.count >= 1
    \/ summary.fetch = "read" /\ Includes(summary.seen, r)
    \/ summary.fetch = "none" /\ (summary.stale \/ ~Q!Loaded(summary) \/ Includes(summary.data, r))
SummaryInv == \A r \in Requests : Accepted(r) => Shown(r)

HostTyped ==
    /\ hostPage \in {"elsewhere", "listings", "bookings"} /\ mine \in Q!Query(Board)
    /\ toggling \in [Listings -> Requests \cup {Nothing}]
    /\ hostPage # "listings" => \A l \in Listings : toggling[l] = Nothing
GuestTyped ==
    /\ guestPage \in {"elsewhere", "trips", "listing"} /\ summary \in Q!Query(Reviews)
    /\ part \in [list : (SUBSET Review) \cup {Nothing}, count : Nat \cup {Nothing}]
    /\ summary.fetch # "asked" => part = NoPart
MovesTyped == crossed \subseteq {"mine", "summary"} /\ moves \in 0 .. MaxMoves

-----------------------------------------------------------------------------
(* Lemmas about requests.                                                  *)

\* What a request asks for does not change, and its answer is final.
Kept(r) ==
    /\ request'[r] # Nothing
    /\ request'[r].kind = request[r].kind /\ request'[r].by = request[r].by
    /\ request'[r].item = request[r].item /\ request'[r].tab = request[r].tab
    /\ request[r].kind # "review" \/ request[r].at # "sent" => request'[r].of = request[r].of
Becomes(r, at, result) ==
    /\ Kept(r) /\ request'[r].of = request[r].of
    /\ request'[r].at = at /\ request'[r].result = result
Others(r) == \A q \in Requests \ {r} : request'[q] = request[q]

LEMMA StageEffect ==
    ASSUME NEW q \in Request, NEW at \in {"sent", "checked", "served", "told"}
    PROVE  LET next == [q EXCEPT !.at = at] IN
           /\ next \in Request /\ next.at = at
           /\ next.kind = q.kind /\ next.by = q.by /\ next.of = q.of /\ next.item = q.item
           /\ next.tab = q.tab /\ next.result = q.result
<1> DEFINE next == [q EXCEPT !.at = at]
<1>1. next \in Request
  BY Zenon DEF Request
<1>2. next.at = at
  BY Zenon DEF Request
<1>3. next.kind = q.kind /\ next.by = q.by /\ next.of = q.of /\ next.item = q.item
      /\ next.result = q.result
  BY DEF Request
<1>4. next.tab = q.tab
  BY Zenon DEF Request
<1>5. QED
  BY <1>1, <1>2, <1>3, <1>4, Zenon

LEMMA ResultEffect ==
    ASSUME NEW q \in Request, NEW result \in Results
    PROVE  LET next == [q EXCEPT !.at = "served", !.result = result] IN
           /\ next \in Request /\ next.at = "served" /\ next.result = result
           /\ next.kind = q.kind /\ next.by = q.by /\ next.of = q.of /\ next.item = q.item
           /\ next.tab = q.tab
<1> DEFINE next == [q EXCEPT !.at = "served", !.result = result]
<1>1. next \in Request
  BY Zenon DEF Request
<1>2. next.at = "served" /\ next.result = result
  BY Zenon DEF Request
<1>3. next.kind = q.kind /\ next.by = q.by /\ next.of = q.of /\ next.item = q.item
  BY DEF Request
<1>4. next.tab = q.tab
  BY Zenon DEF Request
<1>5. QED
  BY <1>1, <1>2, <1>3, <1>4, Zenon

LEMMA ReviewedEffect ==
    ASSUME NEW q \in Request, NEW of \in Listings
    PROVE  LET next == [q EXCEPT !.at = "checked", !.of = of] IN
           /\ next \in Request /\ next.at = "checked" /\ next.of = of
           /\ next.kind = q.kind /\ next.by = q.by /\ next.item = q.item
           /\ next.tab = q.tab /\ next.result = q.result
<1> DEFINE next == [q EXCEPT !.at = "checked", !.of = of]
<1>1. next \in Request
  BY Zenon DEF Request
<1>2. next.at = "checked" /\ next.of = of
  BY Zenon DEF Request
<1>3. next.kind = q.kind /\ next.by = q.by /\ next.item = q.item /\ next.result = q.result
  BY DEF Request
<1>4. next.tab = q.tab
  BY Zenon DEF Request
<1>5. QED
  BY <1>1, <1>2, <1>3, <1>4, Zenon

LEMMA RequestEffect ==
    ASSUME Calls, NEW r \in Requests, NEW q \in Request, request' = [request EXCEPT ![r] = q]
    PROVE  Calls' /\ request'[r] = q /\ request'[r] # Nothing /\ Others(r)
<1>1. Calls' /\ request'[r] = q /\ Others(r)
  BY DEF Calls, Others
<1>2. QED
  BY <1>1, NothingAssumption

LEMMA ServeEffect ==
    ASSUME Calls, NEW r \in Requests, Made(r), NEW result \in Results, Serve(r, result)
    PROVE  Calls' /\ Becomes(r, "served", result) /\ Others(r)
<1>1. PICK q \in Request : q = request[r]
  BY DEF Calls, Made
<1>2. PICK next : next = [q EXCEPT !.at = "served", !.result = result]
  OBVIOUS
<1>3. request' = [request EXCEPT ![r] = next]
  BY <1>1, <1>2, Zenon DEF Serve
<1>4. next \in Request /\ next.at = "served" /\ next.result = result
      /\ next.kind = q.kind /\ next.by = q.by /\ next.of = q.of /\ next.item = q.item
      /\ next.tab = q.tab
  BY <1>2, ResultEffect
<1>5. Calls' /\ request'[r] = next /\ request'[r] # Nothing /\ Others(r)
  BY <1>3, <1>4, RequestEffect
<1>6. QED
  BY <1>1, <1>4, <1>5, Zenon DEF Becomes, Kept

LEMMA PassEffect ==
    ASSUME Calls, NEW r \in Requests, Made(r), NEW at \in {"checked", "told"},
           request' = [request EXCEPT ![r].at = at]
    PROVE  Calls' /\ Becomes(r, at, request[r].result) /\ Others(r)
<1>0. at \in {"sent", "checked", "served", "told"}
  OBVIOUS
<1>1. PICK q \in Request : q = request[r]
  BY DEF Calls, Made
<1>2. PICK next : next = [q EXCEPT !.at = at]
  OBVIOUS
<1>3. request' = [request EXCEPT ![r] = next]
  BY <1>1, <1>2, Zenon
<1>4. next \in Request /\ next.at = at /\ next.result = q.result
      /\ next.kind = q.kind /\ next.by = q.by /\ next.of = q.of /\ next.item = q.item
      /\ next.tab = q.tab
  BY <1>0, <1>2, StageEffect
<1>5. Calls' /\ request'[r] = next /\ request'[r] # Nothing /\ Others(r)
  BY <1>3, <1>4, RequestEffect
<1>6. QED
  BY <1>1, <1>4, <1>5, Zenon DEF Becomes, Kept

LEMMA SendEffect ==
    ASSUME Calls, NEW kind \in Kinds, NEW by \in People, NEW of \in Listings \cup {Nothing},
           NEW item \in Blocks \cup Stays \cup {Nothing}, NEW tab \in BOOLEAN,
           Send(kind, by, of, item, tab)
    PROVE  /\ Calls'
           /\ \E r \in Requests :
                /\ r = NextRequest
                /\ ~Made(r) /\ request'[r] # Nothing /\ Others(r)
                /\ request'[r] = [kind |-> kind, by |-> by, of |-> of, item |-> item, tab |-> tab,
                                  at |-> "sent", result |-> "none"]
<1>1. PICK r : r = NextRequest
  OBVIOUS
<1>2. r \in Requests /\ ~Made(r)
  BY <1>1 DEF Send, Unused, NextRequest, Made
<1>3. PICK q : q = [kind |-> kind, by |-> by, of |-> of, item |-> item, tab |-> tab, at |-> "sent",
                    result |-> "none"]
  OBVIOUS
<1>4. q \in Request
  BY <1>3 DEF Request, Results
<1>5. request' = [request EXCEPT ![r] = q]
  BY <1>1, <1>3, Zenon DEF Send
<1>6. Calls' /\ request'[r] = q /\ request'[r] # Nothing /\ Others(r)
  BY <1>2, <1>4, <1>5, RequestEffect
<1>7. QED
  BY <1>1, <1>2, <1>3, <1>6

-----------------------------------------------------------------------------
(* What a step does to the requests and the tables.                        *)

Sends(r) ==
    /\ ~Made(r) /\ request'[r] # Nothing /\ Others(r)
    /\ request'[r].at = "sent" /\ request'[r].result = "none"
    /\ Form(request'[r])
    /\ request'[r].kind \in {"create", "addBlock", "hold"} => ~Asked(request'[r].kind)
    /\ UNCHANGED tables
Tells(r) ==
    /\ Made(r) /\ request[r].at = "served"
    /\ Becomes(r, "told", request[r].result) /\ Others(r)
    /\ UNCHANGED tables
    /\ HostAnswered(r) \/ ReviewAnswered(r)
Refuses(r) ==
    /\ Made(r) /\ request[r].at \in {"sent", "checked"}
    /\ \E result \in Results \ {"none", "done"} :
         /\ Becomes(r, "served", result)
         /\ result = "FORBIDDEN" /\ request[r].by # Guest =>
              /\ request[r].kind \in OwnerKinds
              /\ listing[request[r].of] # Nothing /\ listing[request[r].of].host # request[r].by
         /\ result = "LISTING_HAS_BOOKINGS" => StaysOf(request[r].of) # {}
         /\ result = "REVIEW_ALREADY_EXISTS" => \E v \in review : v.stay = request[r].item
    /\ Others(r)
    /\ UNCHANGED tables
Clears(r) ==
    /\ Made(r) /\ request[r].at = "sent" /\ request'[r].at = "checked"
    /\ Kept(r) /\ request'[r].result = request[r].result /\ Others(r)
    /\ request[r].kind \in OwnerKinds =>
         /\ request[r].by # Guest
         /\ listing[request[r].of] # Nothing /\ listing[request[r].of].host = request[r].by
    /\ request[r].kind = "review" =>
         /\ stay[request[r].item] # Nothing /\ stay[request[r].item].over
         /\ request'[r].of = stay[request[r].item].of
    /\ request[r].kind \in OwnerKinds \cup {"hold", "review"}
    /\ UNCHANGED tables

Creates(r) ==
    /\ request[r].kind = "create" /\ request[r].at = "sent" /\ request[r].by # Guest
    /\ listing' = [listing EXCEPT ![request[r].of] = [host |-> request[r].by, active |-> TRUE]]
    /\ UNCHANGED <<block, stay, review>>
Updates(r) ==
    /\ request[r].kind \in {"pause", "resume"} /\ request[r].at = "checked"
    /\ listing[request[r].of] # Nothing
    /\ listing' = [listing EXCEPT ![request[r].of].active = (request[r].kind = "resume")]
    /\ UNCHANGED <<block, stay, review>>
Removes(r) ==
    /\ request[r].kind = "remove" /\ request[r].at = "checked"
    /\ listing[request[r].of] # Nothing /\ StaysOf(request[r].of) = {}
    /\ Erase(request[r].of) /\ UNCHANGED stay
Closes(r) ==
    /\ request[r].kind = "addBlock" /\ request[r].at = "checked"
    /\ listing[request[r].of] # Nothing
    /\ block' = [block EXCEPT ![request[r].item] = request[r].of]
    /\ UNCHANGED <<listing, stay, review>>
Opens(r) ==
    /\ request[r].kind = "removeBlock" /\ request[r].at = "checked"
    /\ block[request[r].item] = request[r].of
    /\ block' = [block EXCEPT ![request[r].item] = Nothing]
    /\ UNCHANGED <<listing, stay, review>>
Books(r) ==
    /\ request[r].kind = "hold" /\ request[r].at = "checked"
    /\ listing[request[r].of] # Nothing
    /\ stay' = [stay EXCEPT ![request[r].item] = [of |-> request[r].of, over |-> FALSE]]
    /\ UNCHANGED <<listing, block, review>>
Rates(r) ==
    /\ request[r].kind = "review" /\ request[r].at = "checked"
    /\ ~\E v \in review : v.stay = request[r].item
    /\ review' = review \cup {Written(r)}
    /\ UNCHANGED <<listing, block, stay>>
Writes(r) ==
    /\ Made(r) /\ Becomes(r, "served", "done") /\ Others(r)
    /\ Creates(r) \/ Updates(r) \/ Removes(r) \/ Closes(r) \/ Opens(r) \/ Books(r) \/ Rates(r)

LEMMA RefuseStep ==
    ASSUME Calls, NEW r \in Requests, Made(r), request[r].at \in {"sent", "checked"},
           NEW result \in Results \ {"none", "done"}, Refuse(r, result),
           result = "FORBIDDEN" /\ request[r].by # Guest =>
              /\ request[r].kind \in OwnerKinds
              /\ listing[request[r].of] # Nothing /\ listing[request[r].of].host # request[r].by,
           result = "LISTING_HAS_BOOKINGS" => StaysOf(request[r].of) # {},
           result = "REVIEW_ALREADY_EXISTS" => \E v \in review : v.stay = request[r].item
    PROVE  Calls' /\ Refuses(r)
<1>1. Serve(r, result) /\ UNCHANGED tables
  BY Zenon DEF Refuse
<1>2. Calls' /\ Becomes(r, "served", result) /\ Others(r)
  BY <1>1, ServeEffect
<1>3. QED
  BY <1>1, <1>2, Zenon DEF Refuses

LEMMA WriteStep ==
    ASSUME Calls, NEW r \in Requests, Made(r), Serve(r, "done"),
           Creates(r) \/ Updates(r) \/ Removes(r) \/ Closes(r) \/ Opens(r) \/ Books(r) \/ Rates(r)
    PROVE  Calls' /\ Writes(r)
<1>1. "done" \in Results
  BY DEF Results
<1>2. Calls' /\ Becomes(r, "served", "done") /\ Others(r)
  BY <1>1, ServeEffect
<1>3. QED
  BY <1>2, Zenon DEF Writes

LEMMA PassStep ==
    ASSUME Calls, NEW r \in Requests, Made(r), request[r].at = "sent", Passes(r), UNCHANGED tables,
           request[r].kind \in OwnerKinds \cup {"hold"},
           request[r].kind \in OwnerKinds =>
              /\ request[r].by # Guest
              /\ listing[request[r].of] # Nothing /\ listing[request[r].of].host = request[r].by
    PROVE  Calls' /\ Clears(r)
<1>1. Calls' /\ Becomes(r, "checked", request[r].result) /\ Others(r)
  BY PassEffect DEF Passes
<1>2. request[r].kind # "review"
  BY DEF OwnerKinds
<1>3. QED
  BY <1>1, <1>2 DEF Becomes, Clears

LEMMA HandleStep ==
    ASSUME Calls, Rows, NEW r \in Requests, Form(request[r]), Handle(r)
    PROVE  Calls' /\ (Refuses(r) \/ Clears(r) \/ Writes(r))
<1>1. Made(r) /\ request[r] \in Request
  BY DEF Handle, RolesGuard, AssertOwner, Create, Update, Remove, AddAvailability, RemoveAvailability,
         HoldRead, HoldInsert, ReviewRead, ReviewInsert, Does, Made, Calls
<1>2. {"FORBIDDEN", "NOT_FOUND", "INTERNAL", "VALIDATION_FAILED", "LISTING_HAS_BOOKINGS",
       "REVIEW_STAY_NOT_FINISHED", "REVIEW_ALREADY_EXISTS"} \subseteq Results \ {"none", "done"}
  BY DEF Results
<1>3. CASE RolesGuard(r)
  <2>1. request[r].at = "sent" /\ request[r].by = Guest /\ Refuse(r, "FORBIDDEN")
    BY <1>1, <1>3 DEF RolesGuard, Permitted, Request, People
  <2>2. QED
    BY <1>1, <1>2, <2>1, RefuseStep
<1>4. CASE AssertOwner(r)
  <2>1. request[r].at = "sent" /\ request[r].kind \in OwnerKinds /\ request[r].by # Guest
    BY <1>4, HostAssumption DEF AssertOwner, Permitted, HostKinds
  <2>2. \/ Refuse(r, "NOT_FOUND")
        \/ /\ listing[request[r].of] # Nothing /\ listing[request[r].of].host # request[r].by
           /\ Refuse(r, "FORBIDDEN")
        \/ /\ listing[request[r].of] # Nothing /\ listing[request[r].of].host = request[r].by
           /\ Passes(r) /\ UNCHANGED tables
    BY <1>4, Zenon DEF AssertOwner
  <2>3. QED
    BY <1>1, <1>2, <2>1, <2>2, RefuseStep, PassStep
<1>5. CASE Create(r)
  <2>1. Serve(r, "done") /\ Creates(r)
    BY <1>5, HostAssumption DEF Create, Creates, Does, Permitted, HostKinds
  <2>2. QED
    BY <1>1, <2>1, WriteStep
<1>6. CASE Update(r)
  <2>1. request[r].at = "checked" /\ request[r].kind \in {"pause", "resume"}
    BY <1>6 DEF Update, Does
  <2>2. Refuse(r, "INTERNAL") \/ (Serve(r, "done") /\ Updates(r))
    BY <1>6, <2>1, Zenon DEF Update, Updates
  <2>3. QED
    BY <1>1, <1>2, <2>1, <2>2, RefuseStep, WriteStep
<1>7. CASE Remove(r)
  <2>1. request[r].at = "checked" /\ request[r].kind = "remove"
    BY <1>7 DEF Remove, Does
  <2>2. \/ Refuse(r, "INTERNAL")
        \/ StaysOf(request[r].of) # {} /\ Refuse(r, "LISTING_HAS_BOOKINGS")
        \/ Serve(r, "done") /\ Removes(r)
    BY <1>7, <2>1, Zenon DEF Remove, Removes
  <2>3. QED
    BY <1>1, <1>2, <2>1, <2>2, RefuseStep, WriteStep
<1>8. CASE AddAvailability(r)
  <2>1. request[r].at = "checked" /\ request[r].kind = "addBlock"
    BY <1>8 DEF AddAvailability, Does
  <2>2. Refuse(r, "VALIDATION_FAILED") \/ Refuse(r, "INTERNAL") \/ (Serve(r, "done") /\ Closes(r))
    BY <1>8, <2>1, Zenon DEF AddAvailability, Closes
  <2>3. QED
    BY <1>1, <1>2, <2>1, <2>2, RefuseStep, WriteStep
<1>9. CASE RemoveAvailability(r)
  <2>1. request[r].at = "checked" /\ request[r].kind = "removeBlock"
    BY <1>9 DEF RemoveAvailability, Does
  <2>2. Refuse(r, "NOT_FOUND") \/ (Serve(r, "done") /\ Opens(r))
    BY <1>9, <2>1, Zenon DEF RemoveAvailability, Opens
  <2>3. QED
    BY <1>1, <1>2, <2>1, <2>2, RefuseStep, WriteStep
<1>10. CASE HoldRead(r)
  <2>1. request[r].at = "sent" /\ request[r].kind = "hold" /\ request[r].kind \notin OwnerKinds
    BY <1>10 DEF HoldRead, Does, OwnerKinds
  <2>2. Refuse(r, "NOT_FOUND") \/ (Passes(r) /\ UNCHANGED tables)
    BY <1>10, Zenon DEF HoldRead
  <2>3. QED
    BY <1>1, <1>2, <2>1, <2>2, RefuseStep, PassStep
<1>11. CASE HoldInsert(r)
  <2>1. request[r].at = "checked" /\ request[r].kind = "hold"
    BY <1>11 DEF HoldInsert, Does
  <2>2. Refuse(r, "INTERNAL") \/ (Serve(r, "done") /\ Books(r))
    BY <1>11, <2>1, Zenon DEF HoldInsert, Books
  <2>3. QED
    BY <1>1, <1>2, <2>1, <2>2, RefuseStep, WriteStep
<1>12. CASE ReviewRead(r)
  <2>1. request[r].at = "sent" /\ request[r].kind = "review" /\ request[r].kind \notin OwnerKinds
    BY <1>12 DEF ReviewRead, Does, OwnerKinds
  <2>2. \/ Refuse(r, "NOT_FOUND") \/ Refuse(r, "REVIEW_STAY_NOT_FINISHED")
        \/ /\ stay[request[r].item] # Nothing /\ stay[request[r].item].over
           /\ request' = [request EXCEPT ![r].at = "checked", ![r].of = stay[request[r].item].of]
           /\ UNCHANGED tables
    BY <1>12, Zenon DEF ReviewRead, Owned
  <2>3. ASSUME stay[request[r].item] # Nothing, stay[request[r].item].over,
               request' = [request EXCEPT ![r].at = "checked", ![r].of = stay[request[r].item].of],
               UNCHANGED tables, request[r].item \in Stays
        PROVE  Calls' /\ Clears(r)
    <3>1. PICK of \in Listings : of = stay[request[r].item].of
      BY <2>3 DEF Rows, StayRow
    <3>2. PICK q \in Request : q = request[r]
      BY <1>1
    <3>3. PICK next : next = [q EXCEPT !.at = "checked", !.of = of]
      OBVIOUS
    <3>4. /\ next \in Request /\ next.at = "checked" /\ next.of = of
          /\ next.kind = q.kind /\ next.by = q.by /\ next.item = q.item
          /\ next.tab = q.tab /\ next.result = q.result
      BY <3>3, ReviewedEffect
    <3>5. request' = [request EXCEPT ![r] = next]
      BY <2>3, <3>1, <3>2, <3>3, Zenon
    <3>6. Calls' /\ request'[r] = next /\ request'[r] # Nothing /\ Others(r)
      BY <3>4, <3>5, RequestEffect
    <3>7. Kept(r)
      BY <2>1, <3>2, <3>4, <3>6, Zenon DEF Kept
    <3>8. QED
      BY <1>1, <2>1, <2>3, <3>1, <3>2, <3>4, <3>6, <3>7 DEF Clears
  <2>4. request[r].item \in Stays
    BY <2>1 DEF Form, Stays
  <2>5. QED
    BY <1>1, <1>2, <2>1, <2>2, <2>3, <2>4, RefuseStep
<1>13. CASE ReviewInsert(r)
  <2>1. request[r].at = "checked" /\ request[r].kind = "review"
    BY <1>13 DEF ReviewInsert, Does
  <2>2. \/ (\E v \in review : v.stay = request[r].item) /\ Refuse(r, "REVIEW_ALREADY_EXISTS")
        \/ Serve(r, "done") /\ Rates(r)
    BY <1>13, <2>1, Zenon DEF ReviewInsert, Rates
  <2>3. QED
    BY <1>1, <1>2, <2>1, <2>2, RefuseStep, WriteStep
<1>14. QED
  BY <1>3, <1>4, <1>5, <1>6, <1>7, <1>8, <1>9, <1>10, <1>11, <1>12, <1>13 DEF Handle

LEMMA SendStep ==
    ASSUME Calls, NEW kind \in Kinds, NEW by \in People, NEW of \in Listings \cup {Nothing},
           NEW item \in Blocks \cup Stays \cup {Nothing}, NEW tab \in BOOLEAN,
           Send(kind, by, of, item, tab), UNCHANGED tables,
           kind \in {"create", "addBlock", "hold"} => ~Asked(kind),
           kind # "review" => of \in Listings,
           kind = "create" => of = New,
           kind = "addBlock" => item = Block2,
           kind = "removeBlock" => item \in Blocks,
           kind = "hold" => item = Stay2,
           kind = "review" => item = Stay1,
           by = Owner /\ kind \in {"create", "pause", "resume", "remove"} => tab,
           kind = "review" /\ tab => by # Owner
    PROVE  Calls' /\ \E r \in Requests : Sends(r)
<1>1. PICK r \in Requests :
         /\ ~Made(r) /\ request'[r] # Nothing /\ Others(r)
         /\ request'[r] = [kind |-> kind, by |-> by, of |-> of, item |-> item, tab |-> tab,
                           at |-> "sent", result |-> "none"]
  BY SendEffect
<1>2. Calls'
  BY SendEffect
<1>3. /\ request'[r].kind = kind /\ request'[r].by = by /\ request'[r].of = of
      /\ request'[r].item = item /\ request'[r].at = "sent" /\ request'[r].result = "none"
  BY <1>1
<1>4. request'[r].tab = tab
  BY <1>1
<1>5. Form(request'[r])
  BY <1>3, <1>4 DEF Form
<1>6. Sends(r)
  BY <1>1, <1>3, <1>5 DEF Sends
<1>7. QED
  BY <1>2, <1>6

LEMMA ClientStep ==
    ASSUME Calls, OthersCall \/ Publish \/ PostReview
                  \/ \E l \in Listings : TogglePaused(l) \/ DeleteForGood(l)
    PROVE  Calls' /\ \E r \in Requests : Sends(r)
<1>1. /\ People = {Owner, Other, Guest} /\ Listings = {Mine, Theirs, New}
      /\ Blocks = {Block1, Block2} /\ Stays = {Stay1, Stay2} /\ Owner # Other /\ Owner # Guest
      /\ {"create", "pause", "resume", "remove", "addBlock", "removeBlock", "hold", "review"} \subseteq Kinds
      /\ TRUE \in BOOLEAN /\ FALSE \in BOOLEAN
  BY HostAssumption DEF People, Listings, Blocks, Stays, Kinds, HostKinds, OwnerKinds
<1>2. CASE OthersCall
  <2>1. UNCHANGED tables
    BY <1>2 DEF OthersCall
  <2>2. CASE ~Asked("create") /\ Send("create", Guest, New, Nothing, FALSE)
    BY <1>1, <2>1, <2>2, SendStep
  <2>3. ASSUME NEW k \in {"pause", "remove"}, NEW l \in {Mine, Theirs}, Send(k, Other, l, Nothing, FALSE)
        PROVE  Calls' /\ \E r \in Requests : Sends(r)
    BY <1>1, <2>1, <2>3, SendStep
  <2>4. ASSUME NEW h \in {Owner, Other}, NEW l \in {Mine, Theirs}, ~Asked("addBlock"),
               Send("addBlock", h, l, Block2, FALSE)
        PROVE  Calls' /\ \E r \in Requests : Sends(r)
    BY <1>1, <2>1, <2>4, SendStep
  <2>5. ASSUME NEW h \in {Owner, Other}, NEW l \in {Mine, Theirs}, NEW b \in Blocks,
               Send("removeBlock", h, l, b, FALSE)
        PROVE  Calls' /\ \E r \in Requests : Sends(r)
    BY <1>1, <2>1, <2>5, SendStep
  <2>6. ASSUME NEW l \in {Mine, Theirs}, ~Asked("hold"), Send("hold", Guest, l, Stay2, FALSE)
        PROVE  Calls' /\ \E r \in Requests : Sends(r)
    BY <1>1, <2>1, <2>6, SendStep
  <2>7. ASSUME NEW p \in {Guest, Other}, Send("review", p, Nothing, Stay1, FALSE)
        PROVE  Calls' /\ \E r \in Requests : Sends(r)
    BY <1>1, <2>1, <2>7, SendStep
  <2>8. QED
    BY <1>2, <2>2, <2>3, <2>4, <2>5, <2>6, <2>7 DEF OthersCall
<1>3. CASE Publish
  <2>1. Send("create", Owner, New, Nothing, TRUE) /\ ~Asked("create") /\ UNCHANGED tables
    BY <1>3 DEF Publish, HostCalls
  <2>2. QED
    BY <1>1, <2>1, SendStep
<1>4. CASE PostReview
  <2>1. Send("review", Guest, Nothing, Stay1, TRUE) /\ UNCHANGED tables
    BY <1>4 DEF PostReview
  <2>2. QED
    BY <1>1, <2>1, SendStep
<1>5. ASSUME NEW l \in Listings, TogglePaused(l) \/ DeleteForGood(l)
      PROVE  Calls' /\ \E r \in Requests : Sends(r)
  <2>1. /\ UNCHANGED tables
        /\ \E k \in {"pause", "resume", "remove"} : Send(k, Owner, l, Nothing, TRUE)
    BY <1>5, Zenon DEF TogglePaused, DeleteForGood, HostCalls
  <2>2. QED
    BY <1>1, <2>1, SendStep
<1>6. QED
  BY <1>2, <1>3, <1>4, <1>5

LEMMA StepKinds ==
    ASSUME Calls, Rows, FormInv, [Next]_vars
    PROVE  /\ Calls'
           /\ \/ UNCHANGED <<tables, request>>
              \/ \E s \in Stays : Complete(s)
              \/ \E r \in Requests : Sends(r) \/ Tells(r) \/ Refuses(r) \/ Clears(r) \/ Writes(r)
<1>1. ASSUME NEW r \in Requests, Handle(r)
      PROVE  Calls' /\ (Refuses(r) \/ Clears(r) \/ Writes(r))
  <2>1. Made(r)
    BY <1>1 DEF Handle, RolesGuard, AssertOwner, Create, Update, Remove, AddAvailability,
                RemoveAvailability, HoldRead, HoldInsert, ReviewRead, ReviewInsert, Does, Made
  <2>2. QED
    BY <1>1, <2>1, HandleStep DEF FormInv
<1>2. ASSUME NEW r \in Requests, HostAnswered(r) \/ ReviewAnswered(r)
      PROVE  Calls' /\ Tells(r)
  <2>1. /\ Made(r) /\ request[r].at = "served" /\ UNCHANGED tables
        /\ request' = [request EXCEPT ![r].at = "told"]
    BY <1>2 DEF HostAnswered, ReviewAnswered, HostTold, GuestTold, Told, Made
  <2>2. Calls' /\ Becomes(r, "told", request[r].result) /\ Others(r)
    BY <2>1, PassEffect
  <2>3. QED
    BY <1>2, <2>1, <2>2, Zenon DEF Tells
<1>3. CASE OthersCall \/ Publish \/ PostReview \/ \E l \in Listings : TogglePaused(l) \/ DeleteForGood(l)
  BY <1>3, ClientStep
<1>4. ASSUME NEW s \in Stays, Complete(s)
      PROVE  Calls'
  BY <1>4 DEF Complete, Calls
<1>5. ASSUME \/ HostRefocuses \/ MineFetch \/ SummaryReads \/ SummaryAnswered \/ UNCHANGED vars
             \/ \E p \in HostPages : HostGoes(p)
             \/ \E p \in GuestPages : GuestGoes(p)
      PROVE  UNCHANGED <<tables, request>> /\ Calls'
  BY <1>5 DEF HostRefocuses, MineFetch, SummaryReads, SummaryAnswered, HostGoes, GuestGoes, vars, Calls
<1>6. QED
  BY <1>1, <1>2, <1>3, <1>4, <1>5 DEF Next

LEMMA RequestsLast ==
    ASSUME Calls, Rows, FormInv, [Next]_vars, NEW q \in Requests, Made(q)
    PROVE  /\ Kept(q)
           /\ Answered(q) => Answered(q)' /\ request'[q].result = request[q].result
<1>1. CASE UNCHANGED request
  BY <1>1 DEF Kept, Made, Answered
<1>2. ASSUME NEW r \in Requests, Sends(r)
      PROVE  UNCHANGED request[q]
  BY <1>2 DEF Sends, Others, Made
<1>3. ASSUME NEW r \in Requests, Tells(r) \/ Refuses(r) \/ Clears(r) \/ Writes(r)
      PROVE  /\ Kept(q)
             /\ Answered(q) => Answered(q)' /\ request'[q].result = request[q].result
  <2>1. CASE q = r
    <3>1. CASE Tells(r)
      BY <2>1, <3>1 DEF Tells, Becomes, Answered, Kept, Made
    <3>2. CASE Refuses(r)
      BY <2>1, <3>2 DEF Refuses, Becomes, Answered, Kept, Made
    <3>3. CASE Clears(r)
      BY <2>1, <3>3 DEF Clears, Becomes, Answered, Kept, Made
    <3>4. CASE Writes(r)
      <4>1. ~Answered(r)
        BY <3>4 DEF Writes, Answered, Creates, Updates, Removes, Closes, Opens, Books, Rates
      <4>2. Kept(r)
        BY <3>4 DEF Writes, Becomes
      <4>3. QED
        BY <2>1, <4>1, <4>2
    <3>5. QED
      BY <1>3, <3>1, <3>2, <3>3, <3>4
  <2>2. CASE q # r
    <3>1. request'[q] = request[q]
      BY <1>3, <2>2 DEF Tells, Refuses, Clears, Writes, Others
    <3>2. QED
      BY <3>1 DEF Kept, Made, Answered
  <2>3. QED
    BY <2>1, <2>2
<1>4. ASSUME NEW s \in Stays, Complete(s)
      PROVE  UNCHANGED request
  BY <1>4 DEF Complete
<1>5. ASSUME UNCHANGED request[q]
      PROVE  /\ Kept(q)
             /\ Answered(q) => Answered(q)' /\ request'[q].result = request[q].result
  BY <1>5 DEF Kept, Made, Answered
<1>6. QED
  BY <1>1, <1>2, <1>3, <1>4, <1>5, StepKinds

LEMMA EndedLasts ==
    ASSUME Calls, Rows, FormInv, [Next]_vars, NEW kind, Ended(kind)
    PROVE  Ended(kind)'
<1>1. PICK q \in Requests : Answered(q) /\ request[q].kind = kind
  BY DEF Ended
<1>2. Answered(q)' /\ request'[q].kind = kind
  BY <1>1, RequestsLast DEF Answered, Kept
<1>3. QED
  BY <1>2 DEF Ended

\* Nothing is made but by sending it.
LEMMA SentOnly ==
    ASSUME Calls, Rows, FormInv, [Next]_vars, NEW q \in Requests, ~Made(q), Made(q)'
    PROVE  Sends(q)
<1>1. ASSUME NEW r \in Requests, Sends(r)
      PROVE  r = q
  BY <1>1 DEF Sends, Others, Made
<1>2. ASSUME NEW r \in Requests, Tells(r) \/ Refuses(r) \/ Clears(r) \/ Writes(r)
      PROVE  FALSE
  <2>1. Made(r) /\ Others(r)
    BY <1>2 DEF Tells, Refuses, Clears, Writes
  <2>2. QED
    BY <2>1 DEF Others, Made
<1>3. ASSUME UNCHANGED request
      PROVE  FALSE
  BY <1>3 DEF Made
<1>4. QED
  BY <1>1, <1>2, <1>3, StepKinds DEF Complete

\* A request is changed by its own steps.
LEMMA ChangedBy ==
    ASSUME Calls, Rows, FormInv, [Next]_vars, NEW r \in Requests, Made(r), request'[r] # request[r]
    PROVE  Tells(r) \/ Refuses(r) \/ Clears(r) \/ Writes(r)
<1>1. ASSUME NEW q \in Requests, Sends(q) \/ Tells(q) \/ Refuses(q) \/ Clears(q) \/ Writes(q)
      PROVE  q = r
  BY <1>1 DEF Sends, Tells, Refuses, Clears, Writes, Others
<1>2. ~Sends(r)
  BY DEF Sends
<1>3. ~UNCHANGED request
  OBVIOUS
<1>4. QED
  BY <1>1, <1>2, <1>3, StepKinds DEF Complete

LEMMA FormStep ==
    ASSUME Calls, Rows, FormInv, [Next]_vars
    PROVE  FormInv'
<1>1. ASSUME NEW q \in Requests, Made(q)'
      PROVE  Form(request'[q])
  <2>1. CASE Made(q)
    <3>1. Kept(q) /\ Form(request[q])
      BY <2>1, RequestsLast DEF FormInv
    <3>2. QED
      BY <3>1 DEF Kept, Form
  <2>2. CASE ~Made(q)
    BY <1>1, <2>2, SentOnly DEF Sends
  <2>3. QED
    BY <2>1, <2>2
<1>2. ASSUME NEW kind \in {"create", "addBlock", "hold"}, Single(kind)
      PROVE  Single(kind)'
  <2>1. SUFFICES ASSUME NEW r \in Requests, NEW q \in Requests, Made(r)', Made(q)',
                        request'[r].kind = kind, request'[q].kind = kind, r # q
                 PROVE  FALSE
    BY DEF Single, Made
  <2>2. CASE Made(r) /\ Made(q)
    BY <1>2, <2>1, <2>2, RequestsLast DEF Kept, Single
  <2>3. ASSUME NEW n \in Requests, NEW o \in Requests, n # o, ~Made(n), Made(n)', Made(o)',
               request'[n].kind = kind, request'[o].kind = kind
        PROVE  FALSE
    <3>1. Sends(n)
      BY <2>3, SentOnly
    <3>2. request'[o] = request[o]
      BY <2>3, <3>1 DEF Sends, Others
    <3>3. Asked(kind)
      BY <2>3, <3>2 DEF Asked, Unused, Made
    <3>4. QED
      BY <2>3, <3>1, <3>3 DEF Sends
  <2>4. QED
    BY <2>1, <2>2, <2>3
<1>3. QED
  BY <1>1, <1>2 DEF FormInv, Made

-----------------------------------------------------------------------------
(* What a step may do to each row.                                         *)

ListingMay(l) ==
    \/ listing'[l] = listing[l]
    \/ listing[l] # Nothing /\ listing'[l] # Nothing /\ listing'[l].host = listing[l].host
    \/ /\ listing[l] # Nothing /\ listing'[l] = Nothing
       /\ StaysOf(l) = {} /\ stay' = stay /\ \A b \in Blocks : block'[b] # l
    \/ /\ l = New /\ listing[l] = Nothing /\ ~Ended("create") /\ Ended("create")'
       /\ listing'[l] # Nothing /\ listing'[l].host # Guest
BlockMay(b) ==
    \/ block'[b] = block[b]
    \/ block'[b] = Nothing
    \/ b = Block2 /\ Ended("addBlock")' /\ block'[b] # Nothing /\ listing'[block'[b]] # Nothing
StayMay(s) ==
    \/ stay'[s] = stay[s]
    \/ /\ stay[s] # Nothing /\ stay'[s] # Nothing
       /\ stay'[s].of = stay[s].of /\ (stay[s].over => stay'[s].over)
    \/ /\ s = Stay2 /\ stay[s] = Nothing /\ Ended("hold")'
       /\ stay'[s] # Nothing /\ listing'[stay'[s].of] # Nothing
ReviewsMay ==
    \/ review' = review
    \/ \E l \in Listings : StaysOf(l) = {} /\ review' = {v \in review : v.of # l}
    \/ \E r \in Requests : Rates(r) /\ review' = review \cup {Written(r)} /\ UNCHANGED stay
TablesMay ==
    /\ \A l \in Listings : ListingMay(l)
    /\ \A b \in Blocks : BlockMay(b)
    /\ \A s \in Stays : StayMay(s)
    /\ ReviewsMay

LEMMA EndsNow ==
    ASSUME NEW r \in Requests, NEW kind, request[r].kind = kind, Made(r), Becomes(r, "served", "done")
    PROVE  Ended(kind)'
<1>1. Answered(r)' /\ request'[r].kind = kind
  BY DEF Becomes, Kept, Answered, Made
<1>2. QED
  BY <1>1 DEF Ended

\* The only one of its kind has not ended yet.
LEMMA NotEnded ==
    ASSUME NEW r \in Requests, NEW kind, request[r].kind = kind, Made(r), ~Answered(r), Single(kind)
    PROVE  ~Ended(kind)
BY DEF Ended, Single, Answered

LEMMA CreatesTables ==
    ASSUME Calls, Rows, FormInv, TableInv, NEW r \in Requests, Writes(r), Creates(r)
    PROVE  Rows' /\ TablesMay
<1>1. request[r].of = New /\ request[r].by \in People /\ New \in Listings
  BY DEF Writes, Creates, FormInv, Form, Calls, Request, Made, Listings
<1>2. PICK new : new = [host |-> request[r].by, active |-> TRUE]
  OBVIOUS
<1>3. new \in ListingRow /\ new # Nothing /\ new.host # Guest
  <2>1. new \in ListingRow
    BY <1>1, <1>2, Zenon DEF ListingRow
  <2>2. new.host = request[r].by
    BY <1>2
  <2>3. QED
    BY <2>1, <2>2, NothingAssumption DEF Creates
<1>4. listing' = [listing EXCEPT ![New] = new]
  BY <1>1, <1>2 DEF Creates
<1>5. ~Ended("create") /\ Ended("create")'
  BY EndsNow, NotEnded DEF Writes, Creates, Answered, FormInv
<1>6. listing[New] = Nothing
  BY <1>5 DEF TableInv
<1>7. Rows'
  BY <1>1, <1>3, <1>4 DEF Rows, Creates
<1>8. \A l \in Listings : ListingMay(l)
  BY <1>1, <1>3, <1>4, <1>5, <1>6 DEF Rows, ListingMay
<1>9. QED
  BY <1>7, <1>8 DEF TablesMay, BlockMay, StayMay, ReviewsMay, Creates

LEMMA UpdatesTables ==
    ASSUME Calls, Rows, FormInv, TableInv, NEW r \in Requests, Writes(r), Updates(r)
    PROVE  Rows' /\ TablesMay
<1>1. PICK l \in Listings : l = request[r].of
  BY DEF Writes, Updates, FormInv, Form
<1>2. PICK old \in ListingRow : old = listing[l]
  BY <1>1 DEF Updates, Rows
<1>3. PICK on \in BOOLEAN : on = (request[r].kind = "resume")
  OBVIOUS
<1>4. PICK new : new = [old EXCEPT !.active = on]
  OBVIOUS
<1>5. new \in ListingRow /\ new.host = old.host
  <2>1. [old EXCEPT !.active = on] \in ListingRow
    BY Zenon DEF ListingRow
  <2>2. [old EXCEPT !.active = on].host = old.host
    BY DEF ListingRow
  <2>3. QED
    BY <1>4, <2>1, <2>2
<1>6. listing' = [listing EXCEPT ![l] = new]
  BY <1>1, <1>2, <1>3, <1>4, Zenon DEF Updates
<1>7. new # Nothing
  BY <1>5, NothingAssumption
<1>8. Rows'
  BY <1>5, <1>6 DEF Rows, Updates
<1>9. \A k \in Listings : ListingMay(k)
  BY <1>1, <1>2, <1>5, <1>6, <1>7 DEF Rows, ListingMay, Updates
<1>10. QED
  BY <1>8, <1>9 DEF TablesMay, BlockMay, StayMay, ReviewsMay, Updates

LEMMA RemovesTables ==
    ASSUME Calls, Rows, FormInv, NEW r \in Requests, Writes(r), Removes(r)
    PROVE  Rows' /\ TablesMay
<1>1. PICK l \in Listings : l = request[r].of
  BY DEF Writes, Removes, FormInv, Form
<1>2. /\ listing' = [listing EXCEPT ![l] = Nothing]
      /\ block' = [b \in Blocks |-> IF block[b] = l THEN Nothing ELSE block[b]]
      /\ review' = {v \in review : v.of # l} /\ stay' = stay
      /\ listing[l] # Nothing /\ StaysOf(l) = {}
  BY <1>1 DEF Removes, Erase
<1>3. Rows'
  BY <1>1, <1>2 DEF Rows
<1>4. l # Nothing
  BY NothingAssumption
<1>5. \A b \in Blocks : block'[b] # l /\ BlockMay(b)
  BY <1>2, <1>4 DEF BlockMay
<1>6. \A k \in Listings : ListingMay(k)
  BY <1>1, <1>2, <1>5 DEF Rows, ListingMay
<1>7. ReviewsMay /\ \A s \in Stays : StayMay(s)
  BY <1>2 DEF ReviewsMay, StayMay
<1>8. QED
  BY <1>3, <1>5, <1>6, <1>7 DEF TablesMay

LEMMA ClosesTables ==
    ASSUME Calls, Rows, FormInv, NEW r \in Requests, Writes(r), Closes(r)
    PROVE  Rows' /\ TablesMay
<1>1. PICK l \in Listings : l = request[r].of
  BY DEF Writes, Closes, FormInv, Form
<1>2. /\ block' = [block EXCEPT ![Block2] = l] /\ listing[l] # Nothing
      /\ UNCHANGED <<listing, stay, review>>
  BY <1>1 DEF Writes, Closes, FormInv, Form
<1>3. Block2 \in Blocks /\ l # Nothing
  BY NothingAssumption DEF Blocks
<1>4. Ended("addBlock")'
  BY EndsNow DEF Writes, Closes
<1>5. Rows'
  BY <1>2, <1>3 DEF Rows
<1>6. \A b \in Blocks : BlockMay(b)
  BY <1>2, <1>3, <1>4 DEF Rows, BlockMay
<1>7. QED
  BY <1>2, <1>5, <1>6 DEF TablesMay, ListingMay, StayMay, ReviewsMay

LEMMA OpensTables ==
    ASSUME Calls, Rows, FormInv, NEW r \in Requests, Writes(r), Opens(r)
    PROVE  Rows' /\ TablesMay
<1>1. PICK b : b = request[r].item
  OBVIOUS
<1>2. block' = [block EXCEPT ![b] = Nothing] /\ UNCHANGED <<listing, stay, review>>
  BY <1>1 DEF Opens
<1>3. Rows' /\ \A c \in Blocks : BlockMay(c)
  BY <1>2 DEF Rows, BlockMay
<1>4. QED
  BY <1>2, <1>3 DEF TablesMay, ListingMay, StayMay, ReviewsMay

LEMMA BooksTables ==
    ASSUME Calls, Rows, FormInv, TableInv, NEW r \in Requests, Writes(r), Books(r)
    PROVE  Rows' /\ TablesMay
<1>1. PICK l \in Listings : l = request[r].of
  BY DEF Writes, Books, FormInv, Form
<1>2. PICK new : new = [of |-> l, over |-> FALSE]
  OBVIOUS
<1>3. new \in StayRow /\ new # Nothing /\ new.of = l
  <2>1. new \in StayRow
    BY <1>2, Zenon DEF StayRow
  <2>2. QED
    BY <1>2, <2>1, NothingAssumption
<1>4. /\ stay' = [stay EXCEPT ![Stay2] = new] /\ listing[l] # Nothing
      /\ UNCHANGED <<listing, block, review>>
  BY <1>1, <1>2 DEF Writes, Books, FormInv, Form
<1>5. ~Ended("hold") /\ Ended("hold")'
  BY EndsNow, NotEnded DEF Writes, Books, Answered, FormInv
<1>6. stay[Stay2] = Nothing /\ Stay2 \in Stays
  BY <1>5 DEF TableInv, Stays
<1>7. Rows'
  BY <1>3, <1>4 DEF Rows
<1>8. \A s \in Stays : StayMay(s)
  BY <1>3, <1>4, <1>5, <1>6 DEF Rows, StayMay
<1>9. QED
  BY <1>4, <1>7, <1>8 DEF TablesMay, ListingMay, BlockMay, ReviewsMay

LEMMA RatesTables ==
    ASSUME Calls, Rows, FormInv, ReviewInv, NEW r \in Requests, Writes(r), Rates(r)
    PROVE  Rows' /\ TablesMay
<1>1. request[r].item \in Stays /\ stay[request[r].item] # Nothing
      /\ request[r].of = stay[request[r].item].of
  BY DEF Writes, Rates, FormInv, Form, ReviewInv, Stays
<1>2. stay[request[r].item] \in StayRow
  BY <1>1 DEF Rows
<1>3. Written(r) \in Review
  BY <1>1, <1>2 DEF Written, Review, StayRow
<1>4. Rows'
  BY <1>3 DEF Rows, Rates
<1>5. ReviewsMay
  BY DEF ReviewsMay, Rates
<1>6. QED
  BY <1>4, <1>5 DEF TablesMay, ListingMay, BlockMay, StayMay, Rates

LEMMA TablesStep ==
    ASSUME Calls, Rows, FormInv, TableInv, ReviewInv, [Next]_vars
    PROVE  Rows' /\ TablesMay
<1>1. ASSUME UNCHANGED tables
      PROVE  Rows' /\ TablesMay
  BY <1>1 DEF tables, Rows, TablesMay, ListingMay, BlockMay, StayMay, ReviewsMay
<1>2. ASSUME NEW r \in Requests, Sends(r) \/ Tells(r) \/ Refuses(r) \/ Clears(r)
      PROVE  UNCHANGED tables
  BY <1>2 DEF Sends, Tells, Refuses, Clears
<1>3. ASSUME NEW r \in Requests, Writes(r)
      PROVE  Rows' /\ TablesMay
  BY <1>3, CreatesTables, UpdatesTables, RemovesTables, ClosesTables, OpensTables, BooksTables,
     RatesTables DEF Writes
<1>4. ASSUME NEW s \in Stays, Complete(s)
      PROVE  Rows' /\ TablesMay
  <2>1. PICK old \in StayRow : old = stay[s]
    BY <1>4 DEF Complete, Rows
  <2>2. PICK new : new = [old EXCEPT !.over = TRUE]
    OBVIOUS
  <2>3. new \in StayRow /\ new.over /\ new.of = old.of
    <3>1. [old EXCEPT !.over = TRUE] \in StayRow /\ [old EXCEPT !.over = TRUE].over
      BY Zenon DEF StayRow
    <3>2. [old EXCEPT !.over = TRUE].of = old.of
      BY DEF StayRow
    <3>3. QED
      BY <2>2, <3>1, <3>2
  <2>4. stay' = [stay EXCEPT ![s] = new] /\ UNCHANGED <<listing, block, review>>
    BY <1>4, <2>1, <2>2, Zenon DEF Complete
  <2>5. new # Nothing
    BY <2>3, NothingAssumption
  <2>6. Rows'
    BY <2>3, <2>4 DEF Rows
  <2>7. \A t \in Stays : StayMay(t)
    BY <1>4, <2>1, <2>3, <2>4, <2>5 DEF Rows, StayMay, Complete
  <2>8. QED
    BY <2>4, <2>6, <2>7 DEF TablesMay, ListingMay, BlockMay, ReviewsMay
<1>5. QED
  BY <1>1, <1>2, <1>3, <1>4, StepKinds

-----------------------------------------------------------------------------
(* The invariants are kept.                                                *)

\* A booking stays, and so does the listing it is of.
LEMMA StaysLast ==
    ASSUME Rows, TableInv, TablesMay, NEW s \in Stays, stay[s] # Nothing
    PROVE  /\ stay'[s] # Nothing /\ stay'[s].of = stay[s].of
           /\ stay[s].over => stay'[s].over
           /\ listing'[stay[s].of] # Nothing
<1>1. PICK l \in Listings : l = stay[s].of
  BY DEF Rows, StayRow
<1>2. s \in StaysOf(l) /\ listing[l] # Nothing
  BY <1>1 DEF StaysOf, TableInv
<1>3. listing'[l] # Nothing
  BY <1>2 DEF TablesMay, ListingMay
<1>4. QED
  BY <1>1, <1>3 DEF TablesMay, StayMay

\* A listing that was settled is the same host's or gone.
LEMMA HostsLast ==
    ASSUME TablesMay, NEW l \in Listings, Settled(l), listing'[l] # Nothing
    PROVE  listing[l] # Nothing /\ listing'[l].host = listing[l].host
BY DEF TablesMay, ListingMay, Settled

LEMMA SettledLasts ==
    ASSUME Calls, Rows, FormInv, [Next]_vars, NEW l, Settled(l)
    PROVE  Settled(l)'
BY EndedLasts DEF Settled

LEMMA TableStep ==
    ASSUME Calls, Rows, FormInv, TableInv, ReviewInv, [Next]_vars
    PROVE  TableInv'
<1>1. TablesMay /\ Rows'
  BY TablesStep
<1>2. New \in Listings /\ Block2 \in Blocks /\ Stay1 \in Stays /\ Stay2 \in Stays /\ Stay1 # Stay2
  BY HostAssumption DEF Listings, Blocks, Stays
<1>3. listing'[New] # Nothing => Ended("create")'
  BY <1>1, <1>2, EndedLasts DEF TableInv, TablesMay, ListingMay
<1>4. block'[Block2] # Nothing => Ended("addBlock")'
  BY <1>1, <1>2, EndedLasts DEF TableInv, TablesMay, BlockMay
<1>5. stay'[Stay2] # Nothing => Ended("hold")'
  BY <1>1, <1>2, EndedLasts DEF TableInv, TablesMay, StayMay
<1>6. \A l \in Listings : listing'[l] # Nothing => listing'[l].host # Guest
  BY <1>1 DEF TableInv, TablesMay, ListingMay
<1>7. ASSUME NEW b \in Blocks, block'[b] # Nothing
      PROVE  listing'[block'[b]] # Nothing
  <2>1. CASE block'[b] = block[b]
    <3>1. PICK l \in Listings : l = block[b]
      BY <1>7, <2>1 DEF Rows
    <3>2. listing[l] # Nothing /\ block'[b] = l
      BY <1>7, <2>1, <3>1 DEF TableInv
    <3>3. listing'[l] # Nothing
      BY <1>1, <3>2 DEF TablesMay, ListingMay
    <3>4. QED
      BY <3>2, <3>3
  <2>2. QED
    BY <1>1, <1>7, <2>1 DEF TablesMay, BlockMay
<1>8. ASSUME NEW s \in Stays, stay'[s] # Nothing
      PROVE  listing'[stay'[s].of] # Nothing
  <2>1. CASE stay[s] # Nothing
    BY <1>1, <2>1, StaysLast
  <2>2. QED
    BY <1>1, <1>8, <2>1 DEF TablesMay, StayMay
<1>9. stay'[Stay1] # Nothing /\ stay'[Stay1].of = Theirs
  BY <1>1, <1>2, StaysLast DEF TableInv
<1>10. QED
  BY <1>3, <1>4, <1>5, <1>6, <1>7, <1>8, <1>9 DEF TableInv

LEMMA OwnerStep ==
    ASSUME Calls, Rows, FormInv, TableInv, ReviewInv, OwnerInv, [Next]_vars
    PROVE  OwnerInv'
<1>1. TablesMay
  BY TablesStep
<1>2. SUFFICES ASSUME NEW r \in Requests, Made(r)', request'[r].kind \in OwnerKinds,
                      request'[r].at = "checked"
               PROVE  /\ request'[r].by # Guest
                      /\ request'[r].of = New => Ended("create")'
                      /\ listing'[request'[r].of] # Nothing =>
                           listing'[request'[r].of].host = request'[r].by
  BY DEF OwnerInv, Made, Settled
<1>3. Made(r)
  BY <1>2, SentOnly DEF Sends
<1>4. PICK l \in Listings : l = request[r].of
  BY <1>2, <1>3, RequestsLast DEF FormInv, Form, Kept, OwnerKinds
<1>5. Kept(r) /\ request'[r].of = l /\ request[r].kind \in OwnerKinds
  BY <1>2, <1>3, <1>4, RequestsLast DEF Kept, OwnerKinds
<1>6. CASE request[r].at = "checked"
  <2>1. /\ request[r].by # Guest /\ Settled(l)
        /\ listing[l] # Nothing => listing[l].host = request[r].by
    BY <1>3, <1>4, <1>5, <1>6 DEF OwnerInv
  <2>2. Settled(l)'
    BY <2>1, SettledLasts
  <2>3. listing'[l] # Nothing => listing'[l].host = request[r].by
    BY <1>1, <2>1, HostsLast
  <2>4. QED
    BY <1>5, <2>1, <2>2, <2>3 DEF Kept, Settled
<1>7. CASE request[r].at # "checked"
  <2>1. Clears(r)
    BY <1>2, <1>3, <1>7, ChangedBy DEF Tells, Refuses, Writes, Becomes
  <2>2. /\ request[r].by # Guest /\ listing[l] # Nothing /\ listing[l].host = request[r].by
        /\ UNCHANGED listing
    BY <1>4, <1>5, <2>1 DEF Clears, tables
  <2>3. Settled(l)'
    BY <2>2, SettledLasts DEF TableInv, Settled
  <2>4. QED
    BY <1>5, <2>2, <2>3 DEF Kept, Settled
<1>8. QED
  BY <1>6, <1>7

LEMMA ReviewStep ==
    ASSUME Calls, Rows, FormInv, TableInv, ReviewInv, [Next]_vars
    PROVE  ReviewInv'
<1>1. TablesMay
  BY TablesStep
<1>2. SUFFICES ASSUME NEW r \in Requests, Made(r)', request'[r].kind = "review",
                      request'[r].at = "checked"
               PROVE  /\ stay'[request'[r].item] # Nothing /\ stay'[request'[r].item].over
                      /\ request'[r].of = stay'[request'[r].item].of
  BY DEF ReviewInv, Made
<1>3. Made(r)
  BY <1>2, SentOnly DEF Sends
<1>4. PICK s \in Stays : s = request[r].item
  BY <1>2, <1>3, RequestsLast DEF FormInv, Form, Kept, Stays
<1>5. Kept(r) /\ request'[r].item = s /\ request[r].kind = "review"
  BY <1>2, <1>3, <1>4, RequestsLast DEF Kept
<1>6. CASE request[r].at = "checked"
  <2>1. stay[s] # Nothing /\ stay[s].over /\ request'[r].of = stay[s].of
    BY <1>3, <1>4, <1>5, <1>6 DEF ReviewInv, Kept
  <2>2. QED
    BY <1>1, <1>5, <2>1, StaysLast
<1>7. CASE request[r].at # "checked"
  <2>1. Clears(r)
    BY <1>2, <1>3, <1>7, ChangedBy DEF Tells, Refuses, Writes, Becomes
  <2>2. UNCHANGED stay /\ stay[s] # Nothing /\ stay[s].over /\ request'[r].of = stay[s].of
    BY <1>4, <1>5, <2>1 DEF Clears, tables
  <2>3. QED
    BY <1>5, <2>2
<1>8. QED
  BY <1>6, <1>7

\* No review is lost: what could take it away takes only listings nobody booked.
LEMMA ReviewsLast ==
    ASSUME Rows, ReviewsAreEarned, ReviewsMay
    PROVE  review \subseteq review'
<1>1. ASSUME NEW l \in Listings, StaysOf(l) = {}, review' = {v \in review : v.of # l},
             NEW v \in review
      PROVE  v \in review'
  <2>1. v.stay \in Stays
    BY DEF Rows, Review
  <2>2. v.stay \in StaysOf(v.of)
    BY <2>1 DEF ReviewsAreEarned, StaysOf
  <2>3. QED
    BY <1>1, <2>2
<1>2. QED
  BY <1>1 DEF ReviewsMay

LEMMA EarnedStep ==
    ASSUME Calls, Rows, FormInv, TableInv, ReviewInv, ReviewsAreEarned, [Next]_vars
    PROVE  ReviewsAreEarned'
<1>1. TablesMay
  BY TablesStep
<1>2. ASSUME NEW v \in review
      PROVE  stay'[v.stay] # Nothing /\ stay'[v.stay].over /\ v.of = stay'[v.stay].of
  <2>1. PICK s \in Stays : s = v.stay
    BY DEF Rows, Review
  <2>2. stay[s] # Nothing /\ stay[s].over /\ v.of = stay[s].of
    BY <2>1 DEF ReviewsAreEarned
  <2>3. QED
    BY <1>1, <2>1, <2>2, StaysLast
<1>3. CASE review' \subseteq review
  BY <1>2, <1>3 DEF ReviewsAreEarned
<1>4. ASSUME NEW r \in Requests, Made(r), Rates(r), review' = review \cup {Written(r)}, UNCHANGED stay
      PROVE  ReviewsAreEarned'
  <2>1. /\ stay[request[r].item] # Nothing /\ stay[request[r].item].over
        /\ request[r].of = stay[request[r].item].of
    BY <1>4 DEF Rates, ReviewInv
  <2>2. PICK w : w = Written(r)
    OBVIOUS
  <2>3. w.stay = request[r].item /\ w.of = request[r].of
    BY <2>2 DEF Written
  <2>4. \A v \in review : v.stay # w.stay
    BY <1>4, <2>3 DEF Rates
  <2>5. stay'[w.stay] # Nothing /\ stay'[w.stay].over /\ w.of = stay'[w.stay].of
    BY <1>4, <2>1, <2>3
  <2>6. QED
    BY <1>2, <1>4, <2>2, <2>4, <2>5 DEF ReviewsAreEarned
<1>5. CASE UNCHANGED tables
  BY <1>3, <1>5 DEF tables
<1>6. ASSUME NEW r \in Requests, Writes(r)
      PROVE  ReviewsAreEarned'
  <2>1. CASE Rates(r)
    BY <1>4, <1>6, <2>1 DEF Writes, Rates
  <2>2. CASE ~Rates(r)
    <3>1. review' \subseteq review
      BY <1>6, <2>2 DEF Writes, Creates, Updates, Removes, Closes, Opens, Books, Erase
    <3>2. QED
      BY <1>3, <3>1
  <2>3. QED
    BY <2>1, <2>2
<1>7. QED
  BY <1>3, <1>5, <1>6, StepKinds DEF Complete, Sends, Tells, Refuses, Clears

LEMMA RefusalStep ==
    ASSUME Calls, Rows, FormInv, TableInv, ReviewInv, ReviewsAreEarned, RefusalInv, [Next]_vars
    PROVE  RefusalInv'
<1> DEFINE Booked(l) == \E s \in Stays : stay'[s] # Nothing /\ stay'[s].of = l
<1>1. TablesMay /\ review \subseteq review'
  BY TablesStep, ReviewsLast DEF TablesMay
<1>2. SUFFICES ASSUME NEW r \in Requests, Made(r)'
               PROVE  /\ SaysHasBookings(r)' => Booked(request'[r].of)
                      /\ SaysReviewed(r)' => \E v \in review' : v.stay = request'[r].item
                      /\ SaysForbidden(r)' /\ request'[r].by # Guest =>
                           /\ request'[r].of = New => Ended("create")'
                           /\ listing'[request'[r].of] # Nothing =>
                                listing'[request'[r].of].host # request'[r].by
  BY DEF RefusalInv, Made, Settled, StaysOf
<1>3. ASSUME ~Made(r)
      PROVE  ~SaysHasBookings(r)' /\ ~SaysReviewed(r)' /\ ~SaysForbidden(r)'
  BY <1>2, <1>3, SentOnly DEF Sends, SaysHasBookings, SaysReviewed, SaysForbidden
<1>4. ASSUME NEW l \in Listings, StaysOf(l) # {}
      PROVE  Booked(l)
  <2>1. PICK s \in Stays : stay[s] # Nothing /\ stay[s].of = l
    BY <1>4 DEF StaysOf
  <2>2. stay'[s] # Nothing /\ stay'[s].of = l
    BY <1>1, <2>1, StaysLast
  <2>3. QED
    BY <2>2
<1>5. ASSUME Made(r), request[r].kind \in HostKinds
      PROVE  request[r].of \in Listings /\ request'[r].of = request[r].of
  BY <1>5, RequestsLast DEF Kept, FormInv, Form, HostKinds, OwnerKinds
<1>6. ASSUME Made(r), NEW l \in Listings, Settled(l),
             listing[l] # Nothing => listing[l].host # request[r].by
      PROVE  Settled(l)' /\ (listing'[l] # Nothing => listing'[l].host # request[r].by)
  BY <1>1, <1>6, HostsLast, SettledLasts
\* What it says was true when it was answered, and still is.
<1>7. ASSUME Made(r), request'[r].result = request[r].result \/ Refuses(r)
      PROVE  /\ SaysHasBookings(r)' => StaysOf(request[r].of) # {}
             /\ SaysReviewed(r)' => \E v \in review : v.stay = request[r].item
             /\ SaysForbidden(r)' /\ request[r].by # Guest =>
                  /\ Settled(request[r].of)
                  /\ listing[request[r].of] # Nothing => listing[request[r].of].host # request[r].by
  <2>1. Kept(r)
    BY <1>7, RequestsLast
  <2>2. CASE request'[r].result = request[r].result
    BY <1>7, <2>1, <2>2 DEF Kept, RefusalInv, SaysHasBookings, SaysReviewed, SaysForbidden
  <2>3. CASE Refuses(r)
    BY <2>1, <2>3 DEF Kept, Refuses, Becomes, SaysHasBookings, SaysReviewed, SaysForbidden, TableInv,
                      Settled
  <2>4. QED
    BY <1>7, <2>2, <2>3
<1>8. CASE Made(r) /\ request'[r].result # request[r].result /\ ~Refuses(r)
  <2>1. request'[r].result = "done"
    BY <1>8, ChangedBy DEF Tells, Clears, Writes, Becomes
  <2>2. QED
    BY <2>1 DEF SaysHasBookings, SaysReviewed, SaysForbidden
<1>9. CASE Made(r) /\ (request'[r].result = request[r].result \/ Refuses(r))
  <2>1. Kept(r)
    BY <1>9, RequestsLast
  <2>2. SaysHasBookings(r)' => Booked(request'[r].of)
    <3>1. SUFFICES ASSUME SaysHasBookings(r)' PROVE Booked(request'[r].of)
      OBVIOUS
    <3>2. request[r].kind \in HostKinds
      BY <2>1, <3>1 DEF SaysHasBookings, Kept, HostKinds, OwnerKinds
    <3>3. PICK l \in Listings : l = request[r].of /\ request'[r].of = l
      BY <1>5, <1>9, <3>2
    <3>4. Booked(l)
      BY <1>4, <1>7, <1>9, <3>1, <3>3
    <3>5. QED
      BY <3>3, <3>4
  <2>3. SaysReviewed(r)' => \E v \in review' : v.stay = request'[r].item
    BY <1>1, <1>7, <1>9, <2>1 DEF Kept
  <2>4. ASSUME SaysForbidden(r)', request'[r].by # Guest
        PROVE  /\ request'[r].of = New => Ended("create")'
               /\ listing'[request'[r].of] # Nothing => listing'[request'[r].of].host # request'[r].by
    <3>1. PICK l \in Listings : l = request[r].of /\ request'[r].of = l
      BY <1>5, <1>9, <2>1, <2>4 DEF SaysForbidden, Kept
    <3>2. Settled(l) /\ (listing[l] # Nothing => listing[l].host # request[r].by)
      BY <1>7, <1>9, <2>1, <2>4, <3>1 DEF Kept
    <3>3. Settled(l)' /\ (listing'[l] # Nothing => listing'[l].host # request[r].by)
      BY <1>6, <1>9, <3>2
    <3>4. QED
      BY <2>1, <3>1, <3>3 DEF Kept, Settled
  <2>5. QED
    BY <2>2, <2>3, <2>4
<1>10. QED
  BY <1>3, <1>8, <1>9

-----------------------------------------------------------------------------
(* Who changes what.                                                       *)

\* Whoever changes a listing, or a window, that is there is its host.
LEMMA ChangesByHosts ==
    ASSUME Calls, Rows, FormInv, TableInv, ReviewInv, OwnerInv, [Next]_vars
    PROVE  /\ \A l \in Listings :
                listing[l] # Nothing /\ listing'[l] # listing[l] => Serving(listing[l].host)
           /\ \A b \in Blocks :
                block[b] # Nothing /\ block'[b] # block[b] => Serving(listing[block[b]].host)
<1> DEFINE Goal == /\ \A l \in Listings :
                        listing[l] # Nothing /\ listing'[l] # listing[l] => Serving(listing[l].host)
                   /\ \A b \in Blocks :
                        block[b] # Nothing /\ block'[b] # block[b] => Serving(listing[block[b]].host)
<1>1. ASSUME UNCHANGED <<listing, block>>
      PROVE  Goal
  BY <1>1
<1>2. ASSUME NEW r \in Requests, Writes(r)
      PROVE  Goal
  <2>1. /\ Made(r) /\ Becomes(r, "served", "done") /\ Form(request[r])
        /\ Creates(r) \/ Updates(r) \/ Removes(r) \/ Closes(r) \/ Opens(r) \/ Books(r) \/ Rates(r)
    BY <1>2 DEF Writes, FormInv
  <2>2. ASSUME NEW l \in Listings, l = request[r].of, listing[l] # Nothing,
               request[r].kind \in OwnerKinds, request[r].at = "checked"
        PROVE  Serving(listing[l].host)
    <3>1. request[r].by = listing[l].host
      BY <2>1, <2>2 DEF OwnerInv
    <3>2. QED
      BY <2>1, <2>2, <3>1 DEF Serving, Becomes, Made
  <2>3. CASE Creates(r)
    <3>1. ~Ended("create")
      BY <2>1, <2>3, NotEnded DEF Creates, Answered, FormInv
    <3>2. request[r].of = New /\ listing[New] = Nothing
      BY <2>1, <2>3, <3>1 DEF Creates, Form, TableInv
    <3>3. \A l \in Listings : listing[l] # Nothing => listing'[l] = listing[l]
      BY <2>3, <3>2 DEF Creates, Rows
    <3>4. QED
      BY <2>3, <3>3 DEF Creates
  <2>4. CASE Updates(r)
    <3>1. \A l \in Listings : listing'[l] # listing[l] => l = request[r].of
      BY <2>4, Zenon DEF Updates, Rows
    <3>2. request[r].kind \in OwnerKinds /\ UNCHANGED block /\ request[r].at = "checked"
      BY <2>4 DEF Updates, OwnerKinds
    <3>3. QED
      BY <2>2, <3>1, <3>2
  <2>5. CASE Removes(r)
    <3>1. /\ \A l \in Listings : listing'[l] # listing[l] => l = request[r].of
          /\ \A b \in Blocks : block'[b] # block[b] => block[b] = request[r].of
      BY <2>5 DEF Removes, Erase, Rows
    <3>2. /\ request[r].kind \in OwnerKinds /\ request[r].at = "checked"
          /\ listing[request[r].of] # Nothing /\ request[r].of \in Listings
      BY <2>1, <2>5 DEF Removes, OwnerKinds, Form
    <3>3. QED
      BY <2>2, <3>1, <3>2
  <2>6. CASE Closes(r)
    <3>1. ~Ended("addBlock")
      BY <2>1, <2>6, NotEnded DEF Closes, Answered, FormInv
    <3>2. request[r].item = Block2 /\ block[Block2] = Nothing
      BY <2>1, <2>6, <3>1 DEF Closes, Form, TableInv
    <3>3. \A b \in Blocks : block[b] # Nothing => block'[b] = block[b]
      BY <2>6, <3>2 DEF Closes, Rows
    <3>4. QED
      BY <2>6, <3>3 DEF Closes
  <2>7. CASE Opens(r)
    <3>1. \A b \in Blocks : block'[b] # block[b] => block[b] = request[r].of
      BY <2>7 DEF Opens, Rows
    <3>2. /\ request[r].kind \in OwnerKinds /\ request[r].at = "checked" /\ UNCHANGED listing
          /\ request[r].of \in Listings
      BY <2>1, <2>7 DEF Opens, OwnerKinds, Form
    <3>3. \A b \in Blocks : block[b] = request[r].of => listing[request[r].of] # Nothing
      BY <3>2, NothingAssumption DEF TableInv
    <3>4. QED
      BY <2>2, <3>1, <3>2, <3>3
  <2>8. CASE Books(r) \/ Rates(r)
    BY <1>1, <2>8 DEF Books, Rates
  <2>9. QED
    BY <2>1, <2>3, <2>4, <2>5, <2>6, <2>7, <2>8
<1>3. ASSUME NEW r \in Requests, Sends(r) \/ Tells(r) \/ Refuses(r) \/ Clears(r)
      PROVE  UNCHANGED <<listing, block>>
  BY <1>3 DEF Sends, Tells, Refuses, Clears, tables
<1>4. ASSUME NEW s \in Stays, Complete(s)
      PROVE  UNCHANGED <<listing, block>>
  BY <1>4 DEF Complete
<1>5. CASE UNCHANGED tables
  BY <1>5 DEF tables
<1>6. QED
  BY <1>1, <1>2, <1>3, <1>4, <1>5, StepKinds

-----------------------------------------------------------------------------
(* Lemmas about queries.                                                   *)

LEMMA AskEffect ==
    ASSUME NEW Data, NEW q \in Q!Query(Data)
    PROVE  Q!Ask(q) \in Q!Query(Data) /\ Q!Ask(q).fetch = "asked"
BY DEF Q!Query, Q!Ask

LEMMA PollEffect ==
    ASSUME NEW Data, NEW q \in Q!Query(Data)
    PROVE  /\ Q!Poll(q) \in Q!Query(Data)
           /\ Q!Poll(q) = q \/ (q.fetch = "none" /\ Q!Poll(q).fetch = "asked")
BY AskEffect DEF Q!Poll, Q!Fetching

LEMMA MountsEffect ==
    ASSUME NEW Data, NEW q \in Q!Query(Data), NEW r \in Q!Mounts(q)
    PROVE  r \in Q!Query(Data) /\ (r = q \/ (q.fetch = "none" /\ r.fetch = "asked"))
BY PollEffect DEF Q!Mounts

LEMMA MarkEffect ==
    ASSUME NEW Data, NEW q \in Q!Query(Data)
    PROVE  Q!Mark(q) \in Q!Query(Data) /\ Q!Mark(q).fetch = q.fetch /\ Q!Mark(q).stale
<1>1. Q!Mark(q) \in Q!Query(Data)
  BY Zenon DEF Q!Query, Q!Mark
<1>2. Q!Mark(q).fetch = q.fetch
  BY DEF Q!Query, Q!Mark
<1>3. Q!Mark(q).stale
  BY Zenon DEF Q!Query, Q!Mark
<1>4. QED
  BY <1>1, <1>2, <1>3

LEMMA InvalidateEffect ==
    ASSUME NEW Data, NEW q \in Q!Query(Data)
    PROVE  /\ Q!Invalidate(q) \in Q!Query(Data)
           /\ Q!Absorbs(q) => Q!Invalidate(q).fetch = q.fetch
           /\ ~Q!Absorbs(q) => Q!Invalidate(q).fetch = "asked"
<1>1. CASE Q!Absorbs(q)
  <2>1. Q!Invalidate(q) = Q!Mark(q)
    BY <1>1, Zenon DEF Q!Invalidate, Q!Mark
  <2>2. QED
    BY <1>1, <2>1, MarkEffect
<1>2. CASE ~Q!Absorbs(q)
  <2>1. Q!Invalidate(q) = Q!Mark(Q!Ask(q))
    BY <1>2, Zenon DEF Q!Invalidate, Q!Mark
  <2>2. QED
    BY <1>2, <2>1, AskEffect, MarkEffect
<1>3. QED
  BY <1>1, <1>2

LEMMA ReadEffect ==
    ASSUME NEW Data, NEW q \in Q!Query(Data), NEW value \in Data
    PROVE  Q!Read(q, value) \in Q!Query(Data) /\ Q!Read(q, value).fetch = "read"
           /\ Q!Read(q, value).seen = value
BY DEF Q!Query, Q!Read

LEMMA AnswerEffect ==
    ASSUME NEW Data, NEW q \in Q!Query(Data)
    PROVE  Q!Answer(q) \in Q!Query(Data) /\ Q!Answer(q).fetch = "none" /\ Q!Answer(q).data = q.seen
BY DEF Q!Query, Q!Answer, Q!Empty

\* A write was answered: the query is read again, or noted as crossed, or not to be trusted.
LEMMA OutdateEffect ==
    ASSUME NEW Data, NEW q \in Q!Query(Data), NEW mounted
    PROVE  /\ Outdate(q, mounted) \in Q!Query(Data)
           /\ \/ Crosses(q, mounted)
              \/ Outdate(q, mounted).fetch = "asked" /\ mounted
              \/ Outdate(q, mounted).fetch = "none" /\ Outdate(q, mounted).stale
           /\ (mounted /\ ~Q!Absorbs(q)) \/ Outdate(q, mounted).fetch = q.fetch
<1>1. CASE mounted
  BY <1>1, InvalidateEffect DEF Outdate, Crosses
<1>2. CASE ~mounted
  BY <1>2, MarkEffect DEF Outdate, Crosses, Q!Fetching
<1>3. QED
  BY <1>1, <1>2

-----------------------------------------------------------------------------
(* The two tabs.                                                           *)

\* What a step may do to the pages.
LEMMA TabSteps ==
    ASSUME [Next]_vars
    PROVE  \/ Service
           \/ \E l \in Listings : TogglePaused(l)
           \/ \E r \in Requests : HostAnswered(r) \/ ReviewAnswered(r)
           \/ HostRefocuses \/ MineFetch \/ SummaryReads \/ SummaryAnswered
           \/ \E p \in HostPages : HostGoes(p)
           \/ \E p \in GuestPages : GuestGoes(p)
<1>1. ASSUME NEW r \in Requests, Handle(r)
      PROVE  Service
  BY <1>1 DEF Handle, RolesGuard, AssertOwner, Create, Update, Remove, AddAvailability,
              RemoveAvailability, HoldRead, HoldInsert, ReviewRead, ReviewInsert
<1>2. ASSUME \/ OthersCall \/ Publish \/ PostReview \/ UNCHANGED vars
             \/ \E s \in Stays : Complete(s)
             \/ \E l \in Listings : DeleteForGood(l)
      PROVE  Service
  BY <1>2 DEF OthersCall, Publish, PostReview, Complete, DeleteForGood, HostCalls, Service, hostTab, vars
<1>3. QED
  BY <1>1, <1>2 DEF Next

LEMMA NextRequestIn ==
    ASSUME Unused # {}
    PROVE  NextRequest \in Requests
BY DEF Unused, NextRequest

\* Read anew, as it was, or as the server has it now.
MineMay ==
    \/ mine' = mine \/ mine' \in Q!Mounts(mine)
    \/ mine.fetch = "asked" /\ mine' = Q!Read(mine, OwnedBy(Owner))
    \/ mine.fetch = "read" /\ mine' = Q!Answer(mine)
    \/ /\ mine' = Outdate(mine, hostPage # "elsewhere")
       /\ Crossing("mine", mine, hostPage # "elsewhere")

LEMMA MineChanges ==
    ASSUME [Next]_vars
    PROVE  MineMay
<1>1. CASE Service \/ SummaryReads \/ SummaryAnswered \/ \E l \in Listings : TogglePaused(l)
  BY <1>1 DEF Service, SummaryReads, SummaryAnswered, TogglePaused, HostCalls, hostTab, MineMay
<1>2. ASSUME NEW r \in Requests, HostAnswered(r) \/ ReviewAnswered(r)
      PROVE  MineMay
  BY <1>2, Zenon DEF HostAnswered, ReviewAnswered, hostTab, MineMay
<1>3. CASE HostRefocuses
  BY <1>3 DEF HostRefocuses, Q!Mounts, MineMay
<1>4. CASE MineFetch
  BY <1>4 DEF MineFetch, MineMay
<1>5. ASSUME NEW p, HostGoes(p) \/ GuestGoes(p)
      PROVE  MineMay
  BY <1>5 DEF HostGoes, GuestGoes, hostTab, MineMay
<1>6. QED
  BY <1>1, <1>2, <1>3, <1>4, <1>5, TabSteps

LEMMA OwnedByType ==
    ASSUME Rows
    PROVE  OwnedBy(Owner) \in Board
BY DEF OwnedBy, Board, Rows

LEMMA MineTyped ==
    ASSUME Rows, mine \in Q!Query(Board), [Next]_vars
    PROVE  mine' \in Q!Query(Board)
BY MineChanges, OwnedByType, MountsEffect, ReadEffect, AnswerEffect, OutdateEffect DEF MineMay

LEMMA HostStep ==
    ASSUME Rows, HostTyped, [Next]_vars
    PROVE  HostTyped'
<1>1. mine' \in Q!Query(Board)
  BY MineTyped DEF HostTyped
<1>2. ASSUME NEW l \in Listings, TogglePaused(l)
      PROVE  HostTyped'
  <2>1. NextRequest \in Requests /\ hostPage = "listings" /\ UNCHANGED hostPage
    BY <1>2, NextRequestIn DEF TogglePaused, Send, Shows, HostCalls
  <2>2. toggling' = [toggling EXCEPT ![l] = NextRequest]
    BY <1>2 DEF TogglePaused
  <2>3. PICK r \in Requests : r = NextRequest
    BY <2>1
  <2>4. toggling' \in [Listings -> Requests \cup {Nothing}]
    BY <2>2, <2>3 DEF HostTyped
  <2>5. QED
    BY <1>1, <2>1, <2>4 DEF HostTyped
<1>3. ASSUME NEW p \in HostPages, HostGoes(p)
      PROVE  HostTyped'
  BY <1>1, <1>3 DEF HostGoes, HostPages, HostTyped
<1>4. CASE MineFetch
  <2>1. UNCHANGED hostPage /\ toggling' \in [Listings -> Requests \cup {Nothing}]
        /\ \A l \in Listings : toggling'[l] = toggling[l] \/ toggling'[l] = Nothing
    BY <1>4 DEF MineFetch, HostTyped
  <2>2. QED
    BY <1>1, <2>1 DEF HostTyped
<1>5. ASSUME UNCHANGED <<hostPage, toggling>>
      PROVE  HostTyped'
  BY <1>1, <1>5 DEF HostTyped
<1>6. CASE Service \/ HostRefocuses \/ SummaryReads \/ SummaryAnswered
  BY <1>5, <1>6 DEF Service, HostRefocuses, SummaryReads, SummaryAnswered, hostTab
<1>7. ASSUME NEW r, HostAnswered(r) \/ ReviewAnswered(r) \/ GuestGoes(r)
      PROVE  HostTyped'
  BY <1>5, <1>7 DEF HostAnswered, ReviewAnswered, GuestGoes, hostTab
<1>8. QED
  BY <1>2, <1>3, <1>4, <1>6, <1>7, TabSteps

LEMMA CrossedLasts ==
    ASSUME [Next]_vars, NEW name \in crossed
    PROVE  name \in crossed'
<1>1. CASE Service \/ HostRefocuses \/ MineFetch \/ SummaryReads \/ SummaryAnswered
           \/ \E l \in Listings : TogglePaused(l)
  BY <1>1 DEF Service, HostRefocuses, MineFetch, SummaryReads, SummaryAnswered, TogglePaused, HostCalls
<1>2. ASSUME NEW p, HostGoes(p) \/ GuestGoes(p)
      PROVE  name \in crossed'
  BY <1>2 DEF HostGoes, GuestGoes
<1>3. ASSUME NEW r, HostAnswered(r)
      PROVE  name \in crossed'
  BY <1>3 DEF HostAnswered, Crossing
<1>4. ASSUME NEW r, ReviewAnswered(r)
      PROVE  name \in crossed'
  BY <1>4 DEF ReviewAnswered, Crossing
<1>5. QED
  BY <1>1, <1>2, <1>3, <1>4, TabSteps

LEMMA OneMore ==
    ASSUME NEW n \in 0 .. MaxMoves, n < MaxMoves
    PROVE  n + 1 \in 0 .. MaxMoves
BY HostAssumption

LEMMA MovesStep ==
    ASSUME MovesTyped, [Next]_vars
    PROVE  MovesTyped'
<1>1. ASSUME UNCHANGED <<crossed, moves>>
      PROVE  MovesTyped'
  BY <1>1 DEF MovesTyped
<1>2. CASE Service \/ MineFetch \/ SummaryReads \/ SummaryAnswered
           \/ \E l \in Listings : TogglePaused(l)
  BY <1>1, <1>2 DEF Service, MineFetch, SummaryReads, SummaryAnswered, TogglePaused, HostCalls
<1>3. ASSUME Move, UNCHANGED crossed
      PROVE  MovesTyped'
  <2>1. moves' \in 0 .. MaxMoves
    BY <1>3, OneMore DEF Move, MovesTyped
  <2>2. QED
    BY <1>3, <2>1 DEF MovesTyped
<1>4. ASSUME NEW p, HostGoes(p) \/ GuestGoes(p) \/ HostRefocuses
      PROVE  MovesTyped'
  BY <1>3, <1>4 DEF HostGoes, GuestGoes, HostRefocuses
<1>5. ASSUME NEW r, HostAnswered(r) \/ ReviewAnswered(r)
      PROVE  MovesTyped'
  <2>1. UNCHANGED moves /\ crossed' \subseteq crossed \cup {"mine", "summary"}
    BY <1>5 DEF HostAnswered, ReviewAnswered, Crossing
  <2>2. QED
    BY <2>1 DEF MovesTyped
<1>6. QED
  BY <1>2, <1>4, <1>5, TabSteps

-----------------------------------------------------------------------------
(* The host's list.                                                        *)

\* It changes only by what his own tab asked for.
LEMMA BoardChanges ==
    ASSUME Calls, Rows, FormInv, TableInv, OwnerInv, [Next]_vars, OwnedBy(Owner)' # OwnedBy(Owner)
    PROVE  \E r \in Requests : AnsweredLate(r)'
<1>1. ~UNCHANGED listing
  BY DEF OwnedBy
<1>2. PICK r \in Requests : Writes(r)
  BY <1>1, StepKinds DEF Complete, Sends, Tells, Refuses, Clears, tables
<1>3. Creates(r) \/ Updates(r) \/ Removes(r)
  BY <1>1, <1>2 DEF Writes, Closes, Opens, Books, Rates
<1>4. /\ Made(r) /\ Becomes(r, "served", "done") /\ Form(request[r])
      /\ request[r].kind \in {"create", "pause", "resume", "remove"}
  BY <1>2, <1>3 DEF Writes, Creates, Updates, Removes, FormInv
<1>5. PICK l \in Listings : l = request[r].of
  BY <1>4 DEF Form
<1>6. \A k \in Listings \ {l} : listing'[k] = listing[k]
  BY <1>3, <1>5 DEF Creates, Updates, Removes, Erase, Rows
<1>7. ASSUME request[r].by # Owner
      PROVE  FALSE
  <2>1. listing[l] = Nothing \/ listing[l].host # Owner
    <3>1. CASE Creates(r)
      <4>1. ~Ended("create")
        BY <1>4, <3>1, NotEnded DEF Creates, Answered, FormInv
      <4>2. QED
        BY <1>4, <1>5, <3>1, <4>1 DEF Creates, Form, TableInv
    <3>2. CASE Updates(r) \/ Removes(r)
      BY <1>4, <1>5, <1>7, <3>2 DEF Updates, Removes, OwnerInv, OwnerKinds
    <3>3. QED
      BY <1>3, <3>1, <3>2
  <2>2. listing'[l] = Nothing \/ listing'[l].host # Owner
    <3>1. CASE Creates(r)
      <4>1. PICK new : new = [host |-> request[r].by, active |-> TRUE]
        OBVIOUS
      <4>2. new.host # Owner
        BY <1>7, <4>1
      <4>3. listing'[l] = new
        BY <1>5, <3>1, <4>1 DEF Creates, Rows
      <4>4. QED
        BY <4>2, <4>3
    <3>2. CASE Updates(r)
      <4>1. PICK old \in ListingRow : old = listing[l]
        BY <1>5, <3>2 DEF Updates, Rows
      <4>2. PICK on \in BOOLEAN : on = (request[r].kind = "resume")
        OBVIOUS
      <4>3. listing'[l] = [old EXCEPT !.active = on]
        BY <1>5, <3>2, <4>1, <4>2, Zenon DEF Updates, Rows
      <4>4. [old EXCEPT !.active = on].host = old.host
        BY DEF ListingRow
      <4>5. QED
        BY <2>1, <3>2, <4>1, <4>3, <4>4, <1>5 DEF Updates
    <3>3. CASE Removes(r)
      BY <1>5, <3>3 DEF Removes, Erase, Rows
    <3>4. QED
      BY <1>3, <3>1, <3>2, <3>3
  <2>3. \A k \in Listings : OwnedBy(Owner)'[k] = OwnedBy(Owner)[k]
    BY <1>6, <2>1, <2>2 DEF OwnedBy
  <2>4. OwnedBy(Owner)' = OwnedBy(Owner)
    BY <2>3 DEF OwnedBy
  <2>5. QED
    BY <2>4
<1>8. request[r].tab
  BY <1>4, <1>7 DEF Form
<1>9. AnsweredLate(r)'
  BY <1>4, <1>7, <1>8, Zenon DEF AnsweredLate, Becomes, Kept, Made
<1>10. QED
  BY <1>9

LEMMA TellsLast ==
    ASSUME Calls, Rows, FormInv, [Next]_vars, NEW r \in Requests, AnsweredLate(r), ~AnsweredLate(r)'
    PROVE  HostAnswered(r)
<1>1. request'[r] # request[r]
  BY DEF AnsweredLate, Made
<1>2. Made(r) /\ request[r].at = "served" /\ request[r].by = Owner
  BY DEF AnsweredLate
<1>3. Tells(r) \/ Refuses(r) \/ Clears(r) \/ Writes(r)
  BY <1>1, <1>2, ChangedBy
<1>4. ~Writes(r)
  BY <1>2 DEF Writes, Creates, Updates, Removes, Closes, Opens, Books, Rates
<1>5. Tells(r)
  BY <1>2, <1>3, <1>4 DEF Refuses, Clears
<1>6. ~ReviewAnswered(r)
  BY <1>2, HostAssumption DEF ReviewAnswered, GuestTold
<1>7. QED
  BY <1>5, <1>6 DEF Tells

LEMMA MineStep ==
    ASSUME Calls, Rows, FormInv, TableInv, OwnerInv, HostTyped, MineInv, [Next]_vars
    PROVE  MineInv'
<1>1. mine \in Q!Query(Board)
  BY DEF HostTyped
<1>2. ASSUME mine' = Outdate(mine, hostPage # "elsewhere"),
             Crossing("mine", mine, hostPage # "elsewhere")
      PROVE  MineInv'
  <2>1. PICK mounted : mounted = (hostPage # "elsewhere")
    OBVIOUS
  <2>2. CASE Crosses(mine, mounted)
    <3>1. "mine" \in crossed'
      BY <1>2, <2>1, <2>2 DEF Crossing
    <3>2. QED
      BY <3>1 DEF MineInv
  <2>3. CASE ~Crosses(mine, mounted)
    <3>1. mine'.fetch = "asked" \/ (mine'.fetch = "none" /\ mine'.stale)
      BY <1>1, <1>2, <2>1, <2>3, OutdateEffect
    <3>2. QED
      BY <3>1 DEF MineInv
  <2>4. QED
    BY <2>2, <2>3
<1>3. ASSUME "mine" \in crossed
      PROVE  MineInv'
  BY <1>3, CrossedLasts DEF MineInv
<1>4. ASSUME NEW r \in Requests, AnsweredLate(r)
      PROVE  MineInv'
  <2>1. CASE AnsweredLate(r)'
    BY <2>1 DEF MineInv
  <2>2. CASE ~AnsweredLate(r)'
    <3>1. HostAnswered(r) /\ request[r].result = "done"
      BY <1>4, <2>2, TellsLast DEF AnsweredLate
    <3>2. QED
      BY <1>2, <3>1 DEF HostAnswered
  <2>3. QED
    BY <2>1, <2>2
<1>5. ASSUME \/ mine.fetch = "asked"
             \/ mine.fetch = "read" /\ mine.seen = OwnedBy(Owner)
             \/ mine.fetch = "none" /\ (mine.stale \/ ~Q!Loaded(mine) \/ mine.data = OwnedBy(Owner))
      PROVE  MineInv'
  <2>1. CASE OwnedBy(Owner)' # OwnedBy(Owner)
    BY <2>1, BoardChanges DEF MineInv
  <2>2. CASE OwnedBy(Owner)' = OwnedBy(Owner)
    <3>1. CASE mine' = mine
      BY <1>5, <2>2, <3>1 DEF MineInv, Q!Loaded
    <3>2. CASE mine' \in Q!Mounts(mine) /\ mine' # mine
      BY <1>1, <3>2, MountsEffect DEF MineInv
    <3>3. CASE mine.fetch = "asked" /\ mine' = Q!Read(mine, OwnedBy(Owner))
      BY <1>1, <2>2, <3>3, OwnedByType, ReadEffect DEF MineInv
    <3>4. CASE mine.fetch = "read" /\ mine' = Q!Answer(mine)
      BY <1>1, <1>5, <2>2, <3>4, AnswerEffect DEF MineInv
    <3>5. QED
      BY <1>2, <3>1, <3>2, <3>3, <3>4, MineChanges DEF MineMay
  <2>3. QED
    BY <2>1, <2>2
<1>6. QED
  BY <1>3, <1>4, <1>5 DEF MineInv

-----------------------------------------------------------------------------
(* The guest's review.                                                     *)

LEMMA FiniteStep ==
    ASSUME Calls, Rows, FormInv, TableInv, ReviewInv, [Next]_vars, IsFiniteSet(review)
    PROVE  IsFiniteSet(review')
<1>1. ReviewsMay
  BY TablesStep DEF TablesMay
<1>2. ASSUME NEW r \in Requests, review' = review \cup {Written(r)}
      PROVE  IsFiniteSet(review')
  BY <1>2, FS_AddElement
<1>3. ASSUME review' \subseteq review
      PROVE  IsFiniteSet(review')
  BY <1>3, FS_Subset
<1>4. QED
  BY <1>1, <1>2, <1>3 DEF ReviewsMay

LEMMA WrittenStep ==
    ASSUME Calls, Rows, FormInv, TableInv, ReviewInv, ReviewsAreEarned, WrittenInv, [Next]_vars
    PROVE  WrittenInv'
<1>1. review \subseteq review'
  BY TablesStep, ReviewsLast DEF TablesMay
<1>2. SUFFICES ASSUME NEW r \in Requests, Made(r)', request'[r].kind = "review",
                      request'[r].result = "done"
               PROVE  \E v \in review' : v.by = r /\ v.of = Theirs
  BY DEF WrittenInv, Made
<1>3. Made(r)
  BY <1>2, SentOnly DEF Sends
<1>4. request[r].kind = "review"
  BY <1>2, <1>3, RequestsLast DEF Kept
<1>5. CASE request[r].result = "done"
  BY <1>1, <1>3, <1>4, <1>5 DEF WrittenInv
<1>6. CASE request[r].result # "done"
  <2>1. Writes(r)
    BY <1>2, <1>3, <1>6, ChangedBy DEF Tells, Refuses, Clears, Becomes
  <2>2. Rates(r)
    BY <1>4, <2>1 DEF Writes, Creates, Updates, Removes, Closes, Opens, Books
  <2>3. request[r].item = Stay1
    BY <1>3, <1>4 DEF FormInv, Form
  <2>4. request[r].of = Theirs
    BY <1>3, <1>4, <2>2, <2>3 DEF Rates, ReviewInv, TableInv
  <2>5. Written(r).by = r /\ Written(r).of = Theirs /\ Written(r) \in review'
    BY <2>2, <2>4 DEF Written, Rates
  <2>6. QED
    BY <2>5
<1>7. QED
  BY <1>5, <1>6

Parts == [list : (SUBSET Review) \cup {Nothing}, count : Nat \cup {Nothing}]
TheirReviews == {v \in review : v.of = Theirs}

\* Each statement of the page's read brings what the table holds, and leaves the other's.
LEMMA ReadsEffect ==
    ASSUME Rows, IsFiniteSet(review), GuestTyped, SummaryReads
    PROVE  /\ summary.fetch = "asked"
           /\ \E read \in Parts :
                /\ read.list = part.list \/ read.list = TheirReviews
                /\ read.count = part.count \/ read.count = Cardinality(TheirReviews)
                /\ \/ /\ read.list # Nothing /\ read.count # Nothing /\ read \in Reviews
                      /\ summary' = Q!Read(summary, read) /\ part' = NoPart
                   \/ part' = read /\ UNCHANGED summary
<1> DEFINE Goal(read) ==
             /\ read.list = part.list \/ read.list = TheirReviews
             /\ read.count = part.count \/ read.count = Cardinality(TheirReviews)
             /\ \/ /\ read.list # Nothing /\ read.count # Nothing /\ read \in Reviews
                   /\ summary' = Q!Read(summary, read) /\ part' = NoPart
                \/ part' = read /\ UNCHANGED summary
<1>1. PICK old \in Parts : old = part
  BY DEF GuestTyped, Parts
<1>2. PICK all \in SUBSET Review : all = TheirReviews
  BY DEF TheirReviews, Rows
<1>3. PICK n \in Nat : n = Cardinality(TheirReviews)
  <2>1. IsFiniteSet(TheirReviews)
    BY FS_Subset DEF TheirReviews
  <2>2. QED
    BY <2>1, FS_CardinalityType
<1>4. PICK read \in {[part EXCEPT !.list = TheirReviews], [part EXCEPT !.count = Cardinality(TheirReviews)]} :
         IF read.list # Nothing /\ read.count # Nothing
           THEN summary' = Q!Read(summary, read) /\ part' = NoPart
           ELSE part' = read /\ UNCHANGED summary
  BY DEF SummaryReads, TheirReviews
<1>5. /\ read \in Parts
      /\ read.list = part.list \/ read.list = TheirReviews
      /\ read.count = part.count \/ read.count = Cardinality(TheirReviews)
  <2>1. CASE read = [old EXCEPT !.list = all]
    BY <1>1, <1>2, <2>1 DEF Parts
  <2>2. CASE read = [old EXCEPT !.count = n]
    BY <1>1, <1>3, <2>2 DEF Parts
  <2>3. QED
    BY <1>1, <1>2, <1>3, <1>4, <2>1, <2>2
<1>6. read.list # Nothing /\ read.count # Nothing => read \in Reviews
  BY <1>5 DEF Parts, Reviews
<1>7. Goal(read)
  BY <1>4, <1>5, <1>6, Zenon
<1>8. summary.fetch = "asked"
  BY DEF SummaryReads
<1>9. QED
  BY <1>5, <1>7, <1>8

\* What a step may do to the reviews of the page, apart from reading them.
SummaryMay ==
    \/ UNCHANGED <<summary, part>>
    \/ summary' \in Q!Mounts(summary) /\ part' = part
    \/ summary.fetch = "read" /\ summary' = Q!Answer(summary) /\ part' = part
    \/ LET mounted == guestPage = "listing" IN
         /\ summary' = Outdate(summary, mounted)
         /\ part' = IF mounted /\ ~Q!Absorbs(summary) THEN NoPart ELSE part
         /\ Crossing("summary", summary, mounted)

LEMMA SummaryChanges ==
    ASSUME [Next]_vars
    PROVE  SummaryReads \/ (SummaryMay /\ guestPage' = guestPage)
           \/ (SummaryMay /\ guestPage' \in GuestPages)
<1> DEFINE Goal == SummaryMay /\ (guestPage' = guestPage \/ guestPage' \in GuestPages)
<1>1. CASE Service \/ HostRefocuses \/ MineFetch \/ \E l \in Listings : TogglePaused(l)
  BY <1>1 DEF Service, HostRefocuses, MineFetch, TogglePaused, HostCalls, guestTab, SummaryMay
<1>2. ASSUME NEW r \in Requests, HostAnswered(r) \/ ReviewAnswered(r)
      PROVE  Goal
  BY <1>2, Zenon DEF HostAnswered, ReviewAnswered, guestTab, SummaryMay
<1>3. ASSUME NEW p, HostGoes(p)
      PROVE  Goal
  BY <1>3 DEF HostGoes, guestTab, SummaryMay
<1>4. ASSUME NEW p \in GuestPages, GuestGoes(p)
      PROVE  Goal
  BY <1>4 DEF GuestGoes, SummaryMay
<1>5. CASE SummaryAnswered
  BY <1>5 DEF SummaryAnswered, SummaryMay
<1>6. QED
  BY <1>1, <1>2, <1>3, <1>4, <1>5, TabSteps

LEMMA GuestStep ==
    ASSUME Rows, IsFiniteSet(review), GuestTyped, [Next]_vars
    PROVE  GuestTyped'
<1>1. summary \in Q!Query(Reviews) /\ part \in Parts /\ NoPart \in Parts
  BY DEF GuestTyped, Parts, NoPart
<1>2. CASE SummaryReads
  <2>1. guestPage' = guestPage
    BY <1>2 DEF SummaryReads
  <2>2. PICK read \in Parts :
          \/ /\ read \in Reviews
             /\ summary' = Q!Read(summary, read) /\ part' = NoPart
          \/ part' = read /\ UNCHANGED summary
    BY <1>2, ReadsEffect
  <2>3. summary' \in Q!Query(Reviews) /\ part' \in Parts
        /\ (summary'.fetch # "asked" => part' = NoPart)
    BY <1>1, <1>2, <2>2, ReadEffect DEF SummaryReads
  <2>4. QED
    BY <2>1, <2>3 DEF GuestTyped, Parts, NoPart
<1>3. CASE SummaryMay /\ (guestPage' = guestPage \/ guestPage' \in GuestPages)
  <2>1. guestPage' \in {"elsewhere", "trips", "listing"}
    BY <1>3 DEF GuestTyped, GuestPages
  <2>2. summary' \in Q!Query(Reviews) /\ part' \in Parts
        /\ (summary'.fetch # "asked" => part' = NoPart)
    <3>1. CASE UNCHANGED <<summary, part>>
      BY <1>1, <3>1 DEF GuestTyped
    <3>2. CASE summary' \in Q!Mounts(summary) /\ part' = part
      BY <1>1, <3>2, MountsEffect DEF GuestTyped
    <3>3. CASE summary.fetch = "read" /\ summary' = Q!Answer(summary) /\ part' = part
      BY <1>1, <3>3, AnswerEffect DEF GuestTyped
    <3>4. ASSUME NEW mounted, summary' = Outdate(summary, mounted),
                 part' = IF mounted /\ ~Q!Absorbs(summary) THEN NoPart ELSE part
          PROVE  summary' \in Q!Query(Reviews) /\ part' \in Parts
                 /\ (summary'.fetch # "asked" => part' = NoPart)
      BY <1>1, <3>4, OutdateEffect DEF GuestTyped
    <3>5. QED
      BY <1>3, <3>1, <3>2, <3>3, <3>4 DEF SummaryMay
  <2>3. QED
    BY <2>1, <2>2 DEF GuestTyped, Parts, NoPart
<1>4. QED
  BY <1>2, <1>3, SummaryChanges

LEMMA AcceptedBy ==
    ASSUME Calls, Rows, FormInv, [Next]_vars, NEW r \in Requests, Accepted(r)', ~Accepted(r)
    PROVE  ReviewAnswered(r) /\ request[r].result = "done"
<1>1. Made(r)' /\ request'[r].kind = "review" /\ request'[r].at = "told" /\ request'[r].result = "done"
  BY DEF Accepted, Made
<1>2. Made(r)
  BY <1>1, SentOnly DEF Sends
<1>3. Kept(r)
  BY <1>2, RequestsLast
<1>4. request'[r] # request[r]
  BY <1>2 DEF Accepted, Made
<1>5. Tells(r)
  BY <1>1, <1>2, <1>4, ChangedBy DEF Refuses, Clears, Writes, Becomes
<1>6. request[r].kind = "review" /\ request[r].tab
  BY <1>3 DEF Kept, Accepted
<1>7. request[r].by # Owner
  BY <1>2, <1>6 DEF FormInv, Form
<1>8. ~HostAnswered(r)
  BY <1>7 DEF HostAnswered, HostTold
<1>9. QED
  BY <1>1, <1>5, <1>8 DEF Tells, Becomes

\* What was accepted is counted and listed by whatever reads the table from then on.
LEMMA AcceptedWritten ==
    ASSUME IsFiniteSet(review), WrittenInv, NEW r \in Requests, Accepted(r)
    PROVE  Cardinality(TheirReviews) >= 1 /\ \E v \in TheirReviews : v.by = r
<1>1. \E v \in TheirReviews : v.by = r
  BY DEF WrittenInv, Accepted, Made, TheirReviews
<1>2. IsFiniteSet(TheirReviews)
  BY FS_Subset DEF TheirReviews
<1>3. Cardinality(TheirReviews) \in Nat /\ Cardinality(TheirReviews) # 0
  BY <1>1, <1>2, FS_CardinalityType, FS_EmptySet
<1>4. QED
  BY <1>1, <1>3

LEMMA OutdatedShown ==
    ASSUME GuestTyped, NEW r, NEW mounted, summary' = Outdate(summary, mounted),
           part' = IF mounted /\ ~Q!Absorbs(summary) THEN NoPart ELSE part,
           Crossing("summary", summary, mounted)
    PROVE  Shown(r)'
<1>1. CASE Crosses(summary, mounted)
  <2>1. "summary" \in crossed'
    BY <1>1 DEF Crossing
  <2>2. QED
    BY <2>1 DEF Shown
<1>2. CASE ~Crosses(summary, mounted)
  <2>1. \/ summary'.fetch = "asked" /\ mounted
        \/ summary'.fetch = "none" /\ summary'.stale
    BY <1>2, OutdateEffect DEF GuestTyped
  <2>2. CASE summary'.fetch = "asked" /\ mounted
    <3>1. part' = NoPart
      BY <1>2, <2>2 DEF Crosses
    <3>2. part'.list = Nothing /\ part'.count = Nothing
      BY <3>1 DEF NoPart
    <3>3. QED
      BY <2>2, <3>2 DEF Shown
  <2>3. QED
    BY <2>1, <2>2 DEF Shown
<1>3. QED
  BY <1>1, <1>2

LEMMA SummaryStep ==
    ASSUME Calls, Rows, FormInv, IsFiniteSet(review), WrittenInv, GuestTyped, SummaryInv, [Next]_vars
    PROVE  SummaryInv'
<1>1. SUFFICES ASSUME NEW r \in Requests, Accepted(r)'
               PROVE  Shown(r)'
  BY DEF SummaryInv
<1>2. CASE ~Accepted(r)
  <2>1. ReviewAnswered(r) /\ request[r].result = "done"
    BY <1>1, <1>2, AcceptedBy
  <2>2. PICK mounted : mounted = (guestPage = "listing")
    OBVIOUS
  <2>3. /\ summary' = Outdate(summary, mounted)
        /\ part' = IF mounted /\ ~Q!Absorbs(summary) THEN NoPart ELSE part
        /\ Crossing("summary", summary, mounted)
    BY <2>1, <2>2, Zenon DEF ReviewAnswered
  <2>4. QED
    BY <2>3, OutdatedShown
<1>3. CASE Accepted(r)
  <2>1. Shown(r) /\ summary \in Q!Query(Reviews)
    BY <1>3 DEF SummaryInv, GuestTyped
  <2>2. CASE "summary" \in crossed
    BY <2>2, CrossedLasts DEF Shown
  <2>3. CASE "summary" \notin crossed /\ SummaryReads
    <3>1. PICK read \in Parts :
            /\ read.list = part.list \/ read.list = TheirReviews
            /\ read.count = part.count \/ read.count = Cardinality(TheirReviews)
            /\ \/ /\ read.list # Nothing /\ read.count # Nothing /\ read \in Reviews
                  /\ summary' = Q!Read(summary, read) /\ part' = NoPart
               \/ part' = read /\ UNCHANGED summary
      BY <2>3, ReadsEffect
    <3>2. /\ summary.fetch = "asked"
          /\ part.list # Nothing => \E v \in part.list : v.by = r
          /\ part.count # Nothing => part.count >= 1
      BY <2>1, <2>3 DEF Shown, SummaryReads
    <3>3. Cardinality(TheirReviews) >= 1 /\ \E v \in TheirReviews : v.by = r
      BY <1>3, AcceptedWritten
    <3>4. /\ read.list # Nothing => \E v \in read.list : v.by = r
          /\ read.count # Nothing => read.count >= 1
      BY <3>1, <3>2, <3>3
    <3>5. CASE /\ read.list # Nothing /\ read.count # Nothing /\ read \in Reviews
               /\ summary' = Q!Read(summary, read)
      BY <2>1, <3>4, <3>5, ReadEffect DEF Shown, Includes
    <3>6. CASE part' = read /\ UNCHANGED summary
      BY <3>2, <3>4, <3>6 DEF Shown
    <3>7. QED
      BY <3>1, <3>5, <3>6
  <2>4. CASE "summary" \notin crossed /\ SummaryMay
    <3>1. CASE UNCHANGED <<summary, part>>
      BY <2>1, <2>4, <3>1 DEF Shown, Q!Loaded, Includes
    <3>2. CASE summary' \in Q!Mounts(summary) /\ part' = part /\ summary' # summary
      <4>1. summary.fetch = "none" /\ summary'.fetch = "asked"
        BY <2>1, <3>2, MountsEffect
      <4>2. part'.list = Nothing /\ part'.count = Nothing
        BY <3>2, <4>1 DEF GuestTyped, NoPart
      <4>3. QED
        BY <4>1, <4>2 DEF Shown
    <3>3. CASE summary.fetch = "read" /\ summary' = Q!Answer(summary) /\ part' = part
      <4>1. Includes(summary.seen, r)
        BY <2>1, <2>4, <3>3 DEF Shown
      <4>2. summary'.fetch = "none" /\ summary'.data = summary.seen
        BY <2>1, <3>3, AnswerEffect
      <4>3. QED
        BY <4>1, <4>2 DEF Shown, Includes
    <3>4. ASSUME NEW mounted, summary' = Outdate(summary, mounted),
                 part' = IF mounted /\ ~Q!Absorbs(summary) THEN NoPart ELSE part,
                 Crossing("summary", summary, mounted)
          PROVE  Shown(r)'
      BY <3>4, OutdatedShown
    <3>5. QED
      BY <2>4, <3>1, <3>2, <3>3, <3>4 DEF SummaryMay
  <2>5. QED
    BY <2>2, <2>3, <2>4, SummaryChanges
<1>4. QED
  BY <1>2, <1>3

-----------------------------------------------------------------------------
(* The inductive invariant, and what follows.                              *)

ServiceInv ==
    /\ Rows /\ Calls /\ FormInv /\ TableInv /\ OwnerInv /\ ReviewInv /\ RefusalInv
    /\ ReviewsAreEarned /\ WrittenInv /\ IsFiniteSet(review)
TabInv == HostTyped /\ GuestTyped /\ MovesTyped /\ MineInv /\ SummaryInv
HostInv == ServiceInv /\ TabInv

LEMMA InvInit ==
    ASSUME Init
    PROVE  HostInv
<1>1. /\ Mine \in Listings /\ Theirs \in Listings /\ New \in Listings /\ Owner \in People
      /\ Other \in People /\ Owner # Guest /\ Other # Guest
      /\ Stay1 \in Stays /\ Stay2 \in Stays /\ Block1 \in Blocks /\ Block2 \in Blocks
      /\ Stay1 # Stay2 /\ Block1 # Block2 /\ Mine # Theirs /\ Mine # New /\ Theirs # New
  BY HostAssumption DEF Listings, People, Stays, Blocks
<1>2. /\ \A l \in Listings : listing[l] \in ListingRow \cup {Nothing}
      /\ \A l \in Listings : listing[l] # Nothing => l # New /\ listing[l].host # Guest
      /\ listing[New] = Nothing /\ listing[Mine] # Nothing /\ listing[Theirs] # Nothing
  <2>1. \A l \in Listings \ {New} :
          /\ listing[l] = [host |-> IF l = Mine THEN Owner ELSE Other, active |-> TRUE]
          /\ listing[l].host = IF l = Mine THEN Owner ELSE Other
    BY DEF Init
  <2>2. \A l \in Listings \ {New} : listing[l] \in ListingRow
    <3>1. \A h \in People : [host |-> h, active |-> TRUE] \in ListingRow
      BY Zenon DEF ListingRow
    <3>2. \A l \in Listings : (IF l = Mine THEN Owner ELSE Other) \in People
      BY <1>1
    <3>3. QED
      BY <2>1, <3>1, <3>2
  <2>3. listing[New] = Nothing
    BY <1>1 DEF Init
  <2>4. QED
    BY <1>1, <2>1, <2>2, <2>3, NothingAssumption
<1>3. /\ \A s \in Stays : stay[s] \in StayRow \cup {Nothing}
      /\ stay[Stay1] # Nothing /\ stay[Stay1].of = Theirs /\ stay[Stay2] = Nothing
  <2>1. PICK first : first = [of |-> Theirs, over |-> FALSE]
    OBVIOUS
  <2>2. first \in StayRow /\ first.of = Theirs
    <3>1. first \in StayRow
      BY <1>1, <2>1, Zenon DEF StayRow
    <3>2. QED
      BY <2>1, <3>1
  <2>3. first # Nothing
    BY <2>2, NothingAssumption
  <2>4. \A s \in Stays : stay[s] = IF s = Stay1 THEN first ELSE Nothing
    BY <2>1 DEF Init
  <2>5. QED
    BY <1>1, <2>2, <2>3, <2>4
<1>4. Rows
  BY <1>1, <1>2, <1>3 DEF Rows, Init
<1>5. Calls /\ \A r \in Requests : ~Made(r)
  BY DEF Calls, Init, Made
<1>6. TableInv
  <2>1. \A b \in Blocks : block[b] # Nothing => b # Block2 /\ block[b] = Mine
    BY <1>1 DEF Init
  <2>2. \A s \in Stays : stay[s] # Nothing => s = Stay1
    BY <1>1, <1>3 DEF Stays
  <2>3. QED
    BY <1>1, <1>2, <1>3, <2>1, <2>2 DEF TableInv
<1>7. FormInv /\ OwnerInv /\ ReviewInv /\ RefusalInv /\ WrittenInv /\ SummaryInv
  BY <1>5 DEF FormInv, Single, OwnerInv, ReviewInv, RefusalInv, WrittenInv, SummaryInv, Accepted, Made
<1>8. ReviewsAreEarned /\ IsFiniteSet(review)
  BY FS_EmptySet DEF ReviewsAreEarned, Init
<1>9. /\ Q!Empty \in Q!Query(Board) /\ Q!Empty \in Q!Query(Reviews) /\ Q!Empty.fetch = "none"
      /\ ~Q!Loaded(Q!Empty)
  <2>1. Q!Empty \in Q!Query(Board) /\ Q!Empty \in Q!Query(Reviews)
    BY Zenon DEF Q!Empty, Q!Query
  <2>2. QED
    BY <2>1 DEF Q!Empty, Q!Loaded
<1>10. HostTyped /\ GuestTyped
  BY <1>9 DEF HostTyped, GuestTyped, NoPart, Init
<1>11. MovesTyped
  BY HostAssumption DEF MovesTyped, Init
<1>12. MineInv
  BY <1>9 DEF MineInv, Init
<1>13. QED
  BY <1>4, <1>5, <1>6, <1>7, <1>8, <1>10, <1>11, <1>12 DEF HostInv, ServiceInv, TabInv

LEMMA InvStep ==
    ASSUME HostInv, [Next]_vars
    PROVE  HostInv'
<1> USE DEF HostInv, ServiceInv, TabInv
<1>1. Rows' /\ Calls'
  BY TablesStep, StepKinds
<1>2. FormInv' /\ TableInv' /\ OwnerInv' /\ ReviewInv' /\ RefusalInv'
  BY FormStep, TableStep, OwnerStep, ReviewStep, RefusalStep
<1>3. ReviewsAreEarned' /\ WrittenInv' /\ IsFiniteSet(review)'
  BY EarnedStep, WrittenStep, FiniteStep
<1>4. HostTyped' /\ GuestTyped' /\ MovesTyped'
  BY HostStep, GuestStep, MovesStep
<1>5. MineInv' /\ SummaryInv'
  BY MineStep, SummaryStep
<1>6. QED
  BY <1>1, <1>2, <1>3, <1>4, <1>5

\* The inductive invariant holds in every state of every behaviour.
THEOREM InvHolds == Spec => []HostInv
BY InvInit, InvStep, PTL DEF Spec

\* Every row, call, page and query is of its type.
THEOREM TypesHold == Spec => []TypeOK
<1>1. HostInv => TypeOK
  BY DEF HostInv, ServiceInv, TabInv, Rows, Calls, HostTyped, GuestTyped, MovesTyped, TypeOK, NoPart
<1>2. QED
  BY <1>1, InvHolds, PTL

\* A review is of a stay that is over, of its listing, and the only one of the stay: the checks
\* and the insert are two statements, and the unique index stands between two windows.
THEOREM ReviewsEarned == Spec => []ReviewsAreEarned
<1>1. HostInv => ReviewsAreEarned
  BY DEF HostInv, ServiceInv
<1>2. QED
  BY <1>1, InvHolds, PTL

\* A refusal that names a lasting cause never becomes untrue while it is shown.
THEOREM RefusalsStay == Spec => []RefusalsStayTrue
<1>1. HostInv => RefusalsStayTrue
  BY DEF HostInv, ServiceInv, RefusalInv, RefusalsStayTrue, Made
<1>2. QED
  BY <1>1, InvHolds, PTL

\* A host's writes and a guest's review show, or are about to, unless the write was answered
\* while a fetch that absorbs it was under way.
THEOREM WritesShow == Spec => []OwnWritesShow
<1>1. ASSUME MineInv, AllTold
      PROVE  Excused("mine", mine) \/ Q!WillShow(mine, {OwnedBy(Owner)})
  <2>1. \A r \in Requests : ~AnsweredLate(r)
    BY <1>1 DEF AllTold, AnsweredLate, Made
  <2>2. QED
    BY <1>1, <2>1 DEF MineInv, Excused, Q!WillShow, Q!Fetching
<1>2. ASSUME SummaryInv, NEW r \in Requests, Accepted(r)
      PROVE  \/ Excused("summary", summary)
             \/ summary.fetch = "asked"
             \/ summary.fetch = "read" /\ Includes(summary.seen, r)
             \/ ~Q!Fetching(summary) /\ Includes(summary.data, r)
  BY <1>2 DEF SummaryInv, Shown, Excused, Q!Fetching
<1>3. HostInv => OwnWritesShow
  BY <1>1, <1>2 DEF HostInv, TabInv, OwnWritesShow
<1>4. QED
  BY <1>3, InvHolds, PTL

\* A booking is never taken away, nor the listing it is of: between the removal's check and its
\* write a stay may be booked, and the foreign key refuses.
THEOREM ListingsStay == Spec => BookedListingsStay
<1>1. ASSUME HostInv, [Next]_vars
      PROVE  \A s \in Stays : stay[s] # Nothing =>
               stay'[s] # Nothing /\ stay'[s].of = stay[s].of /\ listing'[stay[s].of] # Nothing
  BY <1>1, TablesStep, StaysLast DEF HostInv, ServiceInv
<1>2. QED
  BY <1>1, InvHolds, PTL DEF Spec, BookedListingsStay

\* Listings and windows change only while a call of their host is served, although who owns them
\* is asked in one statement and the write is the next.
THEOREM OwnersChange == Spec => OnlyOwnersChange
<1>1. ASSUME HostInv, [Next]_vars
      PROVE  /\ \A l \in Listings :
                  /\ listing[l] # Nothing /\ listing'[l] # listing[l] => Serving(listing[l].host)
                  /\ listing'[l] # Nothing => listing'[l].host # Guest
             /\ \A b \in Blocks :
                  /\ block[b] # Nothing /\ block'[b] # block[b] => Serving(listing[block[b]].host)
                  /\ block'[b] # Nothing => listing'[block'[b]] # Nothing
  <2>1. TableInv'
    BY <1>1, InvStep DEF HostInv, ServiceInv
  <2>2. QED
    BY <1>1, <2>1, ChangesByHosts DEF HostInv, ServiceInv, TableInv
<1>2. QED
  BY <1>1, InvHolds, PTL DEF Spec, OnlyOwnersChange
=============================================================================
