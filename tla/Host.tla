-------------------------------- MODULE Host --------------------------------
(***************************************************************************)
(* What hosts offer and guests say of it: the listings and reviews         *)
(* services, statement by statement, one browser tab of a host (the pages  *)
(* of his listings and of his bookings) and one of a guest (her trips with *)
(* the review form, and the page of the listing she stayed at).            *)
(* A booking is what a listing's removal and a review need of it: that it  *)
(* stands, and that the stay is over.                                      *)
(***************************************************************************)
EXTENDS Integers, FiniteSets

CONSTANTS
    Owner, Other, Guest,  \* the host of the tab, another host, the guest of the tab
    Mine, Theirs, New,    \* a listing of each host, and the one that is created
    Block1, Block2,       \* availability windows
    Stay1, Stay2,         \* reservations of Guest
    MaxRequests,          \* bound: requests in all
    MaxMoves,             \* bound: pages gone to and windows focused
    Nothing               \* no row, no data

People == {Owner, Other, Guest}
Listings == {Mine, Theirs, New}
Blocks == {Block1, Block2}
Stays == {Stay1, Stay2}
Requests == 1 .. MaxRequests

OwnerKinds == {"pause", "resume", "remove", "addBlock", "removeBlock"}
HostKinds == OwnerKinds \cup {"create"}
Kinds == HostKinds \cup {"hold", "review"}
Results == {"none", "done", "FORBIDDEN", "NOT_FOUND", "INTERNAL", "VALIDATION_FAILED",
            "LISTING_HAS_BOOKINGS", "REVIEW_STAY_NOT_FINISHED", "REVIEW_ALREADY_EXISTS"}

ListingRow == [host : People, active : BOOLEAN]
StayRow == [of : Listings, over : BOOLEAN]
Request == [kind : Kinds, by : People, of : Listings \cup {Nothing},
            item : Blocks \cup Stays \cup {Nothing}, tab : BOOLEAN,
            at : {"sent", "checked", "served", "told"}, result : Results]
Review == [by : Requests, stay : Stays, of : Listings]
Board == [Listings -> {"absent", "bookable", "paused"}]
Reviews == [list : SUBSET Review, count : Nat]

ASSUME HostAssumption ==
    /\ MaxRequests \in Nat /\ MaxMoves \in Nat
    /\ Owner # Other /\ Guest \notin {Owner, Other}
    /\ Mine # Theirs /\ New \notin {Mine, Theirs}
    /\ Block1 # Block2 /\ Stay1 # Stay2

\* No row is the lack of one.
ASSUME NothingAssumption ==
    Nothing \notin Listings \cup Requests \cup ListingRow \cup StayRow \cup Request

Q == INSTANCE Queries

VARIABLES
    listing,   \* table listings
    block,     \* table availability_blocks: the listing of each
    stay,      \* table reservations
    review,    \* table reviews, each with the request that wrote it
    request,   \* the calls of the API
    hostPage, mine, toggling,    \* his page, the query of his listings, the
                                 \* Pause or Resume each card observes
    guestPage, summary, part,    \* her page, the query of the reviews, what its
                                 \* two statements have read
    crossed,   \* history: queries told to refetch while a fetch that could not be
               \* started over was under way
    moves

tables == <<listing, block, stay, review>>
hostTab == <<hostPage, mine, toggling>>
guestTab == <<guestPage, summary, part>>
vars == <<tables, request, hostTab, guestTab, crossed, moves>>

TypeOK ==
    /\ listing \in [Listings -> ListingRow \cup {Nothing}]
    /\ block \in [Blocks -> Listings \cup {Nothing}]
    /\ stay \in [Stays -> StayRow \cup {Nothing}]
    /\ review \subseteq Review
    /\ request \in [Requests -> Request \cup {Nothing}]
    /\ hostPage \in {"elsewhere", "listings", "bookings"} /\ mine \in Q!Query(Board)
    /\ toggling \in [Listings -> Requests \cup {Nothing}]
    /\ hostPage # "listings" => \A l \in Listings : toggling[l] = Nothing
    /\ guestPage \in {"elsewhere", "trips", "listing"} /\ summary \in Q!Query(Reviews)
    /\ part \in [list : (SUBSET Review) \cup {Nothing}, count : Nat \cup {Nothing}]
    /\ summary.fetch # "asked" => part = [list |-> Nothing, count |-> Nothing]
    /\ crossed \subseteq {"mine", "summary"} /\ moves \in 0 .. MaxMoves

NoPart == [list |-> Nothing, count |-> Nothing]

Init ==
    /\ listing = [l \in Listings |->
         IF l = New THEN Nothing ELSE [host |-> IF l = Mine THEN Owner ELSE Other, active |-> TRUE]]
    /\ block = [b \in Blocks |-> IF b = Block1 THEN Mine ELSE Nothing]
    /\ stay = [s \in Stays |-> IF s = Stay1 THEN [of |-> Theirs, over |-> FALSE] ELSE Nothing]
    /\ review = {} /\ request = [r \in Requests |-> Nothing]
    /\ hostPage = "elsewhere" /\ mine = Q!Empty
    /\ toggling = [l \in Listings |-> Nothing]
    /\ guestPage = "elsewhere" /\ summary = Q!Empty /\ part = NoPart
    /\ crossed = {} /\ moves = 0

-----------------------------------------------------------------------------
\* The services.

Unused == {r \in Requests : request[r] = Nothing}
Asked(kind) == \E r \in Requests \ Unused : request[r].kind = kind
NextRequest == CHOOSE r \in Unused : TRUE

\* A call of the API, authenticated as somebody; tab: one of the two tabs made it.
Send(kind, by, of, item, tab) ==
    /\ Unused # {}
    /\ request' = [request EXCEPT ![NextRequest] =
         [kind |-> kind, by |-> by, of |-> of, item |-> item, tab |-> tab, at |-> "sent",
          result |-> "none"]]

Does(r, kind, at) == request[r] # Nothing /\ request[r].kind = kind /\ request[r].at = at
Serve(r, result) == request' = [request EXCEPT ![r].at = "served", ![r].result = result]
Passes(r) == request' = [request EXCEPT ![r].at = "checked"]
Refuse(r, result) == Serve(r, result) /\ UNCHANGED tables

\* Routes of hosts are closed to guests, before anything is looked up.
Permitted(r) == request[r].kind \in HostKinds => request[r].by \in {Owner, Other}

Service == UNCHANGED <<hostTab, guestTab, crossed, moves>>

RolesGuard(r) ==
    /\ request[r] # Nothing /\ request[r].at = "sent"
    /\ ~Permitted(r)
    /\ Refuse(r, "FORBIDDEN")
    /\ Service

\* A statement of its own, before the write it protects.
AssertOwner(r) ==
    /\ request[r] # Nothing /\ request[r].kind \in OwnerKinds /\ request[r].at = "sent"
    /\ Permitted(r)
    /\ LET row == listing[request[r].of] IN
         CASE row = Nothing -> Refuse(r, "NOT_FOUND")
           [] row # Nothing /\ row.host # request[r].by -> Refuse(r, "FORBIDDEN")
           [] OTHER -> Passes(r) /\ UNCHANGED tables
    /\ Service

Create(r) ==
    /\ Does(r, "create", "sent") /\ Permitted(r)
    /\ listing' = [listing EXCEPT ![request[r].of] = [host |-> request[r].by, active |-> TRUE]]
    /\ Serve(r, "done")
    /\ UNCHANGED <<block, stay, review>>
    /\ Service

\* An update of a row that is gone is a server error.
Update(r) ==
    /\ Does(r, "pause", "checked") \/ Does(r, "resume", "checked")
    /\ IF listing[request[r].of] = Nothing
         THEN Refuse(r, "INTERNAL")
         ELSE /\ listing' = [listing EXCEPT ![request[r].of].active = (request[r].kind = "resume")]
              /\ Serve(r, "done")
              /\ UNCHANGED <<block, stay, review>>
    /\ Service

StaysOf(l) == {s \in Stays : stay[s] # Nothing /\ stay[s].of = l}
Erase(l) ==
    /\ listing' = [listing EXCEPT ![l] = Nothing]
    /\ block' = [b \in Blocks |-> IF block[b] = l THEN Nothing ELSE block[b]]
    /\ review' = {v \in review : v.of # l}

\* Slips: the foreign key cascades to the reservations, as that of the first migration did; any
\* refusal of the database is taken for its bookings.
RemoveCascades(r) ==
    /\ Does(r, "remove", "checked")
    /\ Erase(request[r].of)
    /\ stay' = [s \in Stays |-> IF s \in StaysOf(request[r].of) THEN Nothing ELSE stay[s]]
    /\ Serve(r, "done")
    /\ Service

RemoveRefusesAll(r) ==
    /\ Does(r, "remove", "checked")
    /\ IF listing[request[r].of] = Nothing \/ StaysOf(request[r].of) # {}
         THEN Refuse(r, "LISTING_HAS_BOOKINGS")
         ELSE Erase(request[r].of) /\ Serve(r, "done") /\ UNCHANGED stay
    /\ Service

\* The foreign key restricts; blocks and reviews go with the listing.
Remove(r) ==
    /\ Does(r, "remove", "checked")
    /\ CASE listing[request[r].of] = Nothing -> Refuse(r, "INTERNAL")
         [] StaysOf(request[r].of) # {} -> Refuse(r, "LISTING_HAS_BOOKINGS")
         [] OTHER -> Erase(request[r].of) /\ Serve(r, "done") /\ UNCHANGED stay
    /\ Service

\* A range that is empty is refused; a listing that is gone is a server error.
AddAvailability(r) ==
    /\ Does(r, "addBlock", "checked")
    /\ \/ Refuse(r, "VALIDATION_FAILED")
       \/ listing[request[r].of] = Nothing /\ Refuse(r, "INTERNAL")
       \/ /\ listing[request[r].of] # Nothing
          /\ block' = [block EXCEPT ![request[r].item] = request[r].of]
          /\ Serve(r, "done")
          /\ UNCHANGED <<listing, stay, review>>
    /\ Service

\* Slip: the window is looked for by its id alone.
RemoveAvailabilityById(r) ==
    /\ Does(r, "removeBlock", "checked")
    /\ IF block[request[r].item] = Nothing
         THEN Refuse(r, "NOT_FOUND")
         ELSE /\ block' = [block EXCEPT ![request[r].item] = Nothing]
              /\ Serve(r, "done")
              /\ UNCHANGED <<listing, stay, review>>
    /\ Service

RemoveAvailability(r) ==
    /\ Does(r, "removeBlock", "checked")
    /\ IF block[request[r].item] # request[r].of
         THEN Refuse(r, "NOT_FOUND")
         ELSE /\ block' = [block EXCEPT ![request[r].item] = Nothing]
              /\ Serve(r, "done")
              /\ UNCHANGED <<listing, stay, review>>
    /\ Service

\* hold, as module Booking has it: the listing is read, then the reservation inserted.
HoldRead(r) ==
    /\ Does(r, "hold", "sent")
    /\ LET row == listing[request[r].of] IN
         IF row = Nothing \/ (row # Nothing /\ ~row.active)
           THEN Refuse(r, "NOT_FOUND")
           ELSE Passes(r) /\ UNCHANGED tables
    /\ Service

HoldInsert(r) ==
    /\ Does(r, "hold", "checked")
    /\ IF listing[request[r].of] = Nothing
         THEN Refuse(r, "INTERNAL")
         ELSE /\ stay' = [stay EXCEPT ![request[r].item] = [of |-> request[r].of, over |-> FALSE]]
              /\ Serve(r, "done")
              /\ UNCHANGED <<listing, block, review>>
    /\ Service

\* The completion sweep: the stay took place.  That does not change, although a cancel that read
\* the booking as CONFIRMED may still overwrite its status (Booking!CancelUpdate).
Complete(s) ==
    /\ stay[s] # Nothing /\ ~stay[s].over
    /\ stay' = [stay EXCEPT ![s].over = TRUE]
    /\ UNCHANGED <<listing, block, review, request>>
    /\ Service

\* Somebody else's reservation is answered as one that does not exist.
Owned(r) == stay[request[r].item] # Nothing /\ request[r].by = Guest

\* The listing is that of the reservation just read.
ReviewRead(r) ==
    /\ Does(r, "review", "sent")
    /\ LET row == stay[request[r].item] IN
         CASE ~Owned(r) -> Refuse(r, "NOT_FOUND")
           [] Owned(r) /\ ~row.over -> Refuse(r, "REVIEW_STAY_NOT_FINISHED")
           [] OTHER -> /\ request' = [request EXCEPT ![r].at = "checked", ![r].of = row.of]
                       /\ UNCHANGED tables
    /\ Service

Written(r) == [by |-> r, stay |-> request[r].item, of |-> request[r].of]

\* Slip: there is no unique index.
ReviewInsertUnindexed(r) ==
    /\ Does(r, "review", "checked")
    /\ review' = review \cup {Written(r)}
    /\ Serve(r, "done")
    /\ UNCHANGED <<listing, block, stay>>
    /\ Service

\* The unique index on the reservation decides between two of them.
ReviewInsert(r) ==
    /\ Does(r, "review", "checked")
    /\ IF \E v \in review : v.stay = request[r].item
         THEN Refuse(r, "REVIEW_ALREADY_EXISTS")
         ELSE /\ review' = review \cup {Written(r)}
              /\ Serve(r, "done")
              /\ UNCHANGED <<listing, block, stay>>
    /\ Service

Handle(r) ==
    \/ RolesGuard(r) \/ AssertOwner(r) \/ Create(r) \/ Update(r) \/ Remove(r)
    \/ AddAvailability(r) \/ RemoveAvailability(r)
    \/ HoldRead(r) \/ HoldInsert(r) \/ ReviewRead(r) \/ ReviewInsert(r)

-----------------------------------------------------------------------------
\* The calls nobody's tab waits for: windows, holds, a second window of the guest,
\* and the other host; who also try what is not theirs.
OthersCall ==
    /\ \/ ~Asked("create") /\ Send("create", Guest, New, Nothing, FALSE)
       \/ \E k \in {"pause", "remove"}, l \in {Mine, Theirs} : Send(k, Other, l, Nothing, FALSE)
       \/ \E h \in {Owner, Other}, l \in {Mine, Theirs} :
            \/ ~Asked("addBlock") /\ Send("addBlock", h, l, Block2, FALSE)
            \/ \E b \in Blocks : Send("removeBlock", h, l, b, FALSE)
       \/ /\ ~Asked("hold")
          /\ \E l \in {Mine, Theirs} : Send("hold", Guest, l, Stay2, FALSE)
       \/ \E p \in {Guest, Other} : Send("review", p, Nothing, Stay1, FALSE)
    /\ UNCHANGED <<tables, hostTab, guestTab, crossed, moves>>

-----------------------------------------------------------------------------
\* The host's tab.

HostCalls == UNCHANGED <<tables, hostPage, mine, guestTab, crossed, moves>>
Shows(l) == hostPage = "listings" /\ Q!Loaded(mine) /\ mine.data[l] # "absent"
Pending(r) == r # Nothing /\ request[r].at # "told"

\* The form does not wait for the list.
Publish ==
    /\ hostPage = "listings"
    /\ ~Asked("create")
    /\ Send("create", Owner, New, Nothing, TRUE)
    /\ UNCHANGED toggling
    /\ HostCalls

\* It asks for the opposite of what the card shows; its button is dead while it is
\* under way.
TogglePaused(l) ==
    /\ Shows(l) /\ ~Pending(toggling[l])
    /\ Send(IF mine.data[l] = "bookable" THEN "pause" ELSE "resume", Owner, l, Nothing, TRUE)
    /\ toggling' = [toggling EXCEPT ![l] = NextRequest]
    /\ HostCalls

\* "Keep it" and "Delete" lead back to "Delete for good" while one is under way.
DeleteForGood(l) ==
    /\ Shows(l)
    /\ Send("remove", Owner, l, Nothing, TRUE)
    /\ UNCHANGED toggling
    /\ HostCalls

Told(r) == request' = [request EXCEPT ![r].at = "told"]
Crosses(q, mounted) == IF mounted THEN Q!Absorbs(q) ELSE Q!Fetching(q)
Outdate(q, mounted) == IF mounted THEN Q!Invalidate(q) ELSE Q!Mark(q)
Crossing(name, q, mounted) == crossed' = IF Crosses(q, mounted) THEN crossed \cup {name} ELSE crossed

HostTold(r) == request[r] # Nothing /\ request[r].tab /\ request[r].by = Owner /\ request[r].at = "served"

\* Slip: the answer joins whatever read is under way.
HostAnsweredPolls(r) ==
    /\ HostTold(r)
    /\ Told(r)
    /\ IF request[r].result = "done"
         THEN /\ mine' = Q!Poll(mine)
              /\ Crossing("mine", mine, hostPage # "elsewhere")
         ELSE UNCHANGED <<mine, crossed>>
    /\ UNCHANGED <<tables, hostPage, toggling, guestTab, moves>>

\* onSuccess of each of the three, also when the page is left.
HostAnswered(r) ==
    /\ HostTold(r)
    /\ Told(r)
    /\ IF request[r].result = "done"
         THEN /\ mine' = Outdate(mine, hostPage # "elsewhere")
              /\ Crossing("mine", mine, hostPage # "elsewhere")
         ELSE UNCHANGED <<mine, crossed>>
    /\ UNCHANGED <<tables, hostPage, toggling, guestTab, moves>>

Move == moves < MaxMoves /\ moves' = moves + 1

HostGoes(page) ==
    /\ Move
    /\ page # hostPage
    /\ hostPage' = page
    /\ toggling' = [l \in Listings |-> Nothing]
    /\ mine' \in IF page = "elsewhere" THEN {mine} ELSE Q!Mounts(mine)
    /\ UNCHANGED <<tables, request, guestTab, crossed>>

HostRefocuses ==
    /\ Move
    /\ hostPage # "elsewhere" /\ mine' = Q!Poll(mine)
    /\ UNCHANGED <<tables, request, hostPage, toggling, guestTab, crossed>>

OwnedBy(p) == [l \in Listings |->
    IF listing[l] = Nothing THEN "absent"
    ELSE IF listing[l].host # p THEN "absent"
    ELSE IF listing[l].active THEN "bookable" ELSE "paused"]

\* listOwnedBy, read at one moment and shown at another; a card that goes takes its
\* state along.
MineFetch ==
    /\ \/ mine.fetch = "asked" /\ mine' = Q!Read(mine, OwnedBy(Owner)) /\ UNCHANGED toggling
       \/ /\ mine.fetch = "read" /\ mine' = Q!Answer(mine)
          /\ toggling' = [l \in Listings |->
               IF mine.seen[l] = "absent" THEN Nothing ELSE toggling[l]]
    /\ UNCHANGED <<tables, request, hostPage, guestTab, crossed, moves>>

-----------------------------------------------------------------------------
\* The guest's tab.

\* Offered for a stay that is over.
PostReview ==
    /\ guestPage = "trips"
    /\ stay[Stay1] # Nothing /\ stay[Stay1].over
    /\ Send("review", Guest, Nothing, Stay1, TRUE)
    /\ UNCHANGED <<tables, hostTab, guestTab, crossed, moves>>

GuestTold(r) == request[r] # Nothing /\ request[r].tab /\ request[r].by = Guest /\ request[r].at = "served"

ReviewAnswered(r) ==
    /\ GuestTold(r)
    /\ Told(r)
    /\ LET mounted == guestPage = "listing" IN
         IF request[r].result = "done"
           THEN /\ summary' = Outdate(summary, mounted)
                /\ part' = IF mounted /\ ~Q!Absorbs(summary) THEN NoPart ELSE part
                /\ Crossing("summary", summary, mounted)
           ELSE UNCHANGED <<summary, part, crossed>>
    /\ UNCHANGED <<tables, hostTab, guestPage, moves>>

GuestGoes(page) ==
    /\ Move
    /\ page # guestPage
    /\ guestPage' = page
    /\ summary' \in IF page = "listing" THEN Q!Mounts(summary) ELSE {summary}
    /\ UNCHANGED <<tables, request, hostTab, part, crossed>>

\* forListing: two statements, in either order.
SummaryReads ==
    LET all == {v \in review : v.of = Theirs}
        lists == [part EXCEPT !.list = all]
        counts == [part EXCEPT !.count = Cardinality(all)]
    IN  /\ summary.fetch = "asked"
        /\ \E read \in {lists, counts} :
             /\ read # part
             /\ IF read.list # Nothing /\ read.count # Nothing
                  THEN summary' = Q!Read(summary, read) /\ part' = NoPart
                  ELSE part' = read /\ UNCHANGED summary
        /\ UNCHANGED <<tables, request, hostTab, guestPage, crossed, moves>>

SummaryAnswered ==
    /\ summary.fetch = "read"
    /\ summary' = Q!Answer(summary)
    /\ UNCHANGED <<tables, request, hostTab, guestPage, part, crossed, moves>>

-----------------------------------------------------------------------------
HostPages == {"elsewhere", "listings", "bookings"}
GuestPages == {"elsewhere", "trips", "listing"}

Next ==
    \/ \E r \in Requests : Handle(r) \/ HostAnswered(r) \/ ReviewAnswered(r)
    \/ \E s \in Stays : Complete(s)
    \/ OthersCall
    \/ Publish \/ \E l \in Listings : TogglePaused(l) \/ DeleteForGood(l)
    \/ HostRefocuses \/ \E p \in HostPages : HostGoes(p)
    \/ PostReview \/ \E p \in GuestPages : GuestGoes(p)
    \/ MineFetch \/ SummaryReads \/ SummaryAnswered

Spec == Init /\ [][Next]_vars

-----------------------------------------------------------------------------
\* A listing somebody booked is never taken away, nor the booking, whatever the host
\* and the guest do at the same time.
BookedListingsStay ==
    [][\A s \in Stays : stay[s] # Nothing =>
         stay'[s] # Nothing /\ stay'[s].of = stay[s].of /\ listing'[stay[s].of] # Nothing]_vars

\* A review is of a stay that is over and of its listing, and no stay has two, however
\* many windows post at once.
ReviewsAreEarned ==
    /\ \A v \in review : stay[v.stay] # Nothing /\ stay[v.stay].over /\ v.of = stay[v.stay].of
    /\ \A v, w \in review : v.stay = w.stay => v = w

\* Listings and windows change only by a call of their host, although ownership is
\* checked in one statement and the write is another; the windows also go with it.  A guest
\* never has one.
Serving(p) == \E r \in Requests :
    /\ request[r] # Nothing /\ request[r].by = p
    /\ request[r].at # "served" /\ request'[r].at = "served"
OnlyOwnersChange ==
    [][/\ \A l \in Listings :
            /\ listing[l] # Nothing /\ listing'[l] # listing[l] => Serving(listing[l].host)
            /\ listing'[l] # Nothing => listing'[l].host # Guest
       /\ \A b \in Blocks :
            /\ block[b] # Nothing /\ block'[b] # block[b] => Serving(listing[block[b]].host)
            /\ block'[b] # Nothing => listing'[block'[b]] # Nothing]_vars

\* What the card and the form say until they are tried again.
SaysHasBookings(r) == request[r].kind = "remove" /\ request[r].result = "LISTING_HAS_BOOKINGS"
SaysReviewed(r) == request[r].kind = "review" /\ request[r].result = "REVIEW_ALREADY_EXISTS"
SaysForbidden(r) == request[r].kind \in HostKinds /\ request[r].result = "FORBIDDEN"

\* A refusal that names a lasting cause is right for as long as it is on the screen: the
\* bookings of the listing, the earlier review, somebody else's listing.
RefusalsStayTrue ==
    \A r \in Requests : request[r] # Nothing =>
        /\ SaysHasBookings(r) => StaysOf(request[r].of) # {}
        /\ SaysReviewed(r) => \E v \in review : v.stay = request[r].item
        /\ SaysForbidden(r) =>
             \/ request[r].by = Guest
             \/ listing[request[r].of] # Nothing => listing[request[r].of].host # request[r].by

\* His presses are answered; her review was accepted; a write was answered while the first
\* data load, or while a page that is closed is still fetching.
AllTold == \A r \in Requests :
    request[r] # Nothing /\ request[r].tab /\ request[r].by = Owner => request[r].at = "told"
Accepted(r) ==
    /\ request[r] # Nothing
    /\ request[r].kind = "review" /\ request[r].tab
    /\ request[r].at = "told" /\ request[r].result = "done"
Excused(name, q) == (~Q!Loaded(q) /\ ~Q!Fetching(q)) \/ q.stale \/ name \in crossed
Includes(d, r) == d.count >= 1 /\ \E v \in d.list : v.by = r

\* Once every press is answered the host's list shows his listings as they are, or is
\* about to, however the refetches cross the writes; and a guest whose review was accepted
\* sees it on the listing's page, counted and listed, as soon as the page is up to date.
OwnWritesShow ==
    /\ AllTold => Excused("mine", mine) \/ Q!WillShow(mine, {OwnedBy(Owner)})
    /\ \A r \in Requests : Accepted(r) =>
         \/ Excused("summary", summary)
         \/ summary.fetch = "asked"
         \/ summary.fetch = "read" /\ Includes(summary.seen, r)
         \/ ~Q!Fetching(summary) /\ Includes(summary.data, r)
=============================================================================
