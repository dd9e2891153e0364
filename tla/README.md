# noOverlap, specified and checked

TLA+ specifications of noOverlap: a booking API on PostgreSQL, a payment worker behind Redis queues,
and a web client. Everything is translated from the source under `src/`. TLC checks small instances;
TLAPS proves all safety properties of the runs for all values of the constants. What follows without
proof is liveness.

## The system

| Part | State it keeps | Operations | What makes it correct |
| --- | --- | --- | --- |
| Booking (`apps/api/src/booking`) | `reservations`, the event rows of `outbox` | place a hold, cancel, settle a result, expiry sweep, completion sweep, announce | live reservations of a listing never overlap; a released slot stays released; only charged stays are confirmed; refunds are owed; holds do not last for ever |
| Result consumer (`payment-result.processor.ts`) | the result queue | settle, request a refund | every result is applied; money without a booking is returned |
| Outbox relay (`outbox-relay.service.ts`) | `outbox.published_at`, the charge queue | claim a batch, publish, mark | no committed event is lost, no two passes share a row |
| Payment worker (`apps/worker/src/payment`) | `payments`, the provider's ledger in Redis, charge, refund and dead-letter queues | charge, send a result, refund, retry, bury | money moves at most once each way; results are true; failures leave evidence |
| Listings (`apps/api/src/listings`) | `listings`, `availability_blocks` | create, update, remove, search, windows | a listing with bookings cannot go; only its owner edits it |
| Identity (`apps/api/src/identity`) | `users`, `refresh_tokens` | register, log in, refresh, log out | a refresh token is used once; reuse revokes its family; logout ends the session |
| Realtime (`apps/api/src/realtime`) | rooms, a sequence number per listing in Redis | watch, unwatch, publish | a client that misses an event can tell |
| Reviews (`apps/api/src/reviews`) | `reviews` | create, list | one review for each completed stay |
| Client: session (`lib/api/client.ts`, `lib/use-session.ts`) | access token, the refresh under way | call, refresh, retry, sign in and out, restore | one refresh for all calls of a tab; every call ends |
| Client: guest pages (`routes/Reserve.tsx`, `Trips.tsx`, `ReviewForm.tsx`) | the hold posted, the query cache, timers | place a hold, follow it, cancel, review | the screen tells the truth about the money, and settles |
| Client: host pages (`routes/host`) | the query of his listings | publish, pause, resume, delete | the list ends up showing what was written |
| Client: search (`Search.tsx`, `SearchBar.tsx`, `Select.tsx`, `DateRangeField.tsx`) | filters in the URL | filter, pick dates | nothing else relies on it |
| Metrics, health, configuration, errors, tracing | counters | observe | nothing acts on them |

A hold commits a `HELD` reservation and a `BookingHeld` event in one transaction. The relay moves the
event to the charge queue. The worker charges the card and puts a result on the result queue. The
consumer in the API settles it: `HELD` becomes `CONFIRMED` or `CANCELLED`, or, if the hold is gone, a
job on the refund queue asks the worker for the money back. Two timers expire stale holds and complete
finished stays. Every change is announced to the watchers of the listing: an API process takes a number
from Redis and emits to a room, and a page in the room reads again. The pages call the API with an access
token; when it has lapsed, the client trades its refresh cookie for a new pair, which changes the key of
the session query and takes guarded pages down for a moment.

What is hard: requests, consumers and timers of several instances interleave between statements;
queues deliver again; processes die between two stores that share no transaction; locks of jobs run
out under a living worker; retries end; holds expire while the charge is on its way. `PROJECT.json`
lists these hazards at their lines, with the properties that would catch them.

## Modules

| Module | Models | Checked by |
| --- | --- | --- |
| `Calendar` | what the booking component promises: claims on free ranges, given up for good | refined by `Booking` |
| `Booking` | the reservations table and every process that writes to it | `MCBooking*`, `BookingProofs` |
| `Relay` | the outbox relay | `MCRelay`, `RelayProofs` |
| `Account` | what the worker promises: money moves once each way, results are true | refined by `Payment` |
| `Payment` | the worker, the provider and the queue library | `MCPayment*`, `PaymentProofs` |
| `Seam` | `Booking`, `Relay` and `Payment` joined by their queues | `MCSeam*`, `SeamProofs` |
| `Sessions` | refresh tokens and their rotation, and the tabs of one browser | `MCSessions`, `SessionsProofs` |
| `Queries` | the query library of the client: data, the fetch under way, invalidation (no state of its own) | instantiated below |
| `Realtime` | announcements, rooms, and a page that watches a listing | `MCRealtime`, `RealtimeProofs` |
| `Checkout` | the reserve page and the trips page of one guest | `MCCheckout*`, `CheckoutProofs` |
| `Host` | listings, windows and reviews, with the tab of a host and of a guest | `MCHost`, `HostProofs` |

A module `XProofs` extends `X` and holds nothing but its theorems, their lemmas and the inductive
invariants; no run depends on it. The specifications state what they assume of their constants.

### How state and actions correspond to the code

One database statement, one Redis call or one queue call is one step. What a handler has read and
still uses later is in `task[p]` (API) or `work[w]` (worker), so a handler with three statements is
three actions with every interleaving between them. A transaction that only Postgres sees is one step
(`ClaimCommits`: the reservation and its event). A relay pass holds a transaction open across a Redis
call and is therefore three steps with row locks.

- `Booking`. `reservation` is the table; `NoRow` is a row not yet inserted. `HoldRead` validates the
  range and fixes the price, `ClaimCommits` inserts, and the exclusion constraint is the guard
  `Conflicts(...) = {}`. `ClaimDeadlocks` is Postgres aborting one of several racing inserts; the
  first time the claim is tried again, the second time the request fails. `CancelRead`,
  `CancelUpdate`, `CancelRefund` are the three statements of `cancel`. `SettleUpdate` is the
  conditional update of both `applyPayment...` methods, `SettleReadBack` the read that follows when
  it matched nothing. The sweeps read candidates, update by their own filter, and announce the
  candidates. `announced` remembers what watchers were last told. `Crash` loses an activity between
  two statements; it also stands for a statement that fails. Results arrive as `ResultArrives` and may
  be delivered any number of times, in any order, and may contradict each other.
- `Relay`. Row ids are numbered by `created_at`; rows may commit in any order. `Batch` is the `SELECT
  ... LIMIT ... FOR UPDATE SKIP LOCKED`. `Abort` is a rollback (crash, failed call, transaction
  timeout); after a timeout the call to the queue may still be under way, which is `PublishLate`. A batch
  reaches the queue in one call (`addBulk`), so in `Payment` `ChargesQueued` adds a set of jobs at once.
- `Payment`. A job is a record with its state, owner, attempts and stalls. `TakeJob`, `Finish`,
  `FailWith`, `Release`, `Stalled` and `LoseLock` are BullMQ as this code uses it (external): five attempts
  on the charge queue by default job options, one elsewhere; a stalled job is delivered once more and
  then fails; a job id that exists is ignored; finished jobs are kept. `charge` and `refund` are the
  provider's ledgers in Redis, read and written by separate calls. `taken` and `returned` count how
  often the provider moved the money; no code reads them.
- `Seam` instantiates the three modules over shared variables. `Alone` and `Apart` add that the rest
  does not move. The only steps of two modules at once are the ones the code makes through a queue:
  `RequestRefund` (a `RefundRequested` job), `RelayPublishes` (a charge job) and `Settle` (a result
  job). The result queue is explicit here: `delivery` says what state a result is in and who has its
  lock, `serving` which job each consumer works on, one attempt each. `ResultStalled` delivers the result of
  a dead consumer again; `LoseResultLock` does so under a living one, which carries on, and whose return
  settles nothing any more (`Ends`). A deadlock of two claims stays within `Booking` and is left out here.
- `Sessions`. `row` is `refresh_tokens`; a token is named by its row, and the access token signed with it by
  the same name. A token is random, so `Fresh` is any unused one. `RefreshRead` and `Rotate` are the lookup
  and the transaction of `refresh`, with every other request in between; `RevokeReplayed` is the reuse branch.
  A request carries the cookie it was sent with. `Refresh(t)` is the single refresh of a tab, which
  `Unauthorized` begins or joins and `Refreshed` ends, waking every call that waits (`Woken`). `LoseAnswer`,
  `Reload` and `Expire` are the mishaps: an answer that does not arrive while its handler goes on, a page
  loaded anew, a session that is too old. `Die` is a handler that dies, as often as it likes; its caller is
  told that it failed.
- `Queries` states what the client relies on of TanStack Query: a fetch is asked for, read by the server
  at some moment and answered at a later one. `Invalidate` starts it anew, but joins the fetch that loads
  the first data; `Poll` joins any; `Mounts` fetches unless the data is fresh.
- `Realtime`. `Commit` is a change of `Booking` at its announcement; `Numbered`, `GiveUp` and `Emit` are
  `publish`: `INCR`, the timeout that swallows, the emission. A command whose caller gave up may still run
  (`StrayRuns`). `outbox` holds the watch and unwatch messages socket.io buffers, `Serve` handles them.
  `Mount`, `Unmount`, `Rewatch` and `OnChanged` are the effect of `useListingUpdates`; `Connect` and
  `Disconnect` its transport and the badge. A connection breaks (`Break`) before the socket notices
  (`Disconnect`, at once or when a heartbeat is missed); in between the badge is still that of a live page.
- `Checkout`. The server is what `Booking` lets this guest see of one range: a row for each POST, the rival,
  and whether the money was taken. `Charge` comes whenever the worker comes to it, before or after `Decide`
  ends the hold; `CancelRead`, `CancelUpdate`, `CancelEnds` are the statements of a cancel, with everything
  else in between, and `CancelFails` is one that fails. `Panel` is what `Reserve` renders, from the mutation
  it observes (`current`), the query of the id it kept (`shown`) and `stalled`. `SilentRefresh` and
  `IdentityAnswered` are the guard: the page goes, and comes back with nothing remembered.
- `Host`. A request is authenticated, checked and written in separate steps (`RolesGuard`, `AssertOwner`,
  then the write). `Complete` is the
  end of the stay, which no later status takes back: a guest whose cancel overwrites `COMPLETED` was there
  all the same. `hold` is here again in two statements, because a listing may be removed in between.
  `SummaryReads` is `forListing`, two reads in either order. `hostTab` and `guestTab` are the pages and
  their queries; `crossed` remembers that an invalidation met a fetch it could not start over.

Operators whose comment begins with "Slip" are not part of any specification. They are variants
of the definition that follows them, as a plausible mistake would have it; `PROJECT.json` pairs each
with the property that refutes it.

## Runs

| Run | Instance | Shows |
| --- | --- | --- |
| `booking_calendar` | 2 bookings, 2 requests, expiry sweep, one stay, clock to 2 | `NoOverlap`, `ReleasedStaysReleased`, `CalendarPromise`: `Booking` implements `Calendar` |
| `booking_live` | 1 booking, 1 request, both sweeps, overlapping, touching and empty stays, 2 crashes, clock to 3, fair | `TypeOK`, `OnlyPaidStays`, `RefundsAreOwed`, `AnnouncementsAreTrue`, `BookingsEnd` |
| `relay` | 4 rows, batches of 2, 2 passes, 2 rollbacks, fair | `TypeOK`, `MarkedIsQueued`, `DuplicatesComeFromAborts`, `EveryEventIsQueued` |
| `payment_crashes` | 2 bookings, 2 workers, 2 attempts, 2 crashes, fair | `TypeOK`, `RecordFollowsMoney`, `ChargesAreAccountedFor`, `PaymentMovesForward`, `AccountPromise`, `JobsEnd` |
| `seam_faults` | 1 booking, 1 client, 2 consumers, 2 workers, 1 attempt, expiry sweep, holds of 0 ticks, clock to 1, one fault of any kind | `ConfirmedMoneyStays`, `SuccessesWereTaken`, `ModulesAssumeRight` |
| `seam_live` | 1 booking, 1 attempt, free and priced stays, both sweeps, clock to 2, fair | `LateChargesAreReturned`, `BookingsAreDecided` |
| `sessions` | 1 tab, 2 calls at once, 2 tokens, 2 mishaps, fair | `TypeOK`, `LineageSurvives`, `NoTabReplaysItsOwn`, `EndedSessionsStayEnded`, `CallsEnd` |
| `realtime` | 2 changes, 1 dropped connection, 1 outage of Redis, 2 moves of the page, fair | `OwedIsComing`, `NoBadgeMeansLive`, `UpdatesEnd` |
| `checkout` | 2 holds, 1 trouble, 2 visits, a rival, fair | `PanelsTellTheTruth`, `CancelledTripsShowIt`, `ScreenMovesForward`, `ScreenSettles` |
| `host` | 2 requests, 3 moves, 2 hosts, 3 listings, 2 windows, 2 stays | `BookedListingsStay`, `OnlyOwnersChange`, `ReviewsAreEarned`, `RefusalsStayTrue`, `OwnWritesShow` |

`ModulesAssumeRight` says that the joined system implements `Booking!Spec`, `Relay!Spec` and
`Payment!SpecLosingLocks`. It is what lets the modules be checked and proved one at a time: none assumes
anything of its environment that the joined system does not do.

The properties of the client say what a guest or a host may rely on. `PanelsTellTheTruth`: a panel that
confirms is of a booking that was paid for, one that tells of a release is of a booking that stands no more.
That it was not charged is more than the code keeps (below). `ScreenMovesForward` and
`CancelledTripsShowIt`: no answer that was read before a change comes back after it. `OwedIsComing`: what the
page was told to re-read is on the screen or in a read that will see it, so ignoring an event with an old
number loses nothing. `OwnWritesShow` is the same for a tab's own writes. `RefusalsStayTrue`: "this listing
has bookings", "already reviewed" and "not yours" stay right for as long as they are on the screen.

`LineageSurvives` has two parts. A session that nobody ended has a token that is not revoked, always: that
is what the transaction of the rotation is for. And unless an answer was lost, a page loaded anew or a
session expired, the browser can go on: its cookie is accepted, or the answer that continues the session is
on its way. After a lost answer it cannot, since nobody holds the new token and the old one is taken for a
replay; so the second part says nothing of that.

`NoBadgeMeansLive` makes an exception of the time between the break of a connection and its notice.

The `TypeOK` of `Seam`, `Realtime`, `Checkout` and `Host` is no property of their runs, which spend their
time on the properties above; it is proved.

Runs that are expected to fail show where the code does not keep a statement made of it:

| Run | Statement | What happens |
| --- | --- | --- |
| `seam_cancel` | cancelling a paid booking requests a refund (`async-seam.md:155`) | not if it was paid after `cancel` read it |
| `checkout_own_hold` | a guest is not told they lost a race against themselves (`Reserve.tsx:394`) | a silent token refresh remounts the page, which posts again and loses to its own hold |

Other disagreements met while modelling, which follow from actions of the modules and have no run of
their own:

- A booking may be charged twice if a job lock is lost: two deliveries at once both find the provider's
  ledger empty (`mock-payment.provider.ts:81`, `AskProvider`), although `payment.service.ts:22` says
  "exactly once". `ConfirmedMoneyStays` says once only without lost locks.
- `cancel` checks the transition map against the status it read and updates by id alone
  (`booking.service.ts:293-303`), so an `EXPIRED` reservation can become `CANCELLED`; line 50 calls the
  map "the ONLY legal moves" (`CancelRead`, `CancelUpdate`).
- The expiry sweep reads the clock twice (`reservation-expiry.service.ts:36,44`): a hold that expires in
  between is expired without an announcement (`ExpiryUpdate`).
- A success delivered after the stay was completed takes the refund branch, whose comment says "EXPIRED
  or CANCELLED" (`booking.service.ts:389`, `SettleReadBack`).
- A charge delivered again after its refund is reported as `PaymentFailed` (`payment.service.ts:99`,
  `TypeOf`), although lines 79-80 promise an identical message.
- The dead letter of an exhausted charge is added after the job failed (`charge.processor.ts:115`,
  `Bury`); a crash in between leaves none. `ChargesAreAccountedFor` says what does hold.
- The refund and result queues have one attempt and no dead-letter queue (`queue.module.ts:43-44`,
  `Allowed`, `SettleThrows`), although `async-seam.md:159` says refunds mirror charges.
- With a lost lock, a refund may complete without returning the money: the second delivery of the charge
  overwrites `SUCCEEDED` by `FAILED` before the refund reads it. Hence `JobsEnd`,
  `RecordFollowsMoney` and `AccountPromise` are about `Payment!Spec`, in which workers keep their locks;
  `Seam` uses `SpecLosingLocks`.

Identity and the session of the client:

- `logout` "ends that login session" (`auth.service.ts:180`), but a rotation that read its token before and
  commits after leaves a live successor, whose answer signs the tab in again (`Rotate`;
  `LogoutEndsTheSession` is stated, and not checked).
- Two refreshes that both read a token before either rotates it both succeed, since the transaction revokes
  by id alone (`Rotate`).
- `logout` clears a cookie of path `/auth` (`auth.controller.ts:126`); it was set at `/` (line 146), so it
  stays (`SignedOut`). It is revoked, so it restores nothing.
- `signOut` clears the query cache only if the request succeeds (`use-session.ts:45-47`), and a session
  that ends by a refused refresh never clears it.

Realtime:

- A change between the page's first read and its joining the room is not announced to it; nothing re-reads
  after the join is served. A set of watched listings that changes forgets the last number (`Rewatch`).
- A hint that comes while the first data load joins that load and may be older (`absorbed`).

Guest pages:

- After "Try again" the stall timer is not started again (`Reserve.tsx:453-457` depend on what did not
  change, `RetryHold`), so a second silence is a spinner for ever. The first attempt may
  also still succeed: the retry is then refused and its error covers the hold. Hence `Retried`.
- The panel of a released hold says that "no money moved" (`Reserve.tsx:280`, "No charge was made" at line
  340). The card may have been charged before the sweep expired the hold, and the refund is asked for later,
  in one attempt. A booking that was paid for and is `CANCELLED` or `COMPLETED` gets the same panel
  (`Reserve.tsx:541-543`). `ReleasedIsNotCharged` states it and is not checked; as an invariant of
  `MCCheckout.cfg`, TLC refutes it.
- A cancel answered while the trips page is closed marks the list stale; a read that was already under way
  clears the mark (`CancelAnswered`).
- `RequireAuth` passes on the path without its query (`RequireAuth.tsx:23`), although `Reserve.tsx:366` says
  the guest returns with their dates intact.

Host pages and services:

- A listing that is removed between a hold's read and its insert, or between the ownership check and an
  update or a new window, is answered with a server error (`HoldInsert`, `Update`, `AddAvailability`).
- The heading's count and the list of reviews are read by two statements and may disagree
  (`SummaryReads`).
- "The figure shown is the figure charged" (`ListingDetail.tsx:139`) fails when the host reprices after the
  page read the listing (`Booking!HoldRead` takes the price of the moment).
- A write answered while the host's list loads for the first time joins that load (`crossed`).
- Availability windows are stored and never looked at by `hold`.

### Bounds and why they are enough

- Two bookings make every conflict there is between rows; the constraint is a statement about pairs.
  Runs about a single row use one booking and more processes.
- Stays `[0,1)`, `[1,2)`, `[0,2)` touch and overlap in both ways; `[1,1)` is refused. With a TTL of 1
  and a clock to 2 or 3 a hold can expire before, during and after each step, and stays finish. In
  `seam_faults` the clock goes to 1 and the TTL is 0, a hold shorter than a tick, so the sweep has work too.
- Two requests make every race of two handlers; deadlocks need two.
- One listing: `NoOverlap` compares listings only for equality, and the proofs cover any number.
- `MaxCrashes`, `MaxAborts`, `MaxLostLocks`, `MaxApiFaults`, `MaxWorkerCrashes` count faults;
  in `Seam` `MaxLostLocks` bounds those of results (`resultLocksLost`) as well. Two
  crashes are enough to crash a recovery. `MCOneFault` allows the joined system one fault of any kind in a
  behaviour; more of each kind are in the runs of the parts. `MCListingsRest` keeps a listing active once it
  is booked, and `MCSecondConsumer` brings the second consumer in once a result's lock is lost: what these
  leave out is within `Booking`. `JobsEnd` and `CallsEnd` are about one booking and one call, which stand for
  all, since nothing tells them apart. `Attempts` is 2 instead of 5, the first and
  the last; 1 in the runs of `Seam`, where a failed charge is one more way to end it.
- `Sessions`: two tokens are a session and its successor, or two sessions; with none left an issue fails
  like a failed statement (`OutOfTokens`). Two calls share a refresh. `MaxMishaps` counts answers lost, pages
  loaded anew and sessions expired; 2 lose an answer and reload the page, the shortest replay of a spent
  token. A second tab with the same cookie is not instantiated; what it adds, a handler that spends the cookie
  while the tab presents it, also comes of a reload that leaves a handler behind (`Unheard`). The theorems
  are for any number of tabs.
- `Realtime`: two changes are reordered, two numbers make a gap, one drop and one outage happen at any
  point, and two moves open the page twice or change what it watches.
- `Checkout`: two POSTs are the page's and the one of a remount or a retry. `MaxTroubles` counts token
  refreshes, hints, failed fetches and retries together, `MaxVisits` the pages gone to.
- `Host`: two requests are every race of two handlers, each made by a tab or by others, also on what is not
  theirs; three moves leave a page, come back and focus it.
- Deadlock is not checked where the system may stop: in `Relay` when all rows are published, in `Realtime`,
  `Checkout` and `Host` when the bounds on moves and changes are used up and the pages are up to date.
- Symmetry is used for safety only, over guests, requests, consumers, tabs, ids or workers that the
  specification treats alike.

### Fairness

Timers are `@Interval`s, so a pass that can run does run: weak fairness of each sweep and each relay
pass. A handler that began goes on unless it crashes: weak fairness of `Proceed`. The queue delivers
waiting jobs and finds stalled ones: weak fairness of `Deliver`, `Settle` and `Stalled`. Time passes.
In the client, fetches end, polls and timers fire, and a published change that has a number is emitted:
weak fairness of `Fetch`, `DetailFetch`, `Poll`, `Stall`, `Emit` and of the timeout `GiveUp`. In
`Sessions` the handlers somebody listens to go on and answers arrive, unless they are lost; in `Checkout` the server decides every
hold (`Decide`), which is what `BookingsEnd` shows of `Booking`, and a POST may hang for ever.
No fairness is assumed of guests, hosts, crashes, faults, deadlocks, the provider's choice, or the
redelivery of what was already settled. Each fairness condition is on what the same process does next, so none
implies that a race is won.

## Proofs

Every invariant, action property and refinement that a passing run checks is also a theorem, for any
number of bookings, rows, workers, consumers, requests, tabs, faults and moves. `PROJECT.json` lists them. The
assumptions are named `ASSUME`s of the specifications, and TLC evaluates them in the runs: bounds are
natural numbers, kinds of processes are disjoint, and a value that stands for nothing (`NoRow`,
`Nobody`, `None`, `Nothing`, `NoResult`) is none of the values it stands beside. `Host` names its few
people, listings, windows and stays, and assumes that they differ: its theorems are about these, with any
number of requests and moves.

The proofs are built alike: an inductive invariant, a lemma for each of its conjuncts (or for each kind
of step) that a step keeps it, and theorems that follow from it. What the invariants add to the
properties is what processes remember, and why it is still so.

`BookingProofs`, for `Booking!Spec`:

- `TypesHold`: `[]TypeOK`. `TypeInv` restricts each process's task to what its kind may be doing,
  which `TypeOK` alone does not give and every later step needs.
- `NoOverlapHolds`: `[]NoOverlap`. The only step that adds a live row is `ClaimCommits`, whose guard is
  the constraint; every other update can only shrink the set of live rows, and for settlements that
  depends on the `WHERE status = 'HELD'`.
- `ReleasedForGood`: `[][ReleasedStaysReleased]` from the same footprint lemma, which says for each
  action which rows may change and to what.
- `PaidStays`, `RefundsOwed`, `TrueAnnouncements`: need what activities remember to be still true when
  they use it: a `cancel` in progress refers to an existing row that was charged if `wasPaid`, a refund
  about to be requested is for a released row, an announcement about to be made tells a status that
  is final or was paid for.
- `ImplementsCalendar`: initial states map to initial states, and every step to a `Take`, a `GiveUp` or
  a stutter.

`RelayProofs`, for `Relay!Spec`: `TypesHold`, `NothingIsLost` (`MarkedIsQueued`) and
`DuplicatesArePaidFor` (`DuplicatesComeFromAborts`). `RowsInv`: open passes hold disjoint, unmarked rows.
`CountInv`: each addition of a row, made or still under way after its timeout, is matched by one abort,
but for the addition of the pass that settled the row; the proof counts finite sets.

`PaymentProofs`, for `Payment!Spec`, in which workers keep their locks: `TableFollowsMoney`
(`RecordFollowsMoney`), `ChargesLeaveEvidence` (`ChargesAreAccountedFor`), `StatusMovesForward`,
`JobsAreNotShared`, and `PromiseIsKept`, the refinement of `Account`. `LockInv` says that a worker in the
middle of a job holds it, `BooksInv` what table, ledgers and results say of one another between the
statements of a handler, `ReadInv` that what a worker has read is still so, `AnswersInv` that evidence is
there before a job ends. For `SpecLosingLocks`, where two workers may be on one job, `TypesHold`,
`NoSuccessIsInvented` and `NoRefundIsInvented` show what is left (`TakenInv`), and
`TableFollowsUntilLost` that the table is right until the first lock is lost.

`SeamProofs`, for `Seam!Spec`: the modules are instantiated with their proofs, and the joined system is
shown to be an environment each of them assumes. `EnvironmentsFit` (`ModulesAssumeRight`) rests on
`JobsAsked`: a charge is queued for a committed event only, a refund for a request only. The invariants
of the API and of the worker then meet in the result queue: `ConfirmedIsPaid` (`ConfirmedMoneyStays`) and
`SuccessesAreReal`. `SystemStaysSafe` carries the theorems of the parts over to the whole.
`ResultsAreSettledOnce` is about the result queue itself, with the `TypeOK` of `Seam`. Until a lock of a
result is lost, no two consumers settle it (`OwnersSettle`). Whatever is lost, a handler is about the result
of its job, a result comes again only as often as it may stall, and one that is completed has decided its
booking, whose money is asked back if it came after the hold expired (`DoneIsDecided`): the lock of whoever
completes it is its own, and the database settles a hold once however many consumers try.

`SessionsProofs`, for `Sessions!Spec`: `TypesHold`; `LineagesSurvive` (`LineageSurvives`), from
`KnownInv`, whatever carries a token carries one that was issued: its first part by the atomic rotation, its
second because the answer of a rotation is on its way until it is the cookie; `EndsAreFinal`
(`EndedSessionsStayEnded`); `NoTabLooksLikeAThief` (`NoTabReplaysItsOwn`), which needs that a token on its
way to its tab is nobody else's (`OwnInv`), and holds until the first mishap.

`RealtimeProofs`, for `Realtime!Spec`: `TypesHold`; `CounterStaysBehind`, the counter never gets ahead of
the committed changes, although increments run after their callers gave up (`CountInv`, by counting), and no
number in use is ahead of the counter (`NumberInv`);
`ToldIsShown` (`OwedIsComing`), since numbers grow with the changes that were committed when
they were given (`NumberInv`, `OwedInv`), so that an old number stands for what was read already;
`NoBadgeIsLive` (`NoBadgeMeansLive`), since the last message under way says what the page wants (`LinkInv`).

`CheckoutProofs`, for `Checkout!Spec`: `TypesHold`; `PanelsAreTrue` (`PanelsTellTheTruth`), since what is
cached or read of a hold was so once, statuses only move forward, also by the unfiltered update of a cancel,
and only what was charged is confirmed (`RowInv`, `DetailInv`); `ScreenGoesForward` (`ScreenMovesForward`),
with `ViewInv` on which hold is observed and shown; `CancelsShow` (`CancelledTripsShowIt`), since a list that
was loaded before the cancel is read again after it (`TripsInv`).

`HostProofs`, for `Host!Spec`: `TypesHold`; `ReviewsEarned` and `ListingsStay` from `TableInv`, nothing
outlives what it belongs to; `OwnersChange` (`OnlyOwnersChange`) from `OwnerInv`, what the ownership check
saw still holds when the write comes, because listings do not change hands; `RefusalsStay`; `WritesShow`
(`OwnWritesShow`), since the host's list was read after his writes, or will be, or an answered write is
still to be told (`MineInv`, and `SummaryInv` for reviews).

Checked by TLC only: liveness, which is out of the prover's reach since it rests on `ENABLED`:
`BookingsEnd`, `EveryEventIsQueued`, `JobsEnd`, `LateChargesAreReturned`, `BookingsAreDecided`, `CallsEnd`,
`UpdatesEnd` and `ScreenSettles`; and the two runs that show a violation.

## Not modelled, and why

- Formatting, validation messages, trace contexts, metrics and health: no property depends on them.
- Amounts other than zero and positive in `Payment`; prices in `Booking` are integers without the
  32-bit limit of the column. An insert that overflows fails and writes nothing, like a crash.
- Availability windows do not restrict bookings in the code, so `Booking` has none.
- Deletion of users (cascading to their reservations): no code deletes a user.
- Search, the dropdown and the date picker: filters in the URL, no state another part relies on. The
  list of cities comes from the answer filtered by city (`Search.tsx:36`), so it shrinks to the
  chosen one; that needs no model.
- Public browsing and single reads of listings: they change nothing. The price panel of a listing's page.
- Password hashing, throttling and the claims of tokens; more than one family of tokens at a time is there
  only as far as two tokens allow.
- How the board of bookings groups them, and skeletons, toasts and layouts.

## Plan

1. Done: all modules above, their runs, and the theorems for every safety property of the runs.
2. Next: shorter proofs for the largest modules (`HostProofs`, `PaymentProofs`), where lemmas about one
   changed request or one changed job recur.
3. The shares of liveness that are safety: what each fair action is enabled by, stated as invariants
   (a booking that is held and stale has a sweep ahead of it, a row unmarked has no pass that keeps it).
4. Other parts of `listings` and `search`, if a property of theirs turns out to be hard to test.
