------------------------------- MODULE Relay -------------------------------
(***************************************************************************)
(* The outbox relay: it moves committed BookingHeld events from the outbox *)
(* table to the charge queue.  Several instances, and overlapping ticks of *)
(* one, run at once; each pass is one database transaction with a call to  *)
(* Redis in the middle that no transaction covers.                         *)
(***************************************************************************)
EXTENDS Integers, FiniteSets

CONSTANTS
    Ids,       \* outbox rows, numbered by created_at
    Relays,    \* passes that may run at once
    BatchSize, \* RELAY_BATCH_SIZE
    MaxAborts  \* bound: transactions rolled back

ASSUME IdsAssumption == Ids \subseteq Nat
ASSUME BatchAssumption == BatchSize \in Nat \ {0} /\ MaxAborts \in Nat

Idle == [at |-> "idle", rows |-> {}]
Pass == [at : {"idle", "publish", "mark", "late"}, rows : SUBSET Ids]

VARIABLES
    outbox,    \* committed rows
    published, \* rows whose published_at is set
    queued,    \* job ids in the charge queue
    added,     \* how often each row was added to the queue
    relay,     \* where each pass is and the rows it claimed
    aborts     \* transactions rolled back so far

vars == <<outbox, published, queued, added, relay, aborts>>

TypeOK ==
    /\ outbox \subseteq Ids /\ published \subseteq outbox /\ queued \subseteq outbox
    /\ added \in [Ids -> Nat]
    /\ relay \in [Relays -> Pass]
    /\ \A p \in Relays : relay[p].at = "idle" <=> relay[p].rows = {}
    /\ aborts \in 0 .. MaxAborts

Init ==
    /\ outbox = {} /\ published = {} /\ queued = {}
    /\ added = [r \in Ids |-> 0]
    /\ relay = [p \in Relays |-> Idle]
    /\ aborts = 0

-----------------------------------------------------------------------------
\* Rows in open transactions are locked.
Open(p) == relay[p].at \in {"publish", "mark"}
Locked == UNION {relay[p].rows : p \in {q \in Relays : Open(q)}}

\* The oldest rows of R, a batch of them at most.
Oldest(R) == {r \in R : Cardinality({q \in R : q < r}) < BatchSize}

\* Slips: the select does not skip rows another pass has locked; it waits for a full batch.
BatchWithLocked == Oldest(outbox \ published)
BatchWhenFull ==
    LET R == (outbox \ published) \ Locked IN
        IF Cardinality(R) >= BatchSize THEN Oldest(R) ELSE {}

Batch == Oldest((outbox \ published) \ Locked)

Go(p, at, rows) == relay' = [relay EXCEPT ![p] = [at |-> at, rows |-> rows]]

\* A hold commits; transactions that began earlier may commit later.
EventWritten(r) ==
    /\ r \notin outbox
    /\ outbox' = outbox \cup {r}
    /\ UNCHANGED <<published, queued, added, relay, aborts>>

\* SELECT ... FOR UPDATE SKIP LOCKED; a pass that finds nothing is over.
ClaimBatch(p) ==
    /\ relay[p] = Idle
    /\ Batch # {}
    /\ Go(p, "publish", Batch)
    /\ UNCHANGED <<outbox, published, queued, added, aborts>>

\* The rows are added in one call; the job id, which is the row's, is added once.
AddRows(p) ==
    /\ queued' = queued \cup relay[p].rows
    /\ added' = [r \in Ids |-> IF r \in relay[p].rows THEN added[r] + 1 ELSE added[r]]

\* Slip: the rows are marked before they are published.
PublishMarksFirst(p) ==
    /\ relay[p].at = "publish"
    /\ published' = published \cup relay[p].rows
    /\ Go(p, "late", relay[p].rows)
    /\ UNCHANGED <<outbox, queued, added, aborts>>

Publish(p) ==
    /\ relay[p].at = "publish"
    /\ AddRows(p)
    /\ Go(p, "mark", relay[p].rows)
    /\ UNCHANGED <<outbox, published, aborts>>

\* Slip: the pass keeps the rows it has marked.
MarkKeepsRows(p) ==
    /\ relay[p].at = "mark"
    /\ published' = published \cup relay[p].rows
    /\ Go(p, "idle", relay[p].rows)
    /\ UNCHANGED <<outbox, queued, added, aborts>>

Mark(p) ==
    /\ relay[p].at = "mark"
    /\ published' = published \cup relay[p].rows
    /\ relay' = [relay EXCEPT ![p] = Idle]
    /\ UNCHANGED <<outbox, queued, added, aborts>>

\* The process dies, the queue or the database fails, or the transaction times out: its
\* locks are gone and nothing is marked.  After a timeout the call to the queue may still
\* be under way.
Abort(p) ==
    /\ Open(p)
    /\ aborts < MaxAborts
    /\ aborts' = aborts + 1
    /\ \/ relay' = [relay EXCEPT ![p] = Idle]
       \/ relay[p].at = "publish" /\ Go(p, "late", relay[p].rows)
    /\ UNCHANGED <<outbox, published, queued, added>>

PublishLate(p) ==
    /\ relay[p].at = "late"
    /\ AddRows(p)
    /\ relay' = [relay EXCEPT ![p] = Idle]
    /\ UNCHANGED <<outbox, published, aborts>>

\* A tick of the timer runs one pass from its claim to its end.
Tick(p) == ClaimBatch(p) \/ Publish(p) \/ Mark(p) \/ PublishLate(p)

Next ==
    \/ \E r \in Ids : EventWritten(r)
    \/ \E p \in Relays : Tick(p) \/ Abort(p)

Spec == Init /\ [][Next]_vars

\* The timer goes on ticking; a pass that began goes on unless it is aborted.
Fairness == \A p \in Relays : WF_vars(Tick(p))

FairSpec == Spec /\ Fairness

-----------------------------------------------------------------------------
(* Properties.                                                             *)

\* Publish first, mark second (publishBatch): a row that is marked is in the queue, so an
\* abort at any point never loses the charge of a booking.
MarkedIsQueued == published \subseteq queued

\* A row is published again only because a transaction was rolled back: concurrent passes, which
\* skip the rows of each other, and late calls alone never duplicate a message.
DuplicatesComeFromAborts == \A r \in Ids : added[r] <= 1 + aborts

\* Every committed event is published and marked, whatever was aborted on the way, also the
\* rows that do not fit into the batch of a pass.
EveryEventIsQueued == \A r \in Ids : r \in outbox ~> r \in queued /\ r \in published
=============================================================================
