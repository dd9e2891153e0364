------------------------------ MODULE Queries ------------------------------
(***************************************************************************)
(* One cached query of the web client (TanStack Query, as this code uses   *)
(* it): the data shown, and the fetch under way.  A fetch is asked for,    *)
(* then read by the server at some moment, then answered.                  *)
(***************************************************************************)
CONSTANT Nothing \* no data yet; no read yet

Query(Data) == [data : Data \cup {Nothing}, fetch : {"none", "asked", "read"},
                seen : Data \cup {Nothing}, failed : BOOLEAN, stale : BOOLEAN]

Empty == [data |-> Nothing, fetch |-> "none", seen |-> Nothing, failed |-> FALSE,
          stale |-> FALSE]

Loaded(q) == q.data # Nothing
Fetching(q) == q.fetch # "none"

\* A new fetch; whatever the old one would have brought is dropped.
Ask(q) == [q EXCEPT !.fetch = "asked", !.seen = Nothing]

\* A fetch nobody insists on: it joins the one under way.
Poll(q) == IF Fetching(q) THEN q ELSE Ask(q)

\* invalidateQueries cancels a refetch, but joins the fetch that loads the first data.
Absorbs(q) == Fetching(q) /\ ~Loaded(q)
Invalidate(q) == [(IF Absorbs(q) THEN q ELSE Ask(q)) EXCEPT !.stale = TRUE]

\* Of a query no open page uses, it only says that the data is not to be trusted.
Mark(q) == [q EXCEPT !.stale = TRUE]

\* A page that starts to use the query fetches it, unless the data is still fresh.
Mounts(q) == {Poll(q)} \cup (IF Loaded(q) /\ ~q.stale THEN {q} ELSE {})

Read(q, value) == [q EXCEPT !.fetch = "read", !.seen = value]
Answer(q) == [Empty EXCEPT !.data = q.seen]

\* The last retry failed: the old data stays.
Fail(q) == [q EXCEPT !.fetch = "none", !.seen = Nothing, !.failed = TRUE]

\* setQueryData
Put(q, value) == [q EXCEPT !.data = value]

\* What the page shows is good enough, or will be once the fetch under way is answered.
WillShow(q, good) ==
    \/ q.fetch = "asked"
    \/ q.fetch = "read" /\ q.seen \in good
    \/ ~Fetching(q) /\ q.data \in good
=============================================================================
