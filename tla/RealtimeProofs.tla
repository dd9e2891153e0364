--------------------------- MODULE RealtimeProofs ---------------------------
(***************************************************************************)
(* What TLC checks of Realtime on small instances, proved for any number   *)
(* of changes, drops, outages and moves of the page.                       *)
(***************************************************************************)
EXTENDS Realtime, FiniteSets, FiniteSetTheorems, SequenceTheorems, TLAPS

-----------------------------------------------------------------------------
(* The inductive invariants.                                               *)

Asking == {v \in Change : publisher[v] = "asking"}

\* Every INCR belongs to a change: it has run, may still run, or is awaited.
CountInv == counter + strays + Cardinality(Asking) <= version

\* A number was given by the counter, for a change that is committed.
NumberInv ==
    /\ \A v \in Change : publisher[v] # "none" => v <= version
    /\ \A v \in Change : publisher[v] = "numbered" => seq[v] \in 1 .. counter
    /\ \A e \in events : e.seq \in 1 .. counter /\ e.change <= version
    /\ lastSeq # Nothing => lastSeq <= counter

\* Nothing is read before it is committed; a page that is closed remembers nothing.
ReadInv ==
    /\ query.fetch = "read" => query.seen \in 0 .. version
    /\ Q!Loaded(query) => query.data \in 0 .. version
    /\ due <= version
    /\ ~mounted => due = 0 /\ lastSeq = Nothing /\ ~absorbed

\* What is cached, or will be once the fetch under way ends, is no older than v, or the page
\* knows that its last read failed.
Heeds(v) ==
    \/ query.fetch = "asked"
    \/ query.fetch = "read" /\ query.seen \in v .. version
    \/ query.fetch = "none" /\ (query.failed \/ query.data \in v .. version)

\* What a number up to the last one stands for was read again already: numbers grow with the
\* changes committed by then.
OwedInv ==
    mounted /\ ~absorbed =>
        /\ Heeds(due)
        /\ lastSeq # Nothing =>
             /\ \A e \in events : e.seq <= lastSeq => Heeds(e.change)
             /\ \A v \in Change : publisher[v] = "numbered" /\ seq[v] <= lastSeq => Heeds(v)

\* The last message on its way to the server says what the page wants; without a connection only
\* departures wait.
LinkInv ==
    /\ badge = "connected" <=> connected
    /\ alive => connected
    /\ alive /\ outbox = <<>> => (inRoom <=> mounted)
    /\ alive /\ outbox # <<>> => (outbox[Len(outbox)] = "watch" <=> mounted)
    /\ ~alive => ~inRoom
    /\ ~connected => \A i \in 1 .. Len(outbox) : outbox[i] = "unwatch"

-----------------------------------------------------------------------------
(* Lemmas about queries.                                                   *)

LEMMA AskEffect ==
    ASSUME NEW q \in Q!Query(Version)
    PROVE  /\ Q!Ask(q) \in Q!Query(Version)
           /\ Q!Ask(q).fetch = "asked" /\ Q!Ask(q).data = q.data
BY DEF Q!Query, Q!Ask

LEMMA PollEffect ==
    ASSUME NEW q \in Q!Query(Version)
    PROVE  /\ Q!Poll(q) \in Q!Query(Version)
           /\ Q!Poll(q) = q \/ (Q!Poll(q).fetch = "asked" /\ Q!Poll(q).data = q.data)
           /\ Q!Poll(q).fetch # "none"
BY AskEffect DEF Q!Poll, Q!Fetching

LEMMA InvalidateEffect ==
    ASSUME NEW q \in Q!Query(Version)
    PROVE  /\ Q!Invalidate(q) \in Q!Query(Version)
           /\ Q!Invalidate(q).data = q.data
           /\ ~Q!Absorbs(q) => Q!Invalidate(q).fetch = "asked"
           /\ Q!Absorbs(q) => Q!Invalidate(q).fetch = q.fetch /\ Q!Invalidate(q).seen = q.seen
<1>1. ASSUME NEW r \in Q!Query(Version)
      PROVE  /\ [r EXCEPT !.stale = TRUE] \in Q!Query(Version)
             /\ [r EXCEPT !.stale = TRUE].data = r.data
             /\ [r EXCEPT !.stale = TRUE].fetch = r.fetch
             /\ [r EXCEPT !.stale = TRUE].seen = r.seen
  BY DEF Q!Query
<1>2. CASE Q!Absorbs(q)
  BY <1>1, <1>2, Zenon DEF Q!Invalidate
<1>3. CASE ~Q!Absorbs(q)
  <2>1. Q!Invalidate(q) = [Q!Ask(q) EXCEPT !.stale = TRUE]
    BY <1>3, Zenon DEF Q!Invalidate
  <2>2. QED
    BY <1>1, <1>3, <2>1, AskEffect, Zenon
<1>4. QED
  BY <1>2, <1>3

LEMMA ReadEffect ==
    ASSUME NEW q \in Q!Query(Version), NEW value \in Version
    PROVE  /\ Q!Read(q, value) \in Q!Query(Version)
           /\ Q!Read(q, value).fetch = "read" /\ Q!Read(q, value).seen = value
           /\ Q!Read(q, value).data = q.data
BY DEF Q!Query, Q!Read

LEMMA AnswerEffect ==
    ASSUME NEW q \in Q!Query(Version)
    PROVE  /\ Q!Answer(q) \in Q!Query(Version)
           /\ Q!Answer(q).fetch = "none" /\ Q!Answer(q).data = q.seen
BY DEF Q!Query, Q!Answer, Q!Empty

LEMMA FailEffect ==
    ASSUME NEW q \in Q!Query(Version)
    PROVE  /\ Q!Fail(q) \in Q!Query(Version)
           /\ Q!Fail(q).fetch = "none" /\ Q!Fail(q).failed /\ Q!Fail(q).data = q.data
BY DEF Q!Query, Q!Fail

LEMMA MountsEffect ==
    ASSUME NEW q \in Q!Query(Version), NEW r \in Q!Mounts(q)
    PROVE  /\ r \in Q!Query(Version)
           /\ r = q \/ (r.fetch = "asked" /\ r.data = q.data)
           /\ r.fetch # "none" \/ Q!Loaded(r)
BY PollEffect DEF Q!Mounts

\* What is asked for heeds everything, and nothing gets older.
LEMMA HeedsLasts ==
    ASSUME TypeOK, NEW v, Heeds(v), version' \in Version, version <= version',
           \/ query' = query
           \/ query'.fetch = "asked"
           \/ FetchReads /\ v \in 0 .. version
           \/ FetchAnswered \/ FetchFails
    PROVE  Heeds(v)'
<1>1. query \in Q!Query(Version) /\ version \in 0 .. MaxChanges /\ version' \in 0 .. MaxChanges
  BY DEF TypeOK, Version
<1>2. CASE query' = query
  BY <1>1, <1>2, BoundsAssumption DEF Heeds
<1>3. CASE query'.fetch = "asked"
  BY <1>3 DEF Heeds
<1>4. CASE FetchReads /\ v \in 0 .. version
  BY <1>1, <1>4, ReadEffect, BoundsAssumption DEF FetchReads, Heeds, TypeOK, serverVars
<1>5. CASE FetchAnswered
  BY <1>1, <1>5, AnswerEffect DEF FetchAnswered, Heeds, serverVars
<1>6. CASE FetchFails
  BY <1>1, <1>6, FailEffect DEF FetchFails, Heeds
<1>7. QED
  BY <1>2, <1>3, <1>4, <1>5, <1>6

-----------------------------------------------------------------------------
(* Types.                                                                  *)

LEMMA AskingFinite == IsFiniteSet(Asking) /\ Cardinality(Asking) \in Nat
<1>1. Asking \in SUBSET (1 .. MaxChanges) /\ MaxChanges \in Int
  BY BoundsAssumption DEF Asking, Change
<1>2. IsFiniteSet(1 .. MaxChanges)
  BY <1>1, FS_Interval
<1>3. IsFiniteSet(Asking)
  BY <1>1, <1>2, FS_Subset
<1>4. QED
  BY <1>3, FS_CardinalityType

LEMMA CountStep ==
    ASSUME TypeOK, CountInv, [Next]_vars
    PROVE  CountInv'
<1>1. /\ version \in Nat /\ counter \in Nat /\ strays \in Nat
      /\ Cardinality(Asking) \in Nat /\ IsFiniteSet(Asking)
      /\ counter + strays + Cardinality(Asking) <= version
  BY AskingFinite, BoundsAssumption DEF TypeOK, CountInv, Version
<1>2. ASSUME UNCHANGED <<counter, strays, version>>, Asking' = Asking
      PROVE  CountInv'
  BY <1>1, <1>2 DEF CountInv
<1>3. ASSUME UNCHANGED <<publisher, counter, strays, version>>
      PROVE  CountInv'
  BY <1>2, <1>3 DEF Asking
<1>4. CASE Commit
  <2>1. Asking' = Asking \cup {version + 1}
    BY <1>1, <1>4, BoundsAssumption DEF Commit, Asking, Change, TypeOK
  <2>2. Cardinality(Asking)' <= Cardinality(Asking) + 1 /\ Cardinality(Asking)' \in Nat
    BY <1>1, <2>1, FS_AddElement
  <2>3. QED
    BY <1>1, <1>4, <2>2 DEF Commit, CountInv
<1>5. ASSUME NEW v \in Change, Numbered(v) \/ GiveUp(v)
      PROVE  CountInv'
  <2>1. Asking' = Asking \ {v} /\ v \in Asking
    BY <1>5 DEF Numbered, GiveUp, Asking, TypeOK
  <2>2. Cardinality(Asking)' = Cardinality(Asking) - 1
    BY <1>1, <2>1, FS_RemoveElement
  <2>3. CASE counter' = counter + 1 /\ strays' = strays /\ version' = version
    BY <1>1, <2>2, <2>3 DEF CountInv
  <2>4. CASE counter' = counter /\ strays' = strays /\ version' = version
    BY <1>1, <2>2, <2>4 DEF CountInv
  <2>5. CASE counter' = counter /\ strays' = strays + 1 /\ version' = version
    BY <1>1, <2>2, <2>5 DEF CountInv
  <2>6. QED
    BY <1>5, <2>3, <2>4, <2>5 DEF Numbered, GiveUp
<1>6. CASE StrayRuns
  <2>1. Asking' = Asking
    BY <1>6 DEF StrayRuns, Asking
  <2>2. QED
    BY <1>1, <1>6, <2>1 DEF StrayRuns, CountInv
<1>7. ASSUME NEW v \in Change, Emit(v)
      PROVE  CountInv'
  <2>1. Asking' = Asking
    BY <1>7 DEF Emit, Asking, TypeOK
  <2>2. QED
    BY <1>2, <1>7, <2>1 DEF Emit
<1>8. ASSUME RedisFails \/ RedisRecovers
      PROVE  CountInv'
  BY <1>3, <1>8 DEF RedisFails, RedisRecovers
<1>9. ASSUME UNCHANGED serverVars
      PROVE  CountInv'
  BY <1>3, <1>9 DEF serverVars
<1>10. ASSUME \/ Serve \/ Fetch \/ FetchFails \/ BoardPolls \/ Mount \/ Unmount \/ Rewatch
              \/ Connect \/ Break \/ Disconnect \/ ConnectFails \/ UNCHANGED vars
              \/ \E e \in events : OnChanged(e)
       PROVE  UNCHANGED serverVars
  BY <1>10 DEF Serve, Fetch, FetchReads, FetchAnswered, FetchFails, BoardPolls, Mount, Unmount, Rewatch,
               Connect, Break, Disconnect, ConnectFails, OnChanged, vars
<1>11. QED
  BY <1>4, <1>5, <1>6, <1>7, <1>8, <1>9, <1>10 DEF Next


ServerTyped ==
    /\ version \in Version
    /\ publisher \in [Change -> Publisher] /\ seq \in [Change -> 0 .. MaxChanges]
    /\ counter \in 0 .. MaxChanges /\ strays \in 0 .. MaxChanges /\ redisUp \in BOOLEAN
    /\ outages \in 0 .. MaxOutages
LinkTyped ==
    /\ connected \in BOOLEAN /\ alive \in BOOLEAN /\ inRoom \in BOOLEAN
    /\ badge \in {"connecting", "connected", "reconnecting", "offline"}
    /\ outbox \in Seq({"watch", "unwatch"})
    /\ events \subseteq Event
    /\ drops \in 0 .. MaxDrops
PageTyped ==
    /\ mounted \in BOOLEAN /\ lastSeq \in Number \cup {Nothing}
    /\ query \in Q!Query(Version)
    /\ due \in Version /\ absorbed \in BOOLEAN
    /\ moves \in 0 .. MaxMoves

LEMMA TypesParts ==
    /\ TypeOK <=> ServerTyped /\ LinkTyped /\ PageTyped
    /\ TypeOK' <=> ServerTyped' /\ LinkTyped' /\ PageTyped'
BY DEF TypeOK, ServerTyped, LinkTyped, PageTyped

LEMMA OneMore ==
    ASSUME NEW m \in Nat, NEW k \in 0 .. m, k < m
    PROVE  k + 1 \in 0 .. m
OBVIOUS

LEMMA PartsBounded ==
    ASSUME NEW m \in Nat, NEW v \in 0 .. m, NEW c \in Nat, NEW s \in Nat, NEW k \in Nat,
           c + s + k <= v
    PROVE  c \in 0 .. m /\ s \in 0 .. m
OBVIOUS

LEMMA ServerTypesStep ==
    ASSUME TypeOK, CountInv, [Next]_vars
    PROVE  ServerTyped'
<1>1. /\ version \in 0 .. MaxChanges /\ counter \in Nat /\ strays \in Nat /\ ServerTyped
      /\ MaxChanges \in Nat /\ MaxOutages \in Nat
  BY TypesParts, BoundsAssumption DEF TypeOK, Version
<1>2. ASSUME version' \in 0 .. MaxChanges, counter' \in Nat, strays' \in Nat
      PROVE  counter' \in 0 .. MaxChanges /\ strays' \in 0 .. MaxChanges
  <2>1. PICK n : n = Cardinality(Asking)'
    OBVIOUS
  <2>2. n \in Nat /\ counter' + strays' + n <= version'
    <3>1. CountInv'
      BY CountStep
    <3>2. Cardinality(Asking)' \in Nat
      <4>1. Asking' \in SUBSET (1 .. MaxChanges)
        BY DEF Asking, Change
      <4>2. IsFiniteSet(1 .. MaxChanges)
        BY <1>1, FS_Interval
      <4>3. IsFiniteSet(Asking')
        BY <4>1, <4>2, FS_Subset
      <4>4. QED
        BY <4>3, FS_CardinalityType
    <3>3. QED
      BY <2>1, <3>1, <3>2 DEF CountInv
  <2>3. QED
    BY <1>1, <1>2, <2>2, PartsBounded
<1>3. CASE UNCHANGED serverVars
  BY <1>1, <1>3 DEF ServerTyped, serverVars
<1>4. CASE Commit
  <2>1. version' \in 0 .. MaxChanges /\ version + 1 \in Change
    BY <1>1, <1>4 DEF Commit, Change
  <2>2. QED
    BY <1>1, <1>4, <2>1 DEF Commit, ServerTyped, Publisher, Version
<1>5. ASSUME NEW v \in Change, Numbered(v)
      PROVE  ServerTyped'
  <2>1. counter' \in 0 .. MaxChanges /\ counter' = counter + 1
    BY <1>1, <1>2, <1>5 DEF Numbered
  <2>2. QED
    BY <1>1, <1>5, <2>1 DEF Numbered, ServerTyped, Publisher
<1>6. ASSUME NEW v \in Change, GiveUp(v)
      PROVE  ServerTyped'
  <2>1. strays' \in 0 .. MaxChanges
    BY <1>1, <1>2, <1>6 DEF GiveUp
  <2>2. QED
    BY <1>1, <1>6, <2>1 DEF GiveUp, ServerTyped, Publisher
<1>7. CASE StrayRuns
  <2>1. counter' \in 0 .. MaxChanges /\ strays' \in 0 .. MaxChanges
    BY <1>1, <1>2, <1>7 DEF StrayRuns
  <2>2. QED
    BY <1>1, <1>7, <2>1 DEF StrayRuns, ServerTyped
<1>8. ASSUME NEW v \in Change, Emit(v)
      PROVE  ServerTyped'
  BY <1>1, <1>8 DEF Emit, ServerTyped, Publisher
<1>9. CASE RedisFails \/ RedisRecovers
  <2>1. outages' \in 0 .. MaxOutages /\ redisUp' \in BOOLEAN
    BY <1>1, <1>9, OneMore DEF RedisFails, RedisRecovers, ServerTyped
  <2>2. QED
    BY <1>1, <1>9, <2>1 DEF RedisFails, RedisRecovers, ServerTyped
<1>10. ASSUME \/ Serve \/ Fetch \/ FetchFails \/ BoardPolls \/ Mount \/ Unmount \/ Rewatch
              \/ Connect \/ Break \/ Disconnect \/ ConnectFails \/ UNCHANGED vars
              \/ \E e \in events : OnChanged(e)
       PROVE  UNCHANGED serverVars
  BY <1>10 DEF Serve, Fetch, FetchReads, FetchAnswered, FetchFails, BoardPolls, Mount, Unmount, Rewatch,
               Connect, Break, Disconnect, ConnectFails, OnChanged, vars
<1>11. QED
  BY <1>3, <1>4, <1>5, <1>6, <1>7, <1>8, <1>9, <1>10 DEF Next

LEMMA LinkTypesStep ==
    ASSUME TypeOK, NumberInv, [Next]_vars
    PROVE  LinkTyped'
<1>1. LinkTyped /\ MaxDrops \in Nat
  BY TypesParts, BoundsAssumption
<1>2. ASSUME UNCHANGED linkVars
      PROVE  LinkTyped'
  BY <1>1, <1>2 DEF LinkTyped, linkVars
<1>3. ASSUME NEW v \in Change, Emit(v)
      PROVE  LinkTyped'
  <2>1. PICK e : e = [change |-> v, seq |-> seq[v]]
    OBVIOUS
  <2>2. e \in Event
    BY <1>3, <2>1, BoundsAssumption DEF Emit, NumberInv, TypeOK, Event, Number
  <2>3. events' \subseteq events \cup {e}
    BY <1>3, <2>1 DEF Emit, Fanned
  <2>4. QED
    BY <1>1, <1>3, <2>2, <2>3 DEF Emit, LinkTyped
<1>4. CASE Serve
  BY <1>1, <1>4 DEF Serve, LinkTyped
<1>5. CASE Connect
  <2>1. outbox' = outbox \/ outbox' = Append(outbox, "watch")
    BY <1>5 DEF Connect, OnConnect
  <2>2. QED
    BY <1>1, <1>5, <2>1 DEF Connect, LinkTyped
<1>6. CASE Break \/ Disconnect
  <2>1. drops' \in 0 .. MaxDrops
    BY <1>1, <1>6, OneMore DEF Break, Disconnect, LinkTyped
  <2>2. outbox' \in Seq({"watch", "unwatch"})
    <3>1. outbox' = outbox \/ outbox' = <<>>
      BY <1>6 DEF Break, Disconnect
    <3>2. <<>> \in Seq({"watch", "unwatch"})
      OBVIOUS
    <3>3. QED
      BY <1>1, <3>1, <3>2, Zenon DEF LinkTyped
  <2>3. QED
    BY <1>1, <1>6, <2>1, <2>2 DEF Break, Disconnect, LinkTyped
<1>7. CASE ConnectFails
  BY <1>1, <1>7 DEF ConnectFails, LinkTyped
<1>8. CASE Mount \/ Unmount \/ Rewatch
  <2>1. Join \in Seq({"watch", "unwatch"})
    <3>1. <<>> \in Seq({"watch", "unwatch"}) /\ <<"watch">> \in Seq({"watch", "unwatch"})
      OBVIOUS
    <3>2. QED
      BY <3>1 DEF Join
  <2>2. Append(outbox, "unwatch") \in Seq({"watch", "unwatch"})
    BY <1>1 DEF LinkTyped
  <2>3. outbox \o Join \in Seq({"watch", "unwatch"})
    BY <1>1, <2>1, ConcatProperties DEF LinkTyped
  <2>4. Append(outbox, "unwatch") \o Join \in Seq({"watch", "unwatch"})
    BY <2>1, <2>2, ConcatProperties
  <2>5. outbox' \in Seq({"watch", "unwatch"})
    BY <1>1, <1>8, <2>2, <2>3, <2>4, Zenon DEF Mount, Unmount, Rewatch
  <2>6. QED
    BY <1>1, <1>8, <2>5 DEF Mount, Unmount, Rewatch, LinkTyped
<1>9. ASSUME NEW e \in events, OnChanged(e)
      PROVE  LinkTyped'
  BY <1>1, <1>9 DEF OnChanged, LinkTyped
<1>10. ASSUME \/ Commit \/ StrayRuns \/ RedisFails \/ RedisRecovers \/ UNCHANGED vars
              \/ Fetch \/ FetchFails \/ BoardPolls \/ \E v \in Change : Numbered(v) \/ GiveUp(v)
       PROVE  UNCHANGED linkVars
  BY <1>10 DEF Commit, StrayRuns, RedisFails, RedisRecovers, Numbered, GiveUp, Fetch, FetchReads,
               FetchAnswered, FetchFails, BoardPolls, vars
<1>11. QED
  BY <1>2, <1>3, <1>4, <1>5, <1>6, <1>7, <1>8, <1>9, <1>10 DEF Next

LEMMA PageTypesStep ==
    ASSUME TypeOK, [Next]_vars
    PROVE  PageTyped'
<1>1. PageTyped /\ MaxMoves \in Nat /\ query \in Q!Query(Version) /\ version \in Version
  BY TypesParts, BoundsAssumption DEF TypeOK
<1>2. ASSUME UNCHANGED pageVars
      PROVE  PageTyped'
  BY <1>1, <1>2 DEF PageTyped, pageVars
<1>3. ASSUME NEW v \in Version, Reread(v)
      PROVE  query' \in Q!Query(Version) /\ due' \in Version /\ absorbed' \in BOOLEAN
  BY <1>1, <1>3, InvalidateEffect DEF Reread, Q!Absorbs, PageTyped
<1>4. CASE FetchReads
  BY <1>1, <1>4, ReadEffect DEF FetchReads, PageTyped
<1>5. CASE FetchAnswered
  BY <1>1, <1>5, AnswerEffect DEF FetchAnswered, PageTyped
<1>6. CASE FetchFails
  BY <1>1, <1>6, FailEffect DEF FetchFails, PageTyped
<1>7. CASE BoardPolls
  BY <1>1, <1>7, PollEffect DEF BoardPolls, PageTyped
<1>8. CASE Mount
  BY <1>1, <1>8, MountsEffect DEF Mount, PageTyped
<1>9. CASE Unmount \/ Rewatch
  <2>1. moves' \in 0 .. MaxMoves
    BY <1>1, <1>9, OneMore DEF Unmount, Rewatch, PageTyped
  <2>2. due' \in Version /\ query' = query
    BY <1>1, <1>9, BoundsAssumption DEF Unmount, Rewatch, PageTyped, Version
  <2>3. QED
    BY <1>1, <1>9, <2>1, <2>2 DEF Unmount, Rewatch, PageTyped
<1>10. ASSUME NEW e \in events, OnChanged(e)
       PROVE  PageTyped'
  <2>1. e.change \in Version /\ e.seq \in Number
    BY BoundsAssumption DEF TypeOK, Event, Change, Version
  <2>2. CASE mounted /\ (lastSeq # Nothing => e.seq > lastSeq)
    BY <1>1, <1>3, <1>10, <2>1, <2>2 DEF OnChanged, PageTyped
  <2>3. CASE ~(mounted /\ (lastSeq # Nothing => e.seq > lastSeq))
    BY <1>1, <1>10, <2>1, <2>3 DEF OnChanged, PageTyped
  <2>4. QED
    BY <2>2, <2>3
<1>11. CASE Connect
  <2>1. CASE mounted
    BY <1>1, <1>3, <1>11, <2>1 DEF Connect, OnConnect, PageTyped
  <2>2. CASE ~mounted
    BY <1>1, <1>11, <2>2 DEF Connect, OnConnect, PageTyped
  <2>3. QED
    BY <2>1, <2>2
<1>12. ASSUME \/ Commit \/ StrayRuns \/ RedisFails \/ RedisRecovers \/ UNCHANGED vars
              \/ Serve \/ Break \/ Disconnect \/ ConnectFails
              \/ \E v \in Change : Numbered(v) \/ GiveUp(v) \/ Emit(v)
       PROVE  UNCHANGED pageVars
  BY <1>12 DEF Commit, StrayRuns, RedisFails, RedisRecovers, Numbered, GiveUp, Emit, Serve,
               Break, Disconnect, ConnectFails, vars
<1>13. QED
  BY <1>2, <1>4, <1>5, <1>6, <1>7, <1>8, <1>9, <1>10, <1>11, <1>12 DEF Next, Fetch

-----------------------------------------------------------------------------
(* Numbers.                                                                *)

LEMMA NumberStep ==
    ASSUME TypeOK, NumberInv, [Next]_vars
    PROVE  NumberInv'
<1>1. /\ version \in Int /\ counter \in Nat /\ MaxChanges \in Nat /\ Change = 1 .. MaxChanges
      /\ publisher \in [Change -> Publisher] /\ seq \in [Change -> 0 .. MaxChanges]
      /\ events \subseteq Event /\ lastSeq \in Number \cup {Nothing}
  BY BoundsAssumption DEF TypeOK, Version, Change
<1>2. ASSUME UNCHANGED <<version, publisher, seq, counter>>, events' \subseteq events,
             lastSeq' \in {lastSeq, Nothing}
      PROVE  NumberInv'
  BY <1>2 DEF NumberInv
<1>3. CASE Commit
  <2>1. /\ version' = version + 1 /\ UNCHANGED <<seq, counter, events, lastSeq>>
        /\ \A v \in Change : publisher'[v] = publisher[v] \/ (v = version + 1 /\ publisher'[v] = "asking")
    BY <1>1, <1>3 DEF Commit, linkVars, pageVars
  <2>2. \A v \in Change : publisher'[v] # "none" => v <= version'
    BY <1>1, <2>1 DEF NumberInv
  <2>3. \A v \in Change : publisher'[v] = "numbered" => seq'[v] \in 1 .. counter'
    BY <2>1 DEF NumberInv
  <2>4. \A e \in events : e.change \in Int /\ e.seq \in Int
    BY <1>1 DEF Event, Number
  <2>5. \A e \in events' : e.seq \in 1 .. counter' /\ e.change <= version'
    BY <1>1, <2>1, <2>4 DEF NumberInv
  <2>6. QED
    BY <2>1, <2>2, <2>3, <2>5 DEF NumberInv
<1>4. ASSUME counter' = counter + 1, UNCHANGED <<version, events, lastSeq>>,
             \A v \in Change : \/ publisher'[v] = publisher[v] /\ seq'[v] = seq[v]
                               \/ publisher[v] # "none" /\ seq'[v] = counter + 1
      PROVE  NumberInv'
  <2>1. 1 .. counter \subseteq 1 .. counter + 1 /\ counter + 1 \in 1 .. counter + 1
    BY <1>1
  <2>2. \A v \in Change : publisher'[v] # "none" => v <= version'
    BY <1>4 DEF NumberInv
  <2>3. \A v \in Change : publisher'[v] = "numbered" => seq'[v] \in 1 .. counter'
    BY <1>4, <2>1 DEF NumberInv
  <2>4. \A e \in events' : e.seq \in 1 .. counter' /\ e.change <= version'
    BY <1>4, <2>1 DEF NumberInv
  <2>5. lastSeq' # Nothing => lastSeq' <= counter'
    BY <1>1, <1>4 DEF NumberInv, Number
  <2>6. QED
    BY <2>2, <2>3, <2>4, <2>5 DEF NumberInv
<1>5. ASSUME NEW v \in Change, Numbered(v)
      PROVE  NumberInv'
  BY <1>1, <1>4, <1>5 DEF Numbered, linkVars, pageVars
<1>6. CASE StrayRuns
  BY <1>1, <1>4, <1>6 DEF StrayRuns, linkVars, pageVars
<1>7. ASSUME NEW v \in Change, GiveUp(v)
      PROVE  NumberInv'
  <2>1. \A w \in Change : publisher'[w] = publisher[w] \/ (publisher'[w] = "ended" /\ publisher[w] # "none")
    BY <1>1, <1>7 DEF GiveUp
  <2>2. UNCHANGED <<version, seq, counter, events, lastSeq>>
    BY <1>7 DEF GiveUp, linkVars, pageVars
  <2>3. QED
    BY <2>1, <2>2 DEF NumberInv
<1>8. ASSUME NEW v \in Change, Emit(v)
      PROVE  NumberInv'
  <2>1. PICK e : e = [change |-> v, seq |-> seq[v]]
    OBVIOUS
  <2>2. /\ events' \subseteq events \cup {e}
        /\ e.seq \in 1 .. counter /\ e.change <= version
        /\ UNCHANGED <<version, counter, lastSeq>>
    BY <1>8, <2>1 DEF Emit, Fanned, NumberInv, pageVars
  <2>3. \A w \in Change : \/ publisher'[w] = publisher[w] /\ seq'[w] = seq[w]
                          \/ publisher'[w] = "ended" /\ publisher[w] # "none"
    BY <1>1, <1>8 DEF Emit
  <2>4. QED
    BY <2>2, <2>3 DEF NumberInv
<1>9. ASSUME NEW e \in events, OnChanged(e)
      PROVE  NumberInv'
  <2>1. /\ UNCHANGED <<version, publisher, seq, counter>> /\ events' \subseteq events
        /\ lastSeq' = lastSeq \/ lastSeq' = e.seq
    BY <1>9 DEF OnChanged, serverVars
  <2>2. e.seq <= counter
    BY <1>1 DEF NumberInv
  <2>3. QED
    BY <2>1, <2>2 DEF NumberInv
<1>10. ASSUME \/ RedisFails \/ RedisRecovers \/ Serve \/ Fetch \/ FetchFails \/ BoardPolls
              \/ Mount \/ Unmount \/ Rewatch \/ Connect \/ Break \/ Disconnect \/ ConnectFails
              \/ UNCHANGED vars
       PROVE  NumberInv'
  <2>1. /\ UNCHANGED <<version, publisher, seq, counter>> /\ events' \subseteq events
        /\ lastSeq' \in {lastSeq, Nothing}
    BY <1>10 DEF RedisFails, RedisRecovers, Serve, Fetch, FetchReads, FetchAnswered, FetchFails,
                 BoardPolls, Mount, Unmount, Rewatch, Connect, Break, Disconnect, ConnectFails,
                 vars, serverVars, linkVars, pageVars
  <2>2. QED
    BY <1>2, <2>1
<1>11. QED
  BY <1>3, <1>5, <1>6, <1>7, <1>8, <1>9, <1>10 DEF Next

-----------------------------------------------------------------------------
(* What the page read.                                                     *)

LEMMA ReadStep ==
    ASSUME TypeOK, NumberInv, ReadInv, [Next]_vars
    PROVE  ReadInv'
<1>1. /\ version \in Nat /\ version \in Version /\ version \in 0 .. version
      /\ due \in Int /\ MaxChanges \in Nat
      /\ query \in Q!Query(Version)
  BY BoundsAssumption DEF TypeOK, Version
<1>2. ASSUME query'.fetch # "read" \/ query'.seen \in 0 .. version,
             query'.data = Nothing \/ query'.data \in 0 .. version,
             version' = version, UNCHANGED <<mounted, lastSeq, due, absorbed>>
      PROVE  ReadInv'
  BY <1>2 DEF ReadInv, Q!Loaded
<1>3. query.data = Nothing \/ query.data \in 0 .. version
  BY DEF ReadInv, Q!Loaded
<1>4. CASE Commit
  <2>1. version' = version + 1 /\ UNCHANGED pageVars
    BY <1>4 DEF Commit
  <2>2. 0 .. version \subseteq 0 .. version' /\ due <= version'
    BY <1>1, <2>1 DEF ReadInv
  <2>3. QED
    BY <2>1, <2>2 DEF ReadInv, pageVars, Q!Loaded
<1>5. CASE FetchReads
  BY <1>1, <1>2, <1>3, <1>5, ReadEffect DEF FetchReads, serverVars
<1>6. CASE FetchAnswered
  BY <1>1, <1>2, <1>6, AnswerEffect DEF FetchAnswered, serverVars, ReadInv
<1>7. CASE FetchFails
  BY <1>1, <1>2, <1>3, <1>7, FailEffect DEF FetchFails, serverVars
<1>8. CASE BoardPolls
  <2>1. query'.fetch # "read" \/ query'.seen \in 0 .. version
    BY <1>1, <1>8, PollEffect DEF BoardPolls, ReadInv
  <2>2. query'.data = query.data
    BY <1>1, <1>8, PollEffect DEF BoardPolls
  <2>3. QED
    BY <1>2, <1>3, <1>8, <2>1, <2>2 DEF BoardPolls, serverVars
<1>9. CASE Mount
  <2>1. query'.fetch # "read" \/ query'.seen \in 0 .. version
    BY <1>1, <1>9, MountsEffect DEF Mount, ReadInv
  <2>2. query'.data = query.data
    BY <1>1, <1>9, MountsEffect DEF Mount
  <2>3. QED
    BY <1>3, <1>9, <2>1, <2>2 DEF Mount, serverVars, ReadInv, Q!Loaded
<1>10. CASE Unmount \/ Rewatch
  BY <1>1, <1>10 DEF Unmount, Rewatch, serverVars, ReadInv, Q!Loaded
<1>11. ASSUME NEW v \in Int, v <= version, mounted, Reread(v),
              UNCHANGED <<version, mounted>>
       PROVE  ReadInv'
  <2>1. query'.fetch # "read" \/ query'.seen \in 0 .. version
    BY <1>1, <1>11, InvalidateEffect DEF Reread, ReadInv
  <2>2. query'.data = query.data
    BY <1>1, <1>11, InvalidateEffect DEF Reread
  <2>3. due' <= version'
    BY <1>1, <1>11 DEF Reread, ReadInv
  <2>4. QED
    BY <1>3, <1>11, <2>1, <2>2, <2>3 DEF ReadInv, Q!Loaded
<1>12. ASSUME NEW e \in events, OnChanged(e)
       PROVE  ReadInv'
  <2>1. e.change \in Int /\ e.change <= version
    BY DEF NumberInv, TypeOK, Event, Change
  <2>2. version' = version /\ mounted' = mounted
    BY <1>12 DEF OnChanged, serverVars
  <2>3. CASE mounted /\ (lastSeq # Nothing => e.seq > lastSeq)
    BY <1>11, <1>12, <2>1, <2>2, <2>3 DEF OnChanged
  <2>4. CASE ~(mounted /\ (lastSeq # Nothing => e.seq > lastSeq))
    <3>1. /\ UNCHANGED <<lastSeq, query, absorbed>>
          /\ due' = IF mounted /\ e.change > due THEN e.change ELSE due
      BY <1>12, <2>4 DEF OnChanged
    <3>2. due' <= version /\ (~mounted => due' = due)
      BY <1>1, <2>1, <3>1 DEF ReadInv
    <3>3. QED
      BY <2>2, <3>1, <3>2 DEF ReadInv, Q!Loaded
  <2>5. QED
    BY <2>3, <2>4
<1>13. CASE Connect
  <2>1. version' = version /\ mounted' = mounted /\ lastSeq' = lastSeq
    BY <1>13 DEF Connect, serverVars
  <2>2. CASE mounted
    BY <1>1, <1>11, <1>13, <2>1, <2>2 DEF Connect, OnConnect
  <2>3. CASE ~mounted
    BY <1>13, <2>1, <2>3 DEF Connect, OnConnect, ReadInv, Q!Loaded
  <2>4. QED
    BY <2>2, <2>3
<1>14. ASSUME \/ StrayRuns \/ RedisFails \/ RedisRecovers \/ UNCHANGED vars
              \/ Serve \/ Break \/ Disconnect \/ ConnectFails
              \/ \E v \in Change : Numbered(v) \/ GiveUp(v) \/ Emit(v)
       PROVE  ReadInv'
  <2>1. UNCHANGED <<version, pageVars>>
    BY <1>14 DEF StrayRuns, RedisFails, RedisRecovers, Numbered, GiveUp, Emit, Serve,
                 Break, Disconnect, ConnectFails, vars, serverVars
  <2>2. QED
    BY <2>1 DEF ReadInv, pageVars, Q!Loaded
<1>15. QED
  BY <1>4, <1>5, <1>6, <1>7, <1>8, <1>9, <1>10, <1>12, <1>13, <1>14 DEF Next, Fetch

-----------------------------------------------------------------------------
(* What the page is owed.                                                  *)

LEMMA OwedStep ==
    ASSUME TypeOK, NumberInv, ReadInv, OwedInv, TypeOK', [Next]_vars
    PROVE  OwedInv'
<1>1. /\ version \in Nat /\ version \in Version /\ counter \in Nat /\ due \in 0 .. version
      /\ query \in Q!Query(Version) /\ version' \in Version
      /\ publisher \in [Change -> Publisher] /\ seq \in [Change -> 0 .. MaxChanges]
      /\ lastSeq \in Number \cup {Nothing}
  <2>1. /\ version \in Nat /\ version' \in Version /\ counter \in Nat
        /\ query \in Q!Query(Version) /\ version \in Version
        /\ publisher \in [Change -> Publisher] /\ seq \in [Change -> 0 .. MaxChanges]
        /\ lastSeq \in Number \cup {Nothing}
    <3>1. version' \in Version
      BY DEF TypeOK
    <3>2. MaxChanges \in Nat
      BY BoundsAssumption
    <3>3. QED
      BY <3>1, <3>2 DEF TypeOK, Version
  <2>2. due \in 0 .. version
    BY <2>1, BoundsAssumption DEF TypeOK, ReadInv, Version
  <2>3. QED
    BY <2>1, <2>2
<1>2. /\ \A e \in events : e.change \in 0 .. version /\ e.seq \in Int
      /\ \A v \in Change : publisher[v] # "none" => v \in 0 .. version
  <2>1. ASSUME NEW e \in events
        PROVE  e.change \in 0 .. version /\ e.seq \in Int
    <3>1. e.change \in 1 .. MaxChanges /\ e.seq \in 1 .. MaxChanges /\ e.change <= version
      BY DEF TypeOK, NumberInv, Event, Number, Change
    <3>2. QED
      BY <1>1, <3>1, BoundsAssumption
  <2>2. ASSUME NEW v \in Change, publisher[v] # "none"
        PROVE  v \in 0 .. version
    <3>1. v \in 1 .. MaxChanges /\ v <= version
      BY <2>2 DEF NumberInv, Change
    <3>2. QED
      BY <1>1, <3>1, BoundsAssumption
  <2>3. QED
    BY <2>1, <2>2
<1>3. ASSUME query'.fetch = "asked"
      PROVE  OwedInv'
  BY <1>3 DEF OwedInv, Heeds
\* What was heeded still is, and nothing else has a number the page has seen.
<1>4. ASSUME UNCHANGED <<mounted, absorbed>>, due' = due, lastSeq' \in {lastSeq, Nothing},
             \A v \in 0 .. version : Heeds(v) => Heeds(v)',
             \A e \in events' \ events :
                \E v \in Change : publisher[v] = "numbered" /\ e.change = v /\ e.seq = seq[v],
             \A v \in Change : publisher'[v] = "numbered" =>
                \/ publisher[v] = "numbered" /\ seq'[v] = seq[v]
                \/ lastSeq # Nothing => seq'[v] > lastSeq /\ seq'[v] \in Int
      PROVE  OwedInv'
  <2>1. SUFFICES ASSUME mounted, ~absorbed
                 PROVE  /\ Heeds(due)'
                        /\ lastSeq' # Nothing =>
                             /\ \A e \in events' : e.seq <= lastSeq' => Heeds(e.change)'
                             /\ \A v \in Change :
                                   publisher'[v] = "numbered" /\ seq'[v] <= lastSeq' => Heeds(v)'
    BY <1>4 DEF OwedInv, Heeds
  <2>2. Heeds(due)'
    BY <1>1, <1>4, <2>1 DEF OwedInv, Heeds
  <2>3. ASSUME NEW e \in events', lastSeq' # Nothing, e.seq <= lastSeq'
        PROVE  Heeds(e.change)'
    <3>1. Heeds(e.change) /\ e.change \in 0 .. version
      BY <1>2, <1>4, <2>1, <2>3 DEF OwedInv
    <3>2. PICK v \in 0 .. version : v = e.change
      BY <3>1
    <3>3. Heeds(v) => Heeds(v)'
      BY <1>4
    <3>4. QED
      BY <3>1, <3>2, <3>3
  <2>4. ASSUME NEW v \in Change, publisher'[v] = "numbered", lastSeq' # Nothing, seq'[v] <= lastSeq'
        PROVE  Heeds(v)'
    <3>1. lastSeq' = lastSeq /\ lastSeq \in Int
      BY <1>1, <1>4, <2>4 DEF Number
    <3>2. publisher[v] = "numbered" /\ seq'[v] = seq[v]
      BY <1>4, <2>4, <3>1
    <3>3. Heeds(v) /\ v \in 0 .. version
      BY <1>2, <2>1, <2>4, <3>1, <3>2 DEF OwedInv
    <3>4. QED
      BY <1>4, <3>3
  <2>5. QED
    BY <2>2, <2>3, <2>4
<1>5. ASSUME version <= version', query' = query
      PROVE  \A v \in 0 .. version : Heeds(v) => Heeds(v)'
  BY <1>1, <1>5, HeedsLasts
<1>6. CASE Commit
  <2>1. /\ version' = version + 1 /\ UNCHANGED <<mounted, absorbed, due, lastSeq, query, events, seq>>
        /\ \A v \in Change : publisher'[v] = "numbered" => publisher[v] = "numbered"
    BY <1>1, <1>6 DEF Commit, linkVars, pageVars
  <2>2. \A v \in 0 .. version : Heeds(v) => Heeds(v)'
    BY <1>1, <1>5, <2>1
  <2>3. QED
    BY <1>4, <2>1, <2>2
<1>7. ASSUME NEW v \in Change, Numbered(v)
      PROVE  OwedInv'
  <2>1. /\ version' = version /\ UNCHANGED <<mounted, absorbed, due, lastSeq, query, events>>
        /\ \A w \in Change : publisher'[w] = "numbered" =>
              \/ publisher[w] = "numbered" /\ seq'[w] = seq[w]
              \/ seq'[w] = counter + 1
    BY <1>1, <1>7 DEF Numbered, linkVars, pageVars
  <2>2. lastSeq # Nothing => counter + 1 > lastSeq
    BY <1>1 DEF NumberInv, Number
  <2>3. \A w \in 0 .. version : Heeds(w) => Heeds(w)'
    BY <1>1, <1>5, <2>1
  <2>4. QED
    BY <1>1, <1>4, <2>1, <2>2, <2>3
<1>8. ASSUME NEW v \in Change, GiveUp(v)
      PROVE  OwedInv'
  <2>1. /\ version' = version
        /\ UNCHANGED <<mounted, absorbed, due, lastSeq, query, events, seq>>
        /\ \A w \in Change : publisher'[w] = "numbered" => publisher[w] = "numbered"
    BY <1>1, <1>8 DEF GiveUp, linkVars, pageVars
  <2>2. \A w \in 0 .. version : Heeds(w) => Heeds(w)'
    BY <1>1, <1>5, <2>1
  <2>3. QED
    BY <1>4, <2>1, <2>2
<1>9. ASSUME NEW v \in Change, Emit(v)
      PROVE  OwedInv'
  <2>1. /\ version' = version /\ UNCHANGED <<mounted, absorbed, due, lastSeq, query>>
        /\ \A w \in Change : publisher'[w] = "numbered" => publisher[w] = "numbered" /\ seq'[w] = seq[w]
    BY <1>1, <1>9 DEF Emit, pageVars
  <2>2. \A e \in events' \ events : publisher[v] = "numbered" /\ e.change = v /\ e.seq = seq[v]
    BY <1>9 DEF Emit, Fanned
  <2>3. \A w \in 0 .. version : Heeds(w) => Heeds(w)'
    BY <1>1, <1>5, <2>1
  <2>4. QED
    BY <1>4, <2>1, <2>2, <2>3
<1>10. CASE FetchReads \/ FetchAnswered \/ FetchFails
  <2>1. /\ version' = version /\ UNCHANGED <<mounted, absorbed, due, lastSeq, events, publisher, seq>>
    BY <1>10 DEF FetchReads, FetchAnswered, FetchFails, serverVars, linkVars
  <2>2. \A w \in 0 .. version : Heeds(w) => Heeds(w)'
    BY <1>1, <1>10, <2>1, HeedsLasts
  <2>3. QED
    BY <1>4, <2>1, <2>2
<1>11. CASE BoardPolls
  BY <1>1, <1>3, <1>11 DEF BoardPolls, Q!Poll, Q!Ask, Q!Query
<1>12. CASE Mount
  <2>1. due' = 0 /\ lastSeq' = Nothing
    BY <1>12 DEF Mount, ReadInv
  <2>2. CASE query'.fetch = "asked"
    BY <1>3, <2>2
  <2>3. CASE query' = query /\ (query.fetch # "none" \/ Q!Loaded(query))
    <3>1. version' = version
      BY <1>12 DEF Mount, serverVars
    <3>2. query.fetch \in {"none", "asked", "read"}
      BY <1>1 DEF Q!Query
    <3>3. Heeds(0)'
      BY <2>3, <3>1, <3>2 DEF ReadInv, Heeds
    <3>4. QED
      BY <2>1, <3>3 DEF OwedInv, Heeds
  <2>4. QED
    BY <1>1, <1>12, <2>2, <2>3, MountsEffect DEF Mount
<1>13. CASE Unmount
  BY <1>13 DEF Unmount, OwedInv
<1>14. ASSUME NEW v, Reread(v)
       PROVE  OwedInv'
  BY <1>1, <1>3, <1>14, InvalidateEffect DEF Reread, OwedInv
<1>15. ASSUME NEW e \in events, OnChanged(e)
       PROVE  OwedInv'
  <2>1. CASE mounted /\ (lastSeq # Nothing => e.seq > lastSeq)
    BY <1>14, <1>15, <2>1 DEF OnChanged
  <2>2. CASE ~mounted
    BY <1>15, <2>2 DEF OnChanged, OwedInv
  <2>3. CASE mounted /\ lastSeq # Nothing /\ ~(e.seq > lastSeq)
    <3>1. /\ UNCHANGED <<version, publisher, seq, mounted, lastSeq, query, absorbed>>
          /\ events' \subseteq events
          /\ due' \in {e.change, due}
      BY <1>15, <2>3 DEF OnChanged, serverVars
    <3>2. e.seq <= lastSeq
      BY <1>1, <1>2, <2>3 DEF Number
    <3>3. ~absorbed => Heeds(e.change) /\ Heeds(due)
      BY <2>3, <3>2 DEF OwedInv
    <3>4. ~absorbed => Heeds(due)'
      BY <3>1, <3>3 DEF Heeds
    <3>5. QED
      BY <3>1, <3>4 DEF OwedInv, Heeds
  <2>4. QED
    BY <2>1, <2>2, <2>3
<1>16. CASE Connect
  <2>1. CASE mounted
    BY <1>14, <1>16, <2>1 DEF Connect, OnConnect
  <2>2. CASE ~mounted
    BY <1>16, <2>2 DEF Connect, OwedInv
  <2>3. QED
    BY <2>1, <2>2
<1>17. ASSUME \/ StrayRuns \/ RedisFails \/ RedisRecovers \/ UNCHANGED vars
              \/ Serve \/ Break \/ Disconnect \/ ConnectFails \/ Rewatch
       PROVE  OwedInv'
  <2>1. /\ UNCHANGED <<version, publisher, seq, mounted, absorbed, due, query>>
        /\ events' \subseteq events /\ lastSeq' \in {lastSeq, Nothing}
    BY <1>17 DEF StrayRuns, RedisFails, RedisRecovers, Serve, Break, Disconnect, ConnectFails, Rewatch,
                 vars, serverVars, linkVars, pageVars
  <2>2. \A w \in 0 .. version : Heeds(w) => Heeds(w)'
    BY <1>1, <1>5, <2>1
  <2>3. QED
    BY <1>4, <2>1, <2>2
<1>18. QED
  BY <1>6, <1>7, <1>8, <1>9, <1>10, <1>11, <1>12, <1>13, <1>15, <1>16, <1>17 DEF Next, Fetch

-----------------------------------------------------------------------------
(* The link.                                                               *)

LEMMA LastMessage ==
    ASSUME NEW s \in Seq({"watch", "unwatch"}), NEW m \in {"watch", "unwatch"}
    PROVE  /\ Append(s, m) # <<>> /\ Append(s, m)[Len(Append(s, m))] = m
           /\ s \o <<m>> = Append(s, m) /\ Append(s, m) \in Seq({"watch", "unwatch"})
           /\ (\A i \in 1 .. Len(s) : s[i] = m) => \A i \in 1 .. Len(Append(s, m)) : Append(s, m)[i] = m
<1>1. Append(s, m) # <<>> /\ Append(s, m)[Len(Append(s, m))] = m /\ Append(s, m) \in Seq({"watch", "unwatch"})
  BY AppendProperties
<1>2. s \o <<m>> = Append(s, m)
  BY AppendIsConcat
<1>3. (\A i \in 1 .. Len(s) : s[i] = m) => \A i \in 1 .. Len(Append(s, m)) : Append(s, m)[i] = m
  OBVIOUS
<1>4. QED
  BY <1>1, <1>2, <1>3

LEMMA RestOfMessages ==
    ASSUME NEW s \in Seq({"watch", "unwatch"}), s # <<>>
    PROVE  \/ Tail(s) = <<>> /\ Len(s) = 1
           \/ Tail(s) # <<>> /\ Tail(s)[Len(Tail(s))] = s[Len(s)]
<1>1. /\ Len(s) \in Nat \ {0} /\ Tail(s) \in Seq({"watch", "unwatch"}) /\ Len(Tail(s)) = Len(s) - 1
      /\ \A i \in 1 .. Len(Tail(s)) : Tail(s)[i] = s[i + 1]
      /\ Tail(s) = <<>> <=> Len(Tail(s)) = 0
  <2>1. PICK r : r = Tail(s)
    OBVIOUS
  <2>2. r \in Seq({"watch", "unwatch"})
    BY <2>1, HeadTailProperties
  <2>3. r = <<>> <=> Len(r) = 0
    BY <2>2, EmptySeq
  <2>4. Len(s) \in Nat \ {0}
    BY EmptySeq
  <2>5. QED
    BY <2>1, <2>2, <2>3, <2>4, HeadTailProperties
<1>2. PICK n : n = Len(s)
  OBVIOUS
<1>3. CASE n = 1
  BY <1>1, <1>2, <1>3
<1>4. CASE n > 1
  <2>1. n - 1 \in 1 .. n - 1 /\ (n - 1) + 1 = n /\ n - 1 # 0
    BY <1>1, <1>2, <1>4
  <2>2. Tail(s)[n - 1] = s[n]
    BY <1>1, <1>2, <2>1
  <2>3. QED
    BY <1>1, <1>2, <2>1, <2>2
<1>5. QED
  BY <1>1, <1>2, <1>3, <1>4

LEMMA LinkStep ==
    ASSUME TypeOK, LinkInv, [Next]_vars
    PROVE  LinkInv'
<1>1. /\ outbox \in Seq({"watch", "unwatch"})
      /\ connected \in BOOLEAN /\ alive \in BOOLEAN /\ inRoom \in BOOLEAN /\ mounted \in BOOLEAN
  BY DEF TypeOK
<1>2. ASSUME UNCHANGED <<connected, alive, badge, inRoom, outbox, mounted>>
      PROVE  LinkInv'
  BY <1>2 DEF LinkInv
<1>3. CASE Serve
  <2>1. /\ alive /\ outbox # <<>> /\ outbox' = Tail(outbox)
        /\ inRoom' = (outbox[1] = "watch")
        /\ UNCHANGED <<connected, alive, badge, mounted>>
    BY <1>3 DEF Serve, pageVars
  <2>2. CASE Tail(outbox) = <<>> /\ Len(outbox) = 1
    <3>1. inRoom' <=> mounted
      BY <2>1, <2>2 DEF LinkInv
    <3>2. QED
      BY <2>1, <2>2, <3>1 DEF LinkInv
  <2>3. CASE Tail(outbox) # <<>> /\ Tail(outbox)[Len(Tail(outbox))] = outbox[Len(outbox)]
    BY <2>1, <2>3 DEF LinkInv
  <2>4. QED
    BY <1>1, <2>1, <2>2, <2>3, RestOfMessages
<1>4. CASE Mount
  <2>1. CASE connected
    <3>1. outbox' = Append(outbox, "watch") /\ mounted' /\ UNCHANGED <<connected, alive, badge, inRoom>>
      BY <1>1, <1>4, <2>1, LastMessage DEF Mount, Join
    <3>2. QED
      BY <1>1, <2>1, <3>1, LastMessage DEF LinkInv
  <2>2. CASE ~connected
    <3>1. outbox' = outbox /\ UNCHANGED <<connected, alive, badge, inRoom>>
      BY <1>1, <1>4, <2>2, ConcatEmptySeq DEF Mount, Join
    <3>2. QED
      BY <2>2, <3>1 DEF LinkInv
  <2>3. QED
    BY <2>1, <2>2
<1>5. CASE Unmount
  <2>1. outbox' = Append(outbox, "unwatch") /\ ~mounted' /\ UNCHANGED <<connected, alive, badge, inRoom>>
    BY <1>5 DEF Unmount
  <2>2. QED
    BY <1>1, <2>1, LastMessage DEF LinkInv
<1>6. CASE Rewatch
  <2>1. Append(outbox, "unwatch") \in Seq({"watch", "unwatch"})
    BY <1>1, LastMessage
  <2>2. CASE connected
    <3>1. outbox' = Append(Append(outbox, "unwatch"), "watch") /\ mounted'
          /\ UNCHANGED <<connected, alive, badge, inRoom>>
      BY <1>6, <2>1, <2>2, LastMessage DEF Rewatch, Join
    <3>2. QED
      BY <2>1, <2>2, <3>1, LastMessage DEF LinkInv
  <2>3. CASE ~connected
    <3>1. outbox' = Append(outbox, "unwatch") /\ UNCHANGED <<connected, alive, badge, inRoom>>
      BY <1>6, <2>1, <2>3, ConcatEmptySeq DEF Rewatch, Join
    <3>2. QED
      BY <1>1, <2>3, <3>1, LastMessage DEF LinkInv
  <2>4. QED
    BY <2>2, <2>3
<1>7. CASE Connect
  <2>1. ~connected /\ connected' /\ alive' /\ badge' = "connected" /\ UNCHANGED <<inRoom, mounted>>
    BY <1>1, <1>7 DEF Connect
  <2>2. CASE mounted
    <3>1. outbox' = Append(outbox, "watch")
      BY <1>7, <2>2 DEF Connect, OnConnect
    <3>2. QED
      BY <1>1, <2>1, <2>2, <3>1, LastMessage DEF LinkInv
  <2>3. CASE ~mounted
    <3>1. outbox' = outbox
      BY <1>7, <2>3 DEF Connect, OnConnect
    <3>2. outbox # <<>> => Len(outbox) \in 1 .. Len(outbox)
      BY <1>1
    <3>3. outbox # <<>> => outbox[Len(outbox)] = "unwatch"
      BY <2>1, <3>2 DEF LinkInv
    <3>4. QED
      BY <2>1, <2>3, <3>1, <3>3 DEF LinkInv
  <2>4. QED
    BY <2>2, <2>3
<1>8. CASE Break \/ Disconnect
  <2>1. CASE Break
    BY <2>1 DEF Break, LinkInv
  <2>2. CASE Disconnect
    <3>1. ~connected' /\ ~alive' /\ badge' # "connected" /\ outbox' = <<>> /\ inRoom' = inRoom /\ ~alive
      BY <2>2 DEF Disconnect
    <3>2. QED
      BY <3>1 DEF LinkInv
  <2>3. QED
    BY <1>8, <2>1, <2>2
<1>9. CASE ConnectFails
  BY <1>9 DEF ConnectFails, LinkInv, pageVars
<1>10. ASSUME \/ Commit \/ StrayRuns \/ RedisFails \/ RedisRecovers \/ UNCHANGED vars
              \/ Fetch \/ FetchFails \/ BoardPolls
              \/ \E v \in Change : Numbered(v) \/ GiveUp(v) \/ Emit(v)
              \/ \E e \in events : OnChanged(e)
       PROVE  UNCHANGED <<connected, alive, badge, inRoom, outbox, mounted>>
  BY <1>10 DEF Commit, StrayRuns, RedisFails, RedisRecovers, Numbered, GiveUp, Emit, Fetch,
               FetchReads, FetchAnswered, FetchFails, BoardPolls, OnChanged, vars, linkVars, pageVars
<1>11. QED
  BY <1>2, <1>3, <1>4, <1>5, <1>6, <1>7, <1>8, <1>9, <1>10 DEF Next

-----------------------------------------------------------------------------
(* The invariants, and what they say.                                      *)

RealtimeInv == TypeOK /\ CountInv /\ NumberInv /\ ReadInv /\ OwedInv /\ LinkInv

LEMMA InvInit == Init => RealtimeInv
<1>1. SUFFICES ASSUME Init PROVE RealtimeInv
  OBVIOUS
<1>2. ServerTyped /\ LinkTyped /\ PageTyped
  <2>0. MaxChanges \in Nat /\ MaxDrops \in Nat /\ MaxMoves \in Nat
    BY BoundsAssumption
  <2>1. Q!Empty \in Q!Query(Version)
    BY DEF Q!Empty, Q!Query
  <2>2. <<>> \in Seq({"watch", "unwatch"})
    OBVIOUS
  <2>3. ServerTyped
    BY <1>1, BoundsAssumption DEF Init, ServerTyped, Version, Publisher
  <2>4. drops \in 0 .. MaxDrops /\ moves \in 0 .. MaxMoves /\ due \in Version
    BY <1>1, <2>0 DEF Init, Version
  <2>5. LinkTyped
    BY <1>1, <2>2, <2>4 DEF Init, LinkTyped
  <2>6. PageTyped
    BY <1>1, <2>1, <2>4 DEF Init, PageTyped
  <2>7. QED
    BY <2>3, <2>5, <2>6
<1>3. CountInv
  <2>1. Asking = {}
    BY <1>1 DEF Init, Asking
  <2>2. QED
    BY <1>1, <2>1, FS_EmptySet DEF Init, CountInv
<1>4. NumberInv /\ ReadInv /\ LinkInv
  BY <1>1 DEF Init, NumberInv, ReadInv, LinkInv, Q!Empty, Q!Loaded
<1>5. OwedInv
  BY <1>1 DEF Init, OwedInv
<1>6. QED
  BY <1>2, <1>3, <1>4, <1>5, TypesParts DEF RealtimeInv

LEMMA InvStep == RealtimeInv /\ [Next]_vars => RealtimeInv'
<1>1. SUFFICES ASSUME RealtimeInv, [Next]_vars PROVE RealtimeInv'
  OBVIOUS
<1>2. TypeOK'
  BY <1>1, ServerTypesStep, LinkTypesStep, PageTypesStep, TypesParts DEF RealtimeInv
<1>3. QED
  BY <1>1, <1>2, CountStep, NumberStep, ReadStep, OwedStep, LinkStep DEF RealtimeInv

LEMMA InvHolds == Spec => []RealtimeInv
BY InvInit, InvStep, PTL DEF Spec

\* Every variable keeps its type.
THEOREM TypesHold == Spec => []TypeOK
<1>1. RealtimeInv => TypeOK
  BY DEF RealtimeInv
<1>2. QED
  BY <1>1, InvHolds, PTL

\* The counter in Redis never gets ahead of the changes committed, however many of its
\* increments run after their callers gave up, and an event on its way bears a number the
\* counter gave and a change that was committed.
THEOREM CounterStaysBehind == Spec => [](CountInv /\ NumberInv)
<1>1. RealtimeInv => CountInv /\ NumberInv
  BY DEF RealtimeInv
<1>2. QED
  BY <1>1, InvHolds, PTL

\* What the page was told of is on its screen or on its way there: an update it ignored for its
\* number was read already, and no answer asked for earlier replaces a newer one.
THEOREM ToldIsShown == Spec => []OwedIsComing
<1>1. RealtimeInv => OwedIsComing
  <2>1. SUFFICES ASSUME RealtimeInv, mounted, ~absorbed, ~query.failed
                 PROVE  Q!WillShow(query, due .. version)
    BY DEF OwedIsComing
  <2>2. Heeds(due)
    BY <2>1 DEF RealtimeInv, OwedInv
  <2>3. QED
    BY <2>1, <2>2 DEF Heeds, Q!WillShow, Q!Fetching
<1>2. QED
  BY <1>1, InvHolds, PTL

\* A page that shows no badge, and whose connection is not broken unnoticed, is in the room of
\* what it watches as soon as the server has served its messages; a page that was closed is not.
THEOREM NoBadgeIsLive == Spec => []NoBadgeMeansLive
<1>1. RealtimeInv => NoBadgeMeansLive
  BY DEF RealtimeInv, LinkInv, NoBadgeMeansLive, ShowsBadge
<1>2. QED
  BY <1>1, InvHolds, PTL
=============================================================================
