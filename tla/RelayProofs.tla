---------------------------- MODULE RelayProofs ----------------------------
(***************************************************************************)
(* What TLC checks of Relay on small instances, proved for any rows, any   *)
(* number of passes at once, any size of a batch and any number of aborts. *)
(***************************************************************************)
EXTENDS Relay, FiniteSetTheorems, TLAPS

-----------------------------------------------------------------------------
(* The inductive invariant.                                                *)

\* A pass claims committed rows; while it is open nobody else has them, and they are unmarked.
RowsInv ==
    /\ \A p \in Relays : relay[p].rows \subseteq outbox
    /\ \A p \in Relays : Open(p) => relay[p].rows \cap published = {}
    /\ \A p, q \in Relays :
          p # q /\ Open(p) /\ Open(q) => relay[p].rows \cap relay[q].rows = {}

\* What is about to be marked has been published.
QueueInv ==
    /\ MarkedIsQueued
    /\ \A p \in Relays : relay[p].at = "mark" => relay[p].rows \subseteq queued

\* The calls to the queue that outlived their transaction and carry row r.
Late(r) == {p \in Relays : relay[p].at = "late" /\ r \in relay[p].rows}

\* Row r was published by a pass that is not rolled back.
Settled(r) ==
    \/ r \in published
    \/ \E p \in Relays : relay[p].at = "mark" /\ r \in relay[p].rows

\* Every addition of a row, made or still under way, is paid for by an abort, but for the one of
\* the pass that settled it.
CountInv ==
    \A r \in Ids :
        /\ IsFiniteSet(Late(r))
        /\ added[r] + Cardinality(Late(r)) <= aborts + (IF Settled(r) THEN 1 ELSE 0)

RelayInv == TypeOK /\ RowsInv /\ QueueInv /\ CountInv

-----------------------------------------------------------------------------
(* Lemmas.                                                                 *)

\* A batch is a set of committed, unmarked rows that no open pass has.
LEMMA BatchIsFree ==
    /\ Batch \subseteq outbox \ published
    /\ \A p \in Relays : Open(p) => Batch \cap relay[p].rows = {}
BY DEF Batch, Oldest, Locked

\* What a step of a pass leaves behind where the pass was.
LEMMA GoEffect ==
    ASSUME TypeOK, NEW p \in Relays, NEW at, NEW rows, Go(p, at, rows)
    PROVE  /\ relay'[p].at = at /\ relay'[p].rows = rows
           /\ \A q \in Relays \ {p} : relay'[q] = relay[q]
BY DEF TypeOK, Go

LEMMA IdleEffect ==
    ASSUME TypeOK, NEW p \in Relays, relay' = [relay EXCEPT ![p] = Idle]
    PROVE  /\ relay'[p].at = "idle" /\ relay'[p].rows = {}
           /\ \A q \in Relays \ {p} : relay'[q] = relay[q]
BY DEF TypeOK, Idle

LEMMA InitHolds == Init => RelayInv
<1> SUFFICES ASSUME Init PROVE RelayInv
  OBVIOUS
<1>1. TypeOK
  BY BatchAssumption DEF Init, TypeOK, Idle, Pass
<1>2. RowsInv /\ QueueInv
  BY DEF Init, RowsInv, QueueInv, MarkedIsQueued, Idle, Open
<1>3. ASSUME NEW r \in Ids
      PROVE  Late(r) = {} /\ added[r] = 0 /\ aborts = 0
  BY DEF Init, Late, Idle
<1>4. CountInv
  BY <1>3, FS_EmptySet DEF CountInv
<1>5. QED
  BY <1>1, <1>2, <1>4 DEF RelayInv

\* The types, one action at a time.
LEMMA TypesStep == TypeOK /\ RowsInv /\ [Next]_vars => TypeOK'
<1> SUFFICES ASSUME TypeOK, RowsInv, [Next]_vars PROVE TypeOK'
  OBVIOUS
<1>1. ASSUME NEW r \in Ids, EventWritten(r) PROVE TypeOK'
  BY <1>1 DEF EventWritten, TypeOK
<1>2. ASSUME NEW p \in Relays, ClaimBatch(p) PROVE TypeOK'
  <2>1. Batch \subseteq Ids /\ Batch # {}
    BY <1>2, BatchIsFree DEF ClaimBatch, TypeOK
  <2>2. relay' \in [Relays -> Pass]
    BY <1>2, <2>1 DEF ClaimBatch, Go, TypeOK, Pass
  <2>3. \A q \in Relays : relay'[q].at = "idle" <=> relay'[q].rows = {}
    BY <1>2, <2>1, GoEffect DEF ClaimBatch, TypeOK
  <2>4. QED
    BY <1>2, <2>2, <2>3 DEF ClaimBatch, TypeOK
<1>3. ASSUME NEW p \in Relays, AddRows(p) PROVE queued' \subseteq outbox /\ added' \in [Ids -> Nat]
  BY <1>3 DEF AddRows, TypeOK, RowsInv
<1>4. ASSUME NEW p \in Relays, NEW at \in {"mark", "late"}, relay[p].at = "publish",
             Go(p, at, relay[p].rows)
      PROVE  /\ relay' \in [Relays -> Pass]
             /\ \A q \in Relays : relay'[q].at = "idle" <=> relay'[q].rows = {}
  <2>1. relay[p].rows \in SUBSET Ids /\ relay[p].rows # {}
    BY <1>4 DEF TypeOK, Pass
  <2>2. relay' \in [Relays -> Pass]
    BY <1>4, <2>1 DEF Go, TypeOK, Pass
  <2>3. QED
    BY <1>4, <2>1, <2>2, GoEffect DEF TypeOK
<1>5. ASSUME NEW p \in Relays, relay' = [relay EXCEPT ![p] = Idle]
      PROVE  /\ relay' \in [Relays -> Pass]
             /\ \A q \in Relays : relay'[q].at = "idle" <=> relay'[q].rows = {}
  <2>1. Idle \in Pass
    BY DEF Idle, Pass
  <2>2. QED
    BY <1>5, <2>1, IdleEffect DEF TypeOK
<1>6. ASSUME NEW p \in Relays, Publish(p) PROVE TypeOK'
  BY <1>6, <1>3, <1>4 DEF Publish, TypeOK
<1>7. ASSUME NEW p \in Relays, Mark(p) PROVE TypeOK'
  BY <1>7, <1>5 DEF Mark, TypeOK, RowsInv
<1>8. ASSUME NEW p \in Relays, PublishLate(p) PROVE TypeOK'
  BY <1>8, <1>3, <1>5 DEF PublishLate, TypeOK
<1>9. ASSUME NEW p \in Relays, Abort(p) PROVE TypeOK'
  <2>1. aborts' \in 0 .. MaxAborts
    BY <1>9, BatchAssumption DEF Abort, TypeOK
  <2>2. QED
    BY <1>9, <2>1, <1>4, <1>5 DEF Abort, TypeOK
<1>10. CASE UNCHANGED vars
  BY <1>10 DEF vars, TypeOK
<1>11. QED
  BY <1>1, <1>2, <1>6, <1>7, <1>8, <1>9, <1>10 DEF Next, Tick

\* Open passes keep out of each other's way.
LEMMA RowsStep == TypeOK /\ RowsInv /\ [Next]_vars => RowsInv'
<1> SUFFICES ASSUME TypeOK, RowsInv, [Next]_vars PROVE RowsInv'
  OBVIOUS
<1>1. ASSUME NEW r \in Ids, EventWritten(r) PROVE RowsInv'
  BY <1>1 DEF EventWritten, RowsInv, TypeOK, Open
<1>2. ASSUME NEW p \in Relays, ClaimBatch(p) PROVE RowsInv'
  <2>1. relay'[p].rows = Batch /\ \A q \in Relays \ {p} : relay'[q] = relay[q]
    BY <1>2, GoEffect DEF ClaimBatch
  <2>2. UNCHANGED <<outbox, published>>
    BY <1>2 DEF ClaimBatch
  <2>3. QED
    BY <2>1, <2>2, BatchIsFree DEF RowsInv, Open
<1>3. ASSUME NEW p \in Relays, NEW at \in {"mark", "late"}, relay[p].at = "publish",
             Go(p, at, relay[p].rows), UNCHANGED <<outbox, published>>
      PROVE  RowsInv'
  <2>1. /\ relay'[p].rows = relay[p].rows /\ Open(p)
        /\ \A q \in Relays \ {p} : relay'[q] = relay[q]
    BY <1>3, GoEffect DEF Open
  <2>2. QED
    BY <1>3, <2>1 DEF RowsInv, Open
<1>4. ASSUME NEW p \in Relays, relay' = [relay EXCEPT ![p] = Idle], UNCHANGED outbox,
             \/ UNCHANGED published
             \/ Open(p) /\ published' = published \cup relay[p].rows
      PROVE  RowsInv'
  <2>1. /\ relay'[p].at = "idle" /\ relay'[p].rows = {}
        /\ \A q \in Relays \ {p} : relay'[q] = relay[q]
    BY <1>4, IdleEffect
  <2>2. ASSUME NEW q \in Relays, Open(q)'
        PROVE  q # p /\ Open(q) /\ relay'[q] = relay[q]
    BY <2>1, <2>2 DEF Open
  <2>3. \A q \in Relays : relay'[q].rows \subseteq outbox'
    BY <1>4, <2>1 DEF RowsInv
  <2>4. ASSUME NEW q \in Relays, Open(q)'
        PROVE  relay'[q].rows \cap published' = {}
    BY <1>4, <2>2, <2>4 DEF RowsInv
  <2>5. QED
    BY <2>2, <2>3, <2>4 DEF RowsInv
<1>5. ASSUME NEW p \in Relays, Tick(p) \/ Abort(p) PROVE RowsInv'
  <2>1. CASE Mark(p)
    BY <2>1, <1>4 DEF Mark, Open
  <2>2. CASE Publish(p)
    BY <2>2, <1>3 DEF Publish
  <2>3. CASE PublishLate(p)
    BY <2>3, <1>4 DEF PublishLate
  <2>4. CASE Abort(p)
    BY <2>4, <1>3, <1>4 DEF Abort
  <2>5. QED
    BY <1>2, <1>5, <2>1, <2>2, <2>3, <2>4 DEF Tick
<1>6. CASE UNCHANGED vars
  BY <1>6 DEF vars, RowsInv, Open
<1>7. QED
  BY <1>1, <1>5, <1>6 DEF Next

\* Publish first, mark second.
LEMMA QueueStep == TypeOK /\ QueueInv /\ [Next]_vars => QueueInv'
<1> SUFFICES ASSUME TypeOK, QueueInv, [Next]_vars PROVE QueueInv'
  OBVIOUS
<1> USE DEF QueueInv, MarkedIsQueued
<1>1. ASSUME NEW r \in Ids, EventWritten(r) PROVE QueueInv'
  BY <1>1 DEF EventWritten
<1>2. ASSUME NEW p \in Relays, ClaimBatch(p) PROVE QueueInv'
  BY <1>2, GoEffect DEF ClaimBatch
<1>3. ASSUME NEW p \in Relays, Publish(p) PROVE QueueInv'
  BY <1>3, GoEffect DEF Publish, AddRows
<1>4. ASSUME NEW p \in Relays, Mark(p) PROVE QueueInv'
  BY <1>4, IdleEffect DEF Mark
<1>5. ASSUME NEW p \in Relays, PublishLate(p) PROVE QueueInv'
  BY <1>5, IdleEffect DEF PublishLate, AddRows
<1>6. ASSUME NEW p \in Relays, Abort(p) PROVE QueueInv'
  BY <1>6, IdleEffect, GoEffect DEF Abort
<1>7. CASE UNCHANGED vars
  BY <1>7 DEF vars
<1>8. QED
  BY <1>1, <1>2, <1>3, <1>4, <1>5, <1>6, <1>7 DEF Next, Tick

\* No step lets the additions of a row outgrow what the aborts have paid for.
LEMMA CountStep == RelayInv /\ TypeOK' /\ [Next]_vars => CountInv'
<1> SUFFICES ASSUME RelayInv, TypeOK', [Next]_vars, NEW r \in Ids
             PROVE  /\ IsFiniteSet(Late(r)')
                    /\ added'[r] + Cardinality(Late(r)')
                          <= aborts' + (IF Settled(r)' THEN 1 ELSE 0)
  BY DEF CountInv
<1> USE DEF RelayInv
<1>0. /\ IsFiniteSet(Late(r)) /\ Cardinality(Late(r)) \in Nat
      /\ added[r] \in Nat /\ aborts \in Nat
      /\ added[r] + Cardinality(Late(r)) <= aborts + (IF Settled(r) THEN 1 ELSE 0)
  BY FS_CardinalityType, BatchAssumption DEF CountInv, TypeOK
<1>1. ASSUME NEW q \in Ids, EventWritten(q)
      PROVE  Late(r)' = Late(r) /\ Settled(r)' = Settled(r) /\ UNCHANGED <<added, aborts>>
  BY <1>1 DEF EventWritten, Late, Settled
<1>2. ASSUME NEW p \in Relays, ClaimBatch(p)
      PROVE  Late(r)' = Late(r) /\ Settled(r)' = Settled(r) /\ UNCHANGED <<added, aborts>>
  <2>1. relay[p].at = "idle" /\ relay'[p].at = "publish"
        /\ \A q \in Relays \ {p} : relay'[q] = relay[q]
    BY <1>2, GoEffect DEF ClaimBatch, Idle
  <2>2. QED
    BY <1>2, <2>1 DEF ClaimBatch, Late, Settled
\* The one pass that settles a row adds it; nobody had settled it before.
<1>3. ASSUME NEW p \in Relays, Publish(p)
      PROVE  /\ Late(r)' = Late(r) /\ UNCHANGED aborts
             /\ r \in relay[p].rows => ~Settled(r) /\ Settled(r)' /\ added'[r] = added[r] + 1
             /\ r \notin relay[p].rows => Settled(r)' = Settled(r) /\ added'[r] = added[r]
  <2>1. relay'[p].at = "mark" /\ relay'[p].rows = relay[p].rows
        /\ \A q \in Relays \ {p} : relay'[q] = relay[q]
    BY <1>3, GoEffect DEF Publish
  <2>2. relay[p].at = "publish" /\ UNCHANGED <<published, aborts>>
    BY <1>3 DEF Publish
  <2>3. Late(r)' = Late(r)
    BY <2>1, <2>2 DEF Late
  <2>4. r \in relay[p].rows => ~Settled(r) /\ Settled(r)'
    BY <2>1, <2>2 DEF Settled, RowsInv, Open
  <2>5. r \notin relay[p].rows => Settled(r)' = Settled(r)
    BY <2>1, <2>2 DEF Settled
  <2>6. QED
    BY <1>3, <2>2, <2>3, <2>4, <2>5 DEF Publish, AddRows
<1>4. ASSUME NEW p \in Relays, Mark(p)
      PROVE  Late(r)' = Late(r) /\ Settled(r)' = Settled(r) /\ UNCHANGED <<added, aborts>>
  <2>1. /\ relay'[p].at = "idle" /\ relay[p].at = "mark"
        /\ \A q \in Relays \ {p} : relay'[q] = relay[q]
    BY <1>4, IdleEffect DEF Mark
  <2>2. QED
    BY <1>4, <2>1 DEF Mark, Late, Settled
\* A call that was under way arrives: it is counted as made instead.
<1>5. ASSUME NEW p \in Relays, PublishLate(p)
      PROVE  /\ Settled(r)' = Settled(r) /\ UNCHANGED aborts
             /\ r \in relay[p].rows => /\ Late(r)' = Late(r) \ {p} /\ p \in Late(r)
                                       /\ added'[r] = added[r] + 1
             /\ r \notin relay[p].rows => Late(r)' = Late(r) /\ added'[r] = added[r]
  <2>1. /\ relay'[p].at = "idle" /\ relay[p].at = "late"
        /\ \A q \in Relays \ {p} : relay'[q] = relay[q]
    BY <1>5, IdleEffect DEF PublishLate
  <2>2. QED
    BY <1>5, <2>1 DEF PublishLate, AddRows, Late, Settled
\* The abort pays: for a call left behind, or for a row that is not settled after all.
<1>6. ASSUME NEW p \in Relays, Abort(p)
      PROVE  /\ aborts' = aborts + 1 /\ added'[r] = added[r]
             /\ \/ Late(r)' = Late(r)
                \/ Late(r)' = Late(r) \cup {p} /\ Settled(r)' = Settled(r)
  <2>1. CASE relay' = [relay EXCEPT ![p] = Idle]
    <3>1. relay'[p].at = "idle" /\ Open(p) /\ \A q \in Relays \ {p} : relay'[q] = relay[q]
      BY <1>6, <2>1, IdleEffect DEF Abort
    <3>2. Late(r)' = Late(r)
      BY <3>1 DEF Late, Open
    <3>3. QED
      BY <1>6, <3>2 DEF Abort
  <2>2. CASE relay[p].at = "publish" /\ Go(p, "late", relay[p].rows)
    <3>1. relay'[p].at = "late" /\ relay'[p].rows = relay[p].rows
          /\ \A q \in Relays \ {p} : relay'[q] = relay[q]
      BY <2>2, GoEffect
    <3>2. Settled(r)' = Settled(r)
      BY <1>6, <2>2, <3>1 DEF Abort, Settled
    <3>3. Late(r)' = Late(r) \/ Late(r)' = Late(r) \cup {p}
      BY <2>2, <3>1 DEF Late
    <3>4. QED
      BY <1>6, <3>2, <3>3 DEF Abort
  <2>3. QED
    BY <1>6, <2>1, <2>2 DEF Abort
<1>7. CASE UNCHANGED vars
  BY <1>0, <1>7 DEF vars, Late, Settled
<1>8. ASSUME NEW p \in Relays, PublishLate(p) \/ Abort(p)
      PROVE  /\ IsFiniteSet(Late(r)')
             /\ added'[r] + Cardinality(Late(r)') <= aborts' + (IF Settled(r)' THEN 1 ELSE 0)
  <2>1. /\ IsFiniteSet(Late(r) \cup {p}) /\ IsFiniteSet(Late(r) \ {p})
        /\ p \in Late(r) => Cardinality(Late(r) \ {p}) = Cardinality(Late(r)) - 1
        /\ Cardinality(Late(r) \cup {p}) \in {Cardinality(Late(r)), Cardinality(Late(r)) + 1}
    BY <1>0, FS_AddElement, FS_RemoveElement
  <2>2. CASE PublishLate(p)
    <3>1. CASE r \in relay[p].rows
      <4>1. /\ Late(r)' = Late(r) \ {p} /\ p \in Late(r) /\ added'[r] = added[r] + 1
            /\ Settled(r)' = Settled(r) /\ aborts' = aborts
        BY <1>5, <2>2, <3>1
      <4>2. IsFiniteSet(Late(r)') /\ Cardinality(Late(r)') = Cardinality(Late(r)) - 1
        BY <2>1, <4>1
      <4>3. QED
        BY <1>0, <4>1, <4>2
    <3>2. CASE r \notin relay[p].rows
      BY <1>0, <1>5, <2>2, <3>2
    <3>3. QED
      BY <3>1, <3>2
  <2>3. CASE Abort(p)
    BY <1>0, <1>6, <2>1, <2>3
  <2>4. QED
    BY <1>8, <2>2, <2>3
<1>9. QED
  <2>1. CASE \E q \in Ids : EventWritten(q)
    BY <1>0, <1>1, <2>1
  <2>2. ASSUME NEW p \in Relays, Publish(p)
        PROVE  /\ IsFiniteSet(Late(r)')
               /\ added'[r] + Cardinality(Late(r)') <= aborts' + (IF Settled(r)' THEN 1 ELSE 0)
    BY <1>0, <1>3, <2>2
  <2>3. ASSUME NEW p \in Relays, ClaimBatch(p) \/ Mark(p)
        PROVE  /\ IsFiniteSet(Late(r)')
               /\ added'[r] + Cardinality(Late(r)') <= aborts' + (IF Settled(r)' THEN 1 ELSE 0)
    BY <1>0, <1>2, <1>4, <2>3
  <2>4. QED
    BY <1>0, <1>7, <1>8, <2>1, <2>2, <2>3 DEF Next, Tick

-----------------------------------------------------------------------------
(* Theorems.                                                               *)

LEMMA Invariant == Spec => []RelayInv
<1>1. RelayInv /\ [Next]_vars => RelayInv'
  BY TypesStep, RowsStep, QueueStep, CountStep DEF RelayInv
<1>2. QED
  BY InitHolds, <1>1, PTL DEF Spec

\* The tables, the queue and the passes have their types; a pass that works has rows, and what
\* is marked or queued was committed.
THEOREM TypesHold == Spec => []TypeOK
<1>1. RelayInv => TypeOK
  BY DEF RelayInv
<1>2. QED
  BY Invariant, <1>1, PTL

\* Publish first, mark second: however many passes run and wherever they are aborted, no row
\* is marked that the queue never got.
THEOREM NothingIsLost == Spec => []MarkedIsQueued
<1>1. RelayInv => MarkedIsQueued
  BY DEF RelayInv, QueueInv
<1>2. QED
  BY Invariant, <1>1, PTL

\* Passes that run at once never add a row twice by themselves: each addition beyond the first
\* is one aborted transaction.
THEOREM DuplicatesArePaidFor == Spec => []DuplicatesComeFromAborts
<1>1. ASSUME RelayInv, NEW r \in Ids
      PROVE  added[r] <= 1 + aborts
  <2>1. /\ Cardinality(Late(r)) \in Nat /\ added[r] \in Nat /\ aborts \in Nat
        /\ added[r] + Cardinality(Late(r)) <= aborts + (IF Settled(r) THEN 1 ELSE 0)
    BY <1>1, FS_CardinalityType, BatchAssumption DEF RelayInv, CountInv, TypeOK
  <2>2. QED
    BY <2>1
<1>2. RelayInv => DuplicatesComeFromAborts
  BY <1>1 DEF DuplicatesComeFromAborts
<1>3. QED
  BY Invariant, <1>2, PTL
=============================================================================
