--------------------------- MODULE SessionsProofs ---------------------------
(***************************************************************************)
(* What TLC checks of Sessions on small instances, proved for any number   *)
(* of tokens, tabs, calls and mishaps.                                     *)
(***************************************************************************)
EXTENDS Sessions, TLAPS

-----------------------------------------------------------------------------
(* The inductive invariants.                                               *)

\* Whatever carries a token carries one that was issued.
Known(t) == t # None => row[t].state # "unused"

KnownInv ==
    /\ Known(cookie)
    /\ \A q \in Requests : Known(request[q].cookie) /\ Known(request[q].token)
    /\ \A q \in Requests : request[q].stage \in {"reused", "rotating"} =>
                             request[q].op = "refresh" /\ request[q].cookie # None
    /\ \A t \in Tokens : Known(row[t].family)

-----------------------------------------------------------------------------
(* Lemmas about requests.                                                  *)

LEMMA RequestShape ==
    ASSUME NEW q \in Requests
    PROVE  q = <<q[1], q[2], q[3]>> /\ q[1] \in Tabs /\ q[2] \in {"form", "refresh"} /\ q[3] \in BOOLEAN
BY DEF Requests

LEMMA TabRequests ==
    ASSUME NEW t \in Tabs
    PROVE  /\ Form(t) \in Requests /\ Form(t)[1] = t /\ Form(t)[2] = "form" /\ Form(t)[3]
           /\ Refresh(t) \in Requests /\ Refresh(t)[1] = t /\ Refresh(t)[2] = "refresh" /\ Refresh(t)[3]
BY DEF Requests, Form, Refresh

LEMMA NoRequestTyped == NoRequest \in Request
BY DEF NoRequest, Request

\* What a request may become: nothing, the same, that of a listener who left, one that is sent,
\* one whose token was looked up, or one that is answered.
Moved(q, p) ==
    /\ p[1] = q[1] /\ p[2] = q[2]
    /\ p = q \/ mishaps' > mishaps
    /\ request'[q] = request[p]
Sent(q) ==
    /\ q[3]
    /\ \E op \in {"register", "login", "refresh", "logout"} :
          /\ q[2] = "refresh" <=> op = "refresh"
          /\ request'[q] = [op |-> op, cookie |-> cookie, stage |-> "sent", token |-> None]
LookedUp(q) ==
    /\ At(q, "refresh", "sent") /\ request[q].cookie # None
    /\ \E stage \in {"reused", "rotating"} :
          /\ request'[q] = [request[q] EXCEPT !.stage = stage]
          /\ stage = "reused" <=> row[request[q].cookie].state = "revoked"
Answers(q) ==
    /\ request[q].op # "idle"
    /\ \E stage \in {"ok", "refused"}, t \in Tokens \cup {None} :
          /\ request'[q] = [op |-> request[q].op, cookie |-> None, stage |-> stage, token |-> t]
          /\ t # None => t = Fresh /\ row'[t].state = "live"
          /\ request[q].op = "refresh" /\ stage = "ok" => Rotate(q)
Becomes(q) ==
    \/ request'[q] = NoRequest
    \/ \E p \in Requests : Moved(q, p)
    \/ Sent(q) \/ LookedUp(q) \/ Answers(q)

\* One request is replaced by another.
LEMMA RequestEdit ==
    ASSUME TypeOK, NEW q \in Requests, NEW r \in Request,
           request' = [request EXCEPT ![q] = r]
    PROVE  /\ request' \in [Requests -> Request]
           /\ request'[q] = r
           /\ \A p \in Requests \ {q} : request'[p] = request[p]
BY DEF TypeOK

LEMMA SendEffect ==
    ASSUME TypeOK, NEW q \in Requests, NEW op \in {"register", "login", "refresh", "logout"},
           Send(q, op)
    PROVE  /\ request' \in [Requests -> Request]
           /\ request'[q] = [op |-> op, cookie |-> cookie, stage |-> "sent", token |-> None]
           /\ \A p \in Requests \ {q} : request'[p] = request[p]
<1> DEFINE r == [op |-> op, cookie |-> cookie, stage |-> "sent", token |-> None]
<1>1. r \in Request
  BY DEF TypeOK, Request
<1>2. QED
  BY <1>1, RequestEdit DEF Send

LEMMA EndsEffect ==
    ASSUME TypeOK, NEW q \in Requests, NEW stage \in {"ok", "refused"},
           NEW t \in Tokens \cup {None}, Ends(q, stage, t)
    PROVE  /\ request' \in [Requests -> Request]
           /\ \/ request'[q] = NoRequest
              \/ /\ q[3]
                 /\ request'[q] = [op |-> request[q].op, cookie |-> None, stage |-> stage, token |-> t]
           /\ \A p \in Requests \ {q} : request'[p] = request[p]
<1> DEFINE r == IF q[3] THEN [op |-> request[q].op, cookie |-> None, stage |-> stage, token |-> t]
                ELSE NoRequest
<1>1. r \in Request
  BY NoRequestTyped DEF TypeOK, Request
<1>2. request' = [request EXCEPT ![q] = r]
  BY DEF Ends, TypeOK
<1>3. QED
  BY <1>1, <1>2, RequestEdit

LEMMA GoesEffect ==
    ASSUME TypeOK, NEW q \in Requests, NEW stage \in {"reused", "rotating"}, Goes(q, stage)
    PROVE  /\ request' \in [Requests -> Request]
           /\ request'[q] = [request[q] EXCEPT !.stage = stage]
           /\ \A p \in Requests \ {q} : request'[p] = request[p]
<1> DEFINE r == [request[q] EXCEPT !.stage = stage]
<1>1. r \in Request
  BY DEF TypeOK, Request
<1>2. QED
  BY <1>1, RequestEdit DEF Goes

\* Requests whose listener left move aside, or are gone.
LEMMA ForgottenEffect ==
    ASSUME TypeOK, NEW Q \in SUBSET Requests, \A p \in Q : p[3] = TRUE
    PROVE  /\ Forgotten(Q) \in [Requests -> Request]
           /\ \A q \in Requests :
                 \/ Forgotten(Q)[q] = NoRequest
                 \/ \E p \in Requests : p[1] = q[1] /\ p[2] = q[2] /\ Forgotten(Q)[q] = request[p]
<1>1. ASSUME NEW q \in Requests
      PROVE  /\ Forgotten(Q)[q] \in Request
             /\ \/ Forgotten(Q)[q] = NoRequest
                \/ \E p \in Requests : p[1] = q[1] /\ p[2] = q[2] /\ Forgotten(Q)[q] = request[p]
  <2>1. CASE q \in Q
    BY <2>1, NoRequestTyped DEF Forgotten
  <2>2. CASE q \notin Q /\ \E p \in Q : q = Unheard(p) /\ InHandler(p)
    <3>1. PICK p \in Q : q = Unheard(p)
      BY <2>2
    <3>2. p = <<q[1], q[2], TRUE>> /\ p \in Requests
      BY <3>1, RequestShape DEF Unheard
    <3>3. Forgotten(Q)[q] = request[p]
      BY <2>2, <3>2 DEF Forgotten
    <3>4. QED
      BY <3>2, <3>3 DEF TypeOK
  <2>3. CASE q \notin Q /\ ~\E p \in Q : q = Unheard(p) /\ InHandler(p)
    <3>1. Forgotten(Q)[q] = request[q]
      BY <2>3 DEF Forgotten
    <3>2. QED
      BY <3>1 DEF TypeOK
  <2>4. QED
    BY <2>1, <2>2, <2>3
<1>2. Forgotten(Q) = [q \in Requests |-> Forgotten(Q)[q]]
  BY DEF Forgotten
<1>3. QED
  BY <1>1, <1>2

-----------------------------------------------------------------------------
(* Lemmas about rows.                                                      *)

LEMMA FreshIsUnused == Unused # {} => Fresh \in Tokens /\ row[Fresh].state = "unused"
BY DEF Fresh, Unused

LEMMA RevokedEffect ==
    ASSUME TypeOK, NEW S \in SUBSET Tokens
    PROVE  /\ Revoked(S) \in [Tokens -> Row]
           /\ \A t \in Tokens :
                 /\ Revoked(S)[t].family = row[t].family
                 /\ Revoked(S)[t].age = row[t].age
                 /\ Revoked(S)[t].state = IF t \in S THEN "revoked" ELSE row[t].state
BY DEF TypeOK, Revoked, Row

LEMMA IssuedEffect ==
    ASSUME NEW table \in [Tokens -> Row], NEW f \in Tokens, Unused # {}
    PROVE  /\ Issued(table, f) \in [Tokens -> Row]
           /\ Issued(table, f)[Fresh].state = "live" /\ Issued(table, f)[Fresh].family = f
           /\ Issued(table, f)[Fresh].age = table[Fresh].age
           /\ \A t \in Tokens \ {Fresh} : Issued(table, f)[t] = table[t]
BY FreshIsUnused DEF Issued, Row

\* What a step makes of the rows: nothing, the end of a family, or a new token of family f in
\* exchange for those of S.
RowsKept ==
    /\ ended' = ended
    /\ \A t \in Tokens : row'[t].state = row[t].state /\ row'[t].family = row[t].family
RowsEnded(f) ==
    /\ ended' = ended \cup {f}
    /\ \A t \in Tokens : /\ row'[t].family = row[t].family
                         /\ row'[t].state = IF t \in Live(f) THEN "revoked" ELSE row[t].state
RowIssued(f, S) ==
    /\ ended' = ended
    /\ Fresh \in Tokens /\ row[Fresh].state = "unused"
    /\ row'[Fresh].state = "live" /\ row'[Fresh].family = f
    /\ \A t \in Tokens \ {Fresh} : /\ row'[t].family = row[t].family
                                   /\ row'[t].state = IF t \in S THEN "revoked" ELSE row[t].state
RowRotated(q) ==
    LET t == request[q].cookie IN
    /\ Rotate(q) /\ At(q, "refresh", "rotating")
    /\ t \in Tokens /\ row[t].state # "unused" /\ row[t].family \in Tokens
    /\ RowIssued(row[t].family, {t})

\* A token that is carried has a family.
LEMMA Carried ==
    ASSUME TypeOK, KnownInv, NEW q \in Requests, NEW t, t = request[q].cookie, t # None
    PROVE  t \in Tokens /\ row[t].state # "unused" /\ row[t].family \in Tokens
<1>1. t \in Tokens /\ row[t].state # "unused"
  BY DEF TypeOK, KnownInv, Known, Request
<1>2. row[t] \in Row /\ row[t].family # None
  BY <1>1 DEF TypeOK
<1>3. QED
  BY <1>1, <1>2 DEF Row

LEMMA LoginRows ==
    ASSUME TypeOK, NEW q \in Requests, Login(q)
    PROVE  row' \in [Tokens -> Row] /\ RowIssued(Fresh, {})
<1>1. Unused # {} /\ row' = Issued(row, Fresh) /\ ended' = ended
  BY Zenon DEF Login
<1>2. Fresh \in Tokens /\ row[Fresh].state = "unused" /\ row \in [Tokens -> Row]
  BY <1>1, FreshIsUnused DEF TypeOK
<1>3. QED
  BY <1>1, <1>2, IssuedEffect DEF RowIssued

LEMMA RotateRows ==
    ASSUME TypeOK, KnownInv, NEW q \in Requests, Rotate(q)
    PROVE  row' \in [Tokens -> Row] /\ RowRotated(q)
<1>1. PICK t : t = request[q].cookie
  OBVIOUS
<1>2. /\ At(q, "refresh", "rotating") /\ Unused # {} /\ ended' = ended
      /\ row' = Issued(Revoked({t}), row[t].family)
  BY <1>1 DEF Rotate
<1>3. t \in Tokens /\ row[t].state # "unused" /\ row[t].family \in Tokens
  BY <1>1, <1>2, Carried DEF KnownInv, At
<1>4. Fresh \in Tokens /\ row[Fresh].state = "unused"
  BY <1>2, FreshIsUnused
<1>5. /\ Revoked({t}) \in [Tokens -> Row]
      /\ \A u \in Tokens : /\ Revoked({t})[u].family = row[u].family
                           /\ Revoked({t})[u].state = IF u \in {t} THEN "revoked" ELSE row[u].state
  BY <1>3, RevokedEffect
<1>6. /\ row' \in [Tokens -> Row]
      /\ row'[Fresh].state = "live" /\ row'[Fresh].family = row[t].family
      /\ \A u \in Tokens \ {Fresh} : row'[u] = Revoked({t})[u]
  <2>1. PICK table : table = Revoked({t})
    OBVIOUS
  <2>2. PICK f : f = row[t].family
    OBVIOUS
  <2>3. row' = Issued(table, f) /\ table \in [Tokens -> Row] /\ f \in Tokens
    BY <1>2, <1>3, <1>5, <2>1, <2>2
  <2>4. /\ Issued(table, f) \in [Tokens -> Row]
        /\ Issued(table, f)[Fresh].state = "live" /\ Issued(table, f)[Fresh].family = f
        /\ \A u \in Tokens \ {Fresh} : Issued(table, f)[u] = table[u]
    BY <1>2, <2>3, IssuedEffect
  <2>5. QED
    BY <2>1, <2>2, <2>3, <2>4
<1>7. ASSUME NEW u \in Tokens \ {Fresh}
      PROVE  /\ row'[u].family = row[u].family
             /\ row'[u].state = IF u \in {t} THEN "revoked" ELSE row[u].state
  BY <1>5, <1>6
<1>8. RowIssued(row[t].family, {t})
  BY <1>2, <1>4, <1>6, <1>7, Zenon DEF RowIssued
<1>9. QED
  BY <1>1, <1>2, <1>3, <1>6, <1>8, Zenon DEF RowRotated

LEMMA RowStep ==
    ASSUME TypeOK, KnownInv, [Next]_vars
    PROVE  /\ row' \in [Tokens -> Row]
           /\ \/ RowsKept
              \/ \E f \in Tokens : RowsEnded(f)
              \/ RowIssued(Fresh, {})
              \/ \E q \in Requests : RowRotated(q)
<1>1. CASE row' = row /\ ended' = ended
  BY <1>1 DEF TypeOK, RowsKept
<1>2. CASE \E t \in Tokens : Lapse(t) \/ Expire(t)
  BY <1>2 DEF Lapse, Expire, TypeOK, Row, RowsKept
<1>3. ASSUME NEW q \in Requests, Login(q)
      PROVE  row' \in [Tokens -> Row] /\ RowIssued(Fresh, {})
  BY <1>3, LoginRows
<1>4. ASSUME NEW q \in Requests, Rotate(q)
      PROVE  row' \in [Tokens -> Row] /\ RowRotated(q)
  BY <1>4, RotateRows
<1>5. ASSUME NEW f \in Tokens, row' = Revoked(Live(f)), ended' = ended \cup {f}
      PROVE  row' \in [Tokens -> Row] /\ RowsEnded(f)
  <2>1. Live(f) \in SUBSET Tokens
    BY DEF Live
  <2>2. QED
    BY <1>5, <2>1, RevokedEffect DEF RowsEnded
<1>6. ASSUME NEW q \in Requests, RevokeReplayed(q) \/ Logout(q)
      PROVE  \/ row' = row /\ ended' = ended
             \/ \E f \in Tokens : row' = Revoked(Live(f)) /\ ended' = ended \cup {f}
  <2>1. PICK t : t = request[q].cookie
    OBVIOUS
  <2>2. CASE t = None
    BY <1>6, <2>1, <2>2 DEF RevokeReplayed, Logout, KnownInv, At
  <2>3. CASE t # None
    <3>1. row[t].family \in Tokens
      BY <2>1, <2>3, Carried
    <3>2. QED
      BY <1>6, <2>1, <2>3, <3>1 DEF RevokeReplayed, Logout
  <2>4. QED
    BY <2>2, <2>3
<1>7. ASSUME NEW q \in Requests, \/ Register(q) \/ LoginRefused(q) \/ RefreshRead(q) \/ OutOfTokens(q)
                                \/ Arrive(q) \/ LoseAnswer(q) \/ Die(q)
      PROVE  row' = row /\ ended' = ended
  BY <1>7 DEF Register, LoginRefused, RefreshRead, OutOfTokens, Arrive, RegisterAnswered, SignedIn,
              SignInRefused, SignedOut, Refreshed, LoseAnswer, Die
<1>8. ASSUME \/ \E t \in Tabs : Submit(t) \/ SignOut(t) \/ Reload(t)
             \/ \E t \in Tabs, l \in Lines : Ask(t, l) \/ Answered(t, l) \/ Unauthorized(t, l)
             \/ UNCHANGED vars
      PROVE  row' = row /\ ended' = ended
  BY <1>8 DEF Submit, SignOut, Reload, Ask, Answered, Unauthorized, vars
<1>9. QED
  BY <1>1, <1>2, <1>3, <1>4, <1>5, <1>6, <1>7, <1>8 DEF Next, Handle

\* Tokens that were issued stay issued.
LEMMA KnownLasts ==
    ASSUME TypeOK, KnownInv, [Next]_vars
    PROVE  \A t \in Tokens : row[t].state # "unused" => row'[t].state # "unused"
BY RowStep DEF RowsKept, RowsEnded, RowRotated, RowIssued

-----------------------------------------------------------------------------
(* Every step, seen from a request.                                        *)

\* Where one request changed, the others stayed.
LEMMA OneBecomes ==
    ASSUME NEW q \in Requests, Becomes(q),
           \A p \in Requests \ {q} : request'[p] = request[p]
    PROVE  \A p \in Requests : Becomes(p)
BY DEF Becomes, Moved

LEMMA EndsBecomes ==
    ASSUME TypeOK, NEW q \in Requests, NEW stage \in {"ok", "refused"},
           NEW t \in Tokens \cup {None}, Ends(q, stage, t),
           request[q].op # "idle", t # None => t = Fresh /\ row'[t].state = "live",
           request[q].op = "refresh" /\ stage = "ok" => Rotate(q)
    PROVE  request' \in [Requests -> Request] /\ \A p \in Requests : Becomes(p)
<1>1. /\ request' \in [Requests -> Request]
      /\ \/ request'[q] = NoRequest
         \/ /\ q[3]
            /\ request'[q] = [op |-> request[q].op, cookie |-> None, stage |-> stage, token |-> t]
      /\ \A p \in Requests \ {q} : request'[p] = request[p]
  BY EndsEffect
<1>2. Becomes(q)
  BY <1>1 DEF Becomes, Answers
<1>3. QED
  BY <1>1, <1>2, OneBecomes

LEMMA SendBecomes ==
    ASSUME TypeOK, NEW q \in Requests, NEW op \in {"register", "login", "refresh", "logout"},
           Send(q, op), q[3], q[2] = "refresh" <=> op = "refresh"
    PROVE  request' \in [Requests -> Request] /\ \A p \in Requests : Becomes(p)
<1>1. /\ request' \in [Requests -> Request]
      /\ request'[q] = [op |-> op, cookie |-> cookie, stage |-> "sent", token |-> None]
      /\ \A p \in Requests \ {q} : request'[p] = request[p]
  BY SendEffect
<1>2. Becomes(q)
  BY <1>1 DEF Becomes, Sent
<1>3. QED
  BY <1>1, <1>2, OneBecomes

LEMMA DoneBecomes ==
    ASSUME TypeOK, NEW q \in Requests, request' = [request EXCEPT ![q] = NoRequest]
    PROVE  request' \in [Requests -> Request] /\ \A p \in Requests : Becomes(p)
BY RequestEdit, NoRequestTyped, OneBecomes DEF Becomes

LEMMA ForgottenBecomes ==
    ASSUME TypeOK, NEW Q \in SUBSET Requests, \A p \in Q : p[3] = TRUE,
           request' = Forgotten(Q), mishaps' = mishaps + 1
    PROVE  request' \in [Requests -> Request] /\ \A p \in Requests : Becomes(p)
<1>1. mishaps' > mishaps
  BY DEF TypeOK
<1>2. QED
  BY <1>1, ForgottenEffect DEF Becomes, Moved

LEMMA RefreshReadBecomes ==
    ASSUME TypeOK, NEW q \in Requests, RefreshRead(q)
    PROVE  request' \in [Requests -> Request] /\ \A p \in Requests : Becomes(p)
<1>1. PICK t : t = request[q].cookie
  OBVIOUS
<1>2. CASE Ends(q, "refused", None)
  BY <1>2, EndsBecomes DEF RefreshRead, At
<1>3. ASSUME NEW stage \in {"reused", "rotating"}, Goes(q, stage), t # None,
             stage = "reused" <=> row[t].state = "revoked"
      PROVE  request' \in [Requests -> Request] /\ \A p \in Requests : Becomes(p)
  <2>1. /\ request' \in [Requests -> Request]
        /\ request'[q] = [request[q] EXCEPT !.stage = stage]
        /\ \A p \in Requests \ {q} : request'[p] = request[p]
    BY <1>3, GoesEffect
  <2>2. LookedUp(q)
    BY <1>1, <1>3, <2>1 DEF LookedUp, RefreshRead
  <2>3. QED
    BY <2>1, <2>2, OneBecomes DEF Becomes
<1>4. \/ Ends(q, "refused", None)
      \/ t # None /\ row[t].state = "revoked" /\ Goes(q, "reused")
      \/ t # None /\ row[t].state # "revoked" /\ Goes(q, "rotating")
  BY <1>1 DEF RefreshRead
<1>5. QED
  BY <1>2, <1>3, <1>4

LEMMA RequestStep ==
    ASSUME TypeOK, KnownInv, [Next]_vars
    PROVE  request' \in [Requests -> Request] /\ \A q \in Requests : Becomes(q)
<1> DEFINE Goal == request' \in [Requests -> Request] /\ \A q \in Requests : Becomes(q)
<1>1. CASE request' = request
  BY <1>1 DEF TypeOK, Becomes, Moved
<1>2. ASSUME NEW q \in Requests, \/ Register(q) \/ LoginRefused(q) \/ RevokeReplayed(q)
                                \/ OutOfTokens(q) \/ Logout(q)
      PROVE  Goal
  <2>1. /\ request[q].op # "idle"
        /\ \/ Ends(q, "ok", None) /\ request[q].op # "refresh"
           \/ Ends(q, "refused", None)
    BY <1>2 DEF Register, LoginRefused, RevokeReplayed, OutOfTokens, Logout, At
  <2>2. QED
    BY <2>1, EndsBecomes
<1>3. ASSUME NEW q \in Requests, Login(q)
      PROVE  Goal
  <2>1. request[q].op = "login" /\ Ends(q, "ok", Fresh) /\ RowIssued(Fresh, {})
    BY <1>3, LoginRows DEF Login, At
  <2>2. QED
    BY <2>1, EndsBecomes DEF RowIssued
<1>4. ASSUME NEW q \in Requests, Rotate(q)
      PROVE  Goal
  <2>1. request[q].op # "idle" /\ Ends(q, "ok", Fresh) /\ RowRotated(q)
    BY <1>4, RotateRows DEF Rotate, At
  <2>2. QED
    BY <1>4, <2>1, EndsBecomes DEF RowRotated, RowIssued
<1>5. ASSUME NEW q \in Requests, RefreshRead(q)
      PROVE  Goal
  BY <1>5, RefreshReadBecomes
<1>6. ASSUME NEW q \in Requests, RegisterAnswered(q)
      PROVE  Goal
  <2>1. q[3] /\ Send(q, "login") /\ request[q].op = "register"
    BY <1>6 DEF RegisterAnswered, Heard, At
  <2>2. q[2] # "refresh"
    BY <2>1 DEF TypeOK
  <2>3. QED
    BY <2>1, <2>2, SendBecomes
<1>7. ASSUME NEW q \in Requests, \/ SignedIn(q) \/ SignInRefused(q) \/ SignedOut(q)
                                \/ Refreshed(q) \/ Die(q)
      PROVE  Goal
  <2>1. request' = [request EXCEPT ![q] = NoRequest]
    BY <1>7 DEF SignedIn, SignInRefused, SignedOut, Refreshed, Die
  <2>2. QED
    BY <2>1, DoneBecomes
<1>8. ASSUME NEW q \in Requests, LoseAnswer(q)
      PROVE  Goal
  <2>1. q[3] = TRUE /\ request' = Forgotten({q}) /\ mishaps' = mishaps + 1
    BY <1>8, RequestShape DEF LoseAnswer, Heard
  <2>2. PICK Q : Q = {q}
    OBVIOUS
  <2>3. Q \in SUBSET Requests /\ (\A p \in Q : p[3] = TRUE) /\ request' = Forgotten(Q)
    BY <2>1, <2>2
  <2>4. QED
    BY <2>1, <2>3, ForgottenBecomes
<1>9. ASSUME NEW t \in Tabs, Submit(t) \/ SignOut(t)
      PROVE  Goal
  <2>1. Send(Form(t), "register") \/ Send(Form(t), "login") \/ Send(Form(t), "logout")
    BY <1>9 DEF Submit, SignOut
  <2>2. QED
    BY <2>1, TabRequests, SendBecomes
<1>10. ASSUME NEW t \in Tabs, NEW l \in Lines, Unauthorized(t, l)
       PROVE  Goal
  <2>1. request' = request \/ Send(Refresh(t), "refresh")
    BY <1>10 DEF Unauthorized
  <2>2. QED
    BY <1>1, <2>1, TabRequests, SendBecomes
<1>11. ASSUME NEW t \in Tabs, Reload(t)
       PROVE  Goal
  <2>1. PICK Q : Q = {Form(t), Refresh(t)}
    OBVIOUS
  <2>2. Q \in SUBSET Requests /\ \A p \in Q : p[3] = TRUE
    BY <2>1, TabRequests, RequestShape
  <2>3. PICK r : r = [op |-> "refresh", cookie |-> cookie, stage |-> "sent", token |-> None]
    OBVIOUS
  <2>4. r \in Request
    BY <2>3 DEF TypeOK, Request
  <2>5. request' = [Forgotten(Q) EXCEPT ![Refresh(t)] = r] /\ mishaps' > mishaps
    BY <1>11, <2>1, <2>3 DEF Reload, TypeOK
  <2>6. Forgotten(Q) \in [Requests -> Request]
    BY <2>2, ForgottenEffect
  <2>7. request' \in [Requests -> Request] /\ request'[Refresh(t)] = r
    BY <2>4, <2>5, <2>6, TabRequests
  <2>8. Becomes(Refresh(t))
    BY <2>3, <2>7, TabRequests DEF Becomes, Sent
  <2>9. ASSUME NEW q \in Requests, q # Refresh(t)
        PROVE  Becomes(q)
    <3>1. request'[q] = Forgotten(Q)[q]
      BY <2>5, <2>6, <2>9
    <3>2. \/ Forgotten(Q)[q] = NoRequest
          \/ \E p \in Requests : p[1] = q[1] /\ p[2] = q[2] /\ Forgotten(Q)[q] = request[p]
      BY <2>2, ForgottenEffect
    <3>3. QED
      BY <2>5, <3>1, <3>2 DEF Becomes, Moved
  <2>10. QED
    BY <2>7, <2>8, <2>9
<1>12. ASSUME \/ \E t \in Tokens : Lapse(t) \/ Expire(t)
              \/ \E t \in Tabs, l \in Lines : Ask(t, l) \/ Answered(t, l)
              \/ UNCHANGED vars
       PROVE  request' = request
  BY <1>12 DEF Lapse, Expire, Ask, Answered, vars
<1>13. QED
  BY <1>1, <1>2, <1>3, <1>4, <1>5, <1>6, <1>7, <1>8, <1>9, <1>10, <1>11, <1>12 DEF Next, Handle, Arrive

-----------------------------------------------------------------------------
(* Whatever carries a token carries one that was issued.                   *)

\* The browser keeps its cookie or takes that of an answer.
LEMMA CookieStep ==
    ASSUME [Next]_vars
    PROVE  cookie' = cookie \/ \E q \in Requests : cookie' = request[q].token
<1>1. ASSUME NEW q \in Requests, Arrive(q)
      PROVE  cookie' = cookie \/ cookie' = request[q].token
  BY <1>1 DEF Arrive, RegisterAnswered, SignedIn, SignInRefused, SignedOut, Refreshed
<1>2. ASSUME NEW q \in Requests, Handle(q) \/ LoseAnswer(q) \/ Die(q)
      PROVE  cookie' = cookie
  BY <1>2 DEF Handle, Register, Login, LoginRefused, RefreshRead, RevokeReplayed, Rotate, OutOfTokens,
              Logout, LoseAnswer, Die
<1>3. ASSUME \/ \E t \in Tokens : Lapse(t) \/ Expire(t)
             \/ \E t \in Tabs : Submit(t) \/ SignOut(t) \/ Reload(t)
             \/ \E t \in Tabs, l \in Lines : Ask(t, l) \/ Answered(t, l) \/ Unauthorized(t, l)
             \/ UNCHANGED vars
      PROVE  cookie' = cookie
  BY <1>3 DEF Lapse, Expire, Submit, SignOut, Reload, Ask, Answered, Unauthorized, vars
<1>4. QED
  BY <1>1, <1>2, <1>3 DEF Next

LEMMA InitKnown == Init => TypeOK /\ KnownInv
BY MishapsAssumption DEF Init, TypeOK, KnownInv, Known, NoRequest, NoCall, Row, Request, Call

LEMMA KnownStep ==
    ASSUME TypeOK, KnownInv, [Next]_vars
    PROVE  KnownInv'
<1>1. \A t \in Tokens : row[t].state # "unused" => row'[t].state # "unused"
  BY KnownLasts
<1>2. /\ cookie \in Tokens \cup {None}
      /\ \A q \in Requests : /\ request[q].cookie \in Tokens \cup {None}
                             /\ request[q].token \in Tokens \cup {None}
      /\ \A t \in Tokens : row[t].family \in Tokens \cup {None}
  BY DEF TypeOK, Request, Row
<1>3. Known(cookie)'
  BY <1>1, <1>2, CookieStep DEF KnownInv, Known
<1>4. ASSUME NEW q \in Requests
      PROVE  /\ Known(request[q].cookie)' /\ Known(request[q].token)'
             /\ request'[q].stage \in {"reused", "rotating"} =>
                  request'[q].op = "refresh" /\ request'[q].cookie # None
  <2>1. CASE request'[q] = NoRequest
    BY <2>1 DEF NoRequest, Known
  <2>2. ASSUME NEW p \in Requests, Moved(q, p)
        PROVE  /\ Known(request[q].cookie)' /\ Known(request[q].token)'
               /\ request'[q].stage \in {"reused", "rotating"} =>
                    request'[q].op = "refresh" /\ request'[q].cookie # None
    BY <1>1, <1>2, <2>2 DEF Moved, KnownInv, Known
  <2>3. CASE Sent(q)
    BY <1>1, <1>2, <2>3 DEF Sent, KnownInv, Known
  <2>4. CASE LookedUp(q)
    <3>1. PICK stage \in {"reused", "rotating"} : request'[q] = [request[q] EXCEPT !.stage = stage]
      BY <2>4 DEF LookedUp
    <3>2. /\ request'[q].cookie = request[q].cookie /\ request'[q].token = request[q].token
          /\ request'[q].op = request[q].op /\ request[q].op = "refresh" /\ request[q].cookie # None
      BY <2>4, <3>1 DEF LookedUp, At, TypeOK, Request
    <3>3. QED
      BY <1>1, <1>2, <3>2 DEF KnownInv, Known
  <2>5. CASE Answers(q)
    BY <2>5 DEF Answers, Known
  <2>6. QED
    BY <2>1, <2>2, <2>3, <2>4, <2>5, RequestStep DEF Becomes
<1>5. ASSUME NEW t \in Tokens
      PROVE  Known(row[t].family)'
  <2>1. CASE row'[t].family = row[t].family
    BY <1>1, <1>2, <2>1 DEF KnownInv, Known
  <2>2. CASE RowIssued(Fresh, {})
    <3>1. CASE t = Fresh
      BY <2>2, <3>1 DEF RowIssued, Known
    <3>2. QED
      BY <2>1, <2>2, <3>1 DEF RowIssued
  <2>3. ASSUME NEW q \in Requests, RowRotated(q)
        PROVE  Known(row[t].family)'
    <3>1. PICK u : u = request[q].cookie
      OBVIOUS
    <3>2. CASE t = Fresh
      <4>1. row'[t].family = row[u].family /\ u \in Tokens /\ row[u].family \in Tokens
        BY <2>3, <3>1, <3>2 DEF RowRotated, RowIssued
      <4>2. QED
        BY <1>1, <4>1 DEF KnownInv, Known
    <3>3. CASE t # Fresh
      BY <2>1, <2>3, <3>3 DEF RowRotated, RowIssued
    <3>4. QED
      BY <3>2, <3>3
  <2>4. QED
    BY <2>1, <2>2, <2>3, RowStep DEF RowsKept, RowsEnded
<1>6. QED
  BY <1>3, <1>4, <1>5 DEF KnownInv

-----------------------------------------------------------------------------
(* Types.                                                                  *)

LEMMA WokenTyped ==
    ASSUME TypeOK, NEW t \in Tabs, NEW token \in Tokens \cup {None}, Woken(t, token)
    PROVE  call' \in [Tabs \X Lines -> Call]
<1>1. ASSUME NEW c \in Tabs \X Lines
      PROVE  call[c] \in Call /\ NoCall \in Call /\ [stage |-> "resent", token |-> token] \in Call
  BY DEF TypeOK, Call, NoCall
<1>2. QED
  BY <1>1 DEF Woken

LEMMA FailedTyped ==
    ASSUME TypeOK, NEW q \in Requests, Failed(q)
    PROVE  call' \in [Tabs \X Lines -> Call] /\ access' \in [Tabs -> Tokens \cup {None}]
<1>1. q[1] \in Tabs
  BY RequestShape
<1>2. access' = access \/ access' = [access EXCEPT ![q[1]] = None]
  BY DEF Failed
<1>3. Woken(q[1], None) \/ call' = call
  BY DEF Failed
<1>4. QED
  BY <1>1, <1>2, <1>3, WokenTyped DEF TypeOK

\* Everything but the rows and the requests.
LEMMA TabsStep ==
    ASSUME TypeOK, KnownInv, [Next]_vars
    PROVE  /\ access' \in [Tabs -> Tokens \cup {None}]
           /\ call' \in [Tabs \X Lines -> Call]
           /\ mishaps' \in 0 .. MaxMishaps
           /\ spender' \in [Tokens -> Tabs \cup {None}]
           /\ ended' \subseteq Tokens
<1> DEFINE Goal == /\ access' \in [Tabs -> Tokens \cup {None}]
                   /\ call' \in [Tabs \X Lines -> Call]
                   /\ mishaps' \in 0 .. MaxMishaps
                   /\ spender' \in [Tokens -> Tabs \cup {None}]
<1>1. ended' \subseteq Tokens
  BY RowStep DEF RowsKept, RowsEnded, RowIssued, RowRotated, TypeOK
<1>2. ASSUME UNCHANGED <<access, call, mishaps, spender>>
      PROVE  Goal
  BY <1>2 DEF TypeOK
<1>3. ASSUME NEW t \in Tokens, Lapse(t) \/ Expire(t)
      PROVE  Goal
  BY <1>3, MishapsAssumption DEF Lapse, Expire, TypeOK
<1>4. ASSUME NEW q \in Requests, Rotate(q)
      PROVE  Goal
  <2>1. /\ UNCHANGED <<access, call, mishaps>>
        /\ spender' = [spender EXCEPT ![request[q].cookie] = q[1]]
    BY <1>4 DEF Rotate
  <2>2. QED
    BY <2>1, RequestShape DEF TypeOK
<1>5. ASSUME NEW q \in Requests, Handle(q), ~Rotate(q)
      PROVE  Goal
  BY <1>2, <1>5 DEF Handle, Register, Login, LoginRefused, RefreshRead, RevokeReplayed, OutOfTokens, Logout
<1>6. ASSUME NEW q \in Requests, Arrive(q)
      PROVE  Goal
  <2>1. q[1] \in Tabs /\ request[q].token \in Tokens \cup {None}
    BY RequestShape DEF TypeOK, Request
  <2>2. CASE RegisterAnswered(q) \/ SignInRefused(q)
    BY <1>2, <2>2 DEF RegisterAnswered, SignInRefused
  <2>3. CASE SignedIn(q) \/ SignedOut(q)
    BY <2>1, <2>3 DEF SignedIn, SignedOut, TypeOK
  <2>4. CASE Refreshed(q)
    BY <2>1, <2>4, WokenTyped DEF Refreshed, TypeOK
  <2>5. QED
    BY <1>6, <2>2, <2>3, <2>4 DEF Arrive
<1>7. ASSUME NEW q \in Requests, LoseAnswer(q) \/ Die(q)
      PROVE  Goal
  <2>1. /\ Failed(q) /\ spender' = spender
        /\ mishaps' = mishaps \/ (mishaps < MaxMishaps /\ mishaps' = mishaps + 1)
    BY <1>7 DEF LoseAnswer, Die
  <2>2. QED
    BY <2>1, FailedTyped, MishapsAssumption DEF TypeOK
<1>8. ASSUME NEW t \in Tabs, Submit(t) \/ SignOut(t)
      PROVE  Goal
  BY <1>2, <1>8 DEF Submit, SignOut
<1>9. ASSUME NEW t \in Tabs, Reload(t)
      PROVE  Goal
  BY <1>9, MishapsAssumption DEF Reload, TypeOK, Call, NoCall
<1>10. ASSUME NEW t \in Tabs, NEW l \in Lines, Ask(t, l) \/ Answered(t, l) \/ Unauthorized(t, l)
       PROVE  Goal
  <2>1. PICK c : c = <<t, l>>
    OBVIOUS
  <2>2. \E r \in Call : call' = [call EXCEPT ![c] = r]
    BY <1>10, <2>1 DEF Ask, Answered, Unauthorized, Call, NoCall, TypeOK
  <2>3. UNCHANGED <<access, mishaps, spender>>
    BY <1>10 DEF Ask, Answered, Unauthorized
  <2>4. QED
    BY <2>2, <2>3 DEF TypeOK
<1>11. ASSUME UNCHANGED vars
       PROVE  Goal
  BY <1>2, <1>11 DEF vars
<1>12. Goal
  <2> HIDE DEF Goal
  <2>1. QED
    BY <1>3, <1>4, <1>5, <1>6, <1>7, <1>8, <1>9, <1>10, <1>11 DEF Next
<1>13. QED
  BY <1>1, <1>12

LEMMA TypesStep ==
    ASSUME TypeOK, KnownInv, [Next]_vars
    PROVE  TypeOK'
<1>1. cookie' \in Tokens \cup {None}
  BY CookieStep DEF TypeOK, Request
<1>2. \A t \in Tokens : row'[t].state = "unused" <=> row'[t].family = None
  <2>1. \A t \in Tokens : row[t].state = "unused" <=> row[t].family = None
    BY DEF TypeOK
  <2>2. CASE RowsKept
    BY <2>1, <2>2 DEF RowsKept
  <2>3. ASSUME NEW f \in Tokens, RowsEnded(f)
        PROVE  \A t \in Tokens : row'[t].state = "unused" <=> row'[t].family = None
    BY <2>1, <2>3 DEF RowsEnded, Live
  <2>4. CASE RowIssued(Fresh, {})
    BY <2>1, <2>4, NoneAssumption DEF RowIssued
  <2>5. ASSUME NEW q \in Requests, RowRotated(q)
        PROVE  \A t \in Tokens : row'[t].state = "unused" <=> row'[t].family = None
    BY <2>1, <2>5, NoneAssumption DEF RowRotated, RowIssued
  <2>6. QED
    BY <2>2, <2>3, <2>4, <2>5, RowStep
<1>3. ASSUME NEW q \in Requests
      PROVE  request'[q].op # "idle" => (q[2] = "refresh" <=> request'[q].op = "refresh")
  <2>1. \A p \in Requests : request[p].op # "idle" => (p[2] = "refresh" <=> request[p].op = "refresh")
    BY DEF TypeOK
  <2>2. CASE request'[q] = NoRequest
    BY <2>2 DEF NoRequest
  <2>3. CASE \E p \in Requests : Moved(q, p)
    BY <2>1, <2>3 DEF Moved
  <2>4. CASE Sent(q)
    BY <2>4 DEF Sent
  <2>5. CASE LookedUp(q)
    BY <2>1, <2>5 DEF LookedUp, At, TypeOK, Request
  <2>6. CASE Answers(q)
    BY <2>1, <2>6 DEF Answers
  <2>7. QED
    BY <2>2, <2>3, <2>4, <2>5, <2>6, RequestStep DEF Becomes
<1>4. QED
  BY <1>1, <1>2, <1>3, RowStep, RequestStep, TabsStep DEF TypeOK

\* Every value the model keeps has its type; in particular a token has a family exactly when it
\* was issued, and only a tab's refresh, which all its calls share, asks for a rotation.
THEOREM TypesHold == Spec => []TypeOK
<1>1. TypeOK /\ KnownInv /\ [Next]_vars => TypeOK' /\ KnownInv'
  BY TypesStep, KnownStep
<1>2. QED
  BY <1>1, InitKnown, PTL DEF Spec

-----------------------------------------------------------------------------
(* Lineages.                                                               *)

LEMMA LineageStep ==
    ASSUME TypeOK, KnownInv, NoLineageIsLost, [Next]_vars
    PROVE  NoLineageIsLost'
<1> SUFFICES ASSUME NEW t \in Tokens, row'[t].state # "unused", row'[t].family \notin ended'
             PROVE  \E u \in Tokens : row'[u].state = "live" /\ row'[u].family = row'[t].family
  BY DEF NoLineageIsLost, Live
<1>1. \A u \in Tokens : row[u].state # "unused" /\ row[u].family \notin ended =>
         \E v \in Tokens : row[v].state = "live" /\ row[v].family = row[u].family
  BY DEF NoLineageIsLost, Live
<1>2. CASE RowsKept
  BY <1>1, <1>2 DEF RowsKept
<1>3. ASSUME NEW f \in Tokens, RowsEnded(f)
      PROVE  \E u \in Tokens : row'[u].state = "live" /\ row'[u].family = row'[t].family
  <2>1. row[t].state # "unused" /\ row[t].family \notin ended /\ row[t].family # f
    BY <1>3 DEF RowsEnded, Live
  <2>2. PICK v \in Tokens : row[v].state = "live" /\ row[v].family = row[t].family
    BY <1>1, <2>1
  <2>3. QED
    BY <1>3, <2>1, <2>2 DEF RowsEnded, Live
<1>4. CASE RowIssued(Fresh, {})
  <2>1. CASE t = Fresh
    BY <1>4, <2>1 DEF RowIssued
  <2>2. CASE t # Fresh
    <3>1. row[t].state # "unused" /\ row[t].family \notin ended
      BY <1>4, <2>2 DEF RowIssued
    <3>2. PICK v \in Tokens : row[v].state = "live" /\ row[v].family = row[t].family
      BY <1>1, <3>1
    <3>3. QED
      BY <1>4, <2>2, <3>2 DEF RowIssued
  <2>3. QED
    BY <2>1, <2>2
<1>5. ASSUME NEW q \in Requests, RowRotated(q)
      PROVE  \E u \in Tokens : row'[u].state = "live" /\ row'[u].family = row'[t].family
  <2>1. PICK s : s = request[q].cookie
    OBVIOUS
  <2>2. /\ s \in Tokens /\ row[s].state # "unused" /\ RowIssued(row[s].family, {s})
    BY <1>5, <2>1 DEF RowRotated
  <2>3. CASE row'[t].family = row[s].family
    BY <2>2, <2>3 DEF RowIssued
  <2>4. CASE row'[t].family # row[s].family
    <3>1. t # Fresh
      BY <2>2, <2>4 DEF RowIssued
    <3>2. row[t].family = row'[t].family /\ row[t].state # "unused" /\ row[t].family \notin ended
      BY <2>2, <3>1 DEF RowIssued
    <3>3. PICK v \in Tokens : row[v].state = "live" /\ row[v].family = row[t].family
      BY <1>1, <3>2
    <3>4. v # Fresh /\ v # s
      BY <2>2, <2>4, <3>2, <3>3 DEF RowIssued
    <3>5. QED
      BY <2>2, <3>2, <3>3, <3>4 DEF RowIssued
  <2>5. QED
    BY <2>3, <2>4
<1>6. QED
  BY <1>2, <1>3, <1>4, <1>5, RowStep

-----------------------------------------------------------------------------
(* What ended stays ended.                                                 *)

LEMMA OverStep ==
    ASSUME TypeOK, KnownInv, [Next]_vars, NEW f \in Tokens, Over(f)
    PROVE  Over(f)'
<1>1. PICK t \in Tokens : row[t].family = f
  BY DEF Over
<1>2. /\ \A u \in Tokens : row[u].family = f => row[u].state # "unused"
      /\ \A u \in Tokens : ~(row[u].state = "live" /\ row[u].family = f)
      /\ row[f].state # "unused"
  BY <1>1, NoneAssumption DEF Over, Live, TypeOK, KnownInv, Known
<1>3. ASSUME NEW q \in Requests, RowRotated(q)
      PROVE  row[request[q].cookie].family # f
  BY <1>3 DEF Over, Rotating, RowRotated
<1>4. row'[t].family = f
  BY <1>1, <1>2, RowStep DEF RowsKept, RowsEnded, RowIssued, RowRotated
<1>5. ASSUME NEW u \in Tokens
      PROVE  ~(row'[u].state = "live" /\ row'[u].family = f)
  BY <1>2, <1>3, RowStep DEF RowsKept, RowsEnded, RowIssued, RowRotated
<1>6. ASSUME NEW q \in Requests, At(q, "refresh", "rotating")', row'[request'[q].cookie].family = f
      PROVE  FALSE
  <2>1. ASSUME NEW u \in Tokens, row[u].state # "unused"
        PROVE  row'[u].family = row[u].family
    BY <2>1, RowStep DEF RowsKept, RowsEnded, RowIssued, RowRotated
  <2>2. ASSUME NEW p \in Requests, Moved(q, p)
        PROVE  FALSE
    <3>1. PICK u : u = request[p].cookie
      OBVIOUS
    <3>2. At(p, "refresh", "rotating") /\ u = request'[q].cookie
      BY <1>6, <2>2, <3>1 DEF Moved, At
    <3>3. u \in Tokens /\ row[u].state # "unused"
      BY <3>1, <3>2, Carried DEF KnownInv, At
    <3>4. row[u].family = f
      BY <1>6, <2>1, <3>2, <3>3
    <3>5. QED
      BY <3>1, <3>2, <3>4 DEF Over, Rotating
  <2>3. CASE LookedUp(q)
    <3>1. PICK u : u = request[q].cookie
      OBVIOUS
    <3>2. PICK stage \in {"reused", "rotating"} :
             /\ request'[q] = [request[q] EXCEPT !.stage = stage]
             /\ stage = "reused" <=> row[u].state = "revoked"
      BY <2>3, <3>1 DEF LookedUp
    <3>3. request'[q].cookie = u /\ request'[q].stage = stage
      BY <3>1, <3>2 DEF TypeOK, Request
    <3>4. stage = "rotating"
      BY <1>6, <3>3 DEF At
    <3>5. u \in Tokens /\ row[u].state # "unused"
      BY <2>3, <3>1, Carried DEF LookedUp
    <3>6. row[u].state = "live" /\ row[u].family = f
      BY <1>6, <2>1, <3>2, <3>3, <3>4, <3>5 DEF TypeOK, Row
    <3>7. QED
      BY <1>2, <3>5, <3>6
  <2>4. ~(request'[q] = NoRequest \/ Sent(q) \/ Answers(q))
    <3>1. request'[q].stage = "rotating"
      BY <1>6 DEF At
    <3>2. /\ request'[q] = NoRequest => request'[q].stage = "sent"
          /\ Sent(q) => request'[q].stage = "sent"
      BY DEF NoRequest, Sent
    <3>3. Answers(q) => request'[q].stage \in {"ok", "refused"}
      BY DEF Answers
    <3>4. QED
      BY <3>1, <3>2, <3>3
  <2>5. QED
    BY <2>2, <2>3, <2>4, RequestStep DEF Becomes
<1>7. QED
  BY <1>4, <1>5, <1>6 DEF Over, Live, Rotating

\* A family that has no live token, and no rotation under way, never has a live token again: a
\* session that ended stays ended (auth.service.ts:180).
THEOREM EndsAreFinal == Spec => EndedSessionsStayEnded
<1>1. TypeOK /\ KnownInv /\ [Next]_vars => TypeOK' /\ KnownInv'
  BY TypesStep, KnownStep
<1>2. TypeOK /\ KnownInv /\ [Next]_vars => [\A f \in Tokens : Over(f) => Over(f)']_vars
  BY OverStep
<1>3. QED
  BY <1>1, <1>2, InitKnown, PTL DEF Spec, EndedSessionsStayEnded

-----------------------------------------------------------------------------
(* Before the first mishap, every tab knows what it spent.                 *)

SpentInv == \A t \in Tokens : row[t].state = "unused" => spender[t] = None

UnheardIdle == \A q \in Requests : ~q[3] => request[q] = NoRequest
\* No refresh carries what its own tab spent, and no refresh that begins now would.
OwnUnspent ==
    \A q \in Requests : request[q].op = "refresh" /\ request[q].cookie # None =>
                          spender[request[q].cookie] # q[1]
CookieUnspent ==
    \A t \in Tabs : cookie # None /\ spender[cookie] = t => At(Refresh(t), "refresh", "ok")
\* A token on its way to its tab is nobody else's yet.
AnswersPending ==
    \A q \in Requests : request[q].token # None =>
        /\ spender[request[q].token] = None /\ cookie # request[q].token
        /\ \A p \in Requests : request[p].cookie # request[q].token
        /\ \A p \in Requests \ {q} : request[p].token # request[q].token
SessionsCome ==
    \A q \in Requests : request[q].op \in {"login", "refresh"} /\ request[q].stage = "ok" =>
                          request[q].token # None

OwnInv == /\ UnheardIdle
          /\ OwnUnspent
          /\ CookieUnspent
          /\ AnswersPending
          /\ SessionsCome

LEMMA SpentStep ==
    ASSUME TypeOK, KnownInv, SpentInv, [Next]_vars
    PROVE  SpentInv'
<1>1. ASSUME NEW t \in Tokens, row'[t].state = "unused"
      PROVE  row[t].state = "unused"
  BY <1>1, KnownLasts
<1>2. CASE spender' = spender
  BY <1>1, <1>2 DEF SpentInv
<1>3. ASSUME NEW q \in Requests, Rotate(q)
      PROVE  SpentInv'
  <2>1. PICK u : u = request[q].cookie
    OBVIOUS
  <2>2. u \in Tokens /\ row[u].state # "unused" /\ spender' = [spender EXCEPT ![u] = q[1]]
    BY <1>3, <2>1, Carried DEF Rotate, KnownInv, At
  <2>3. QED
    BY <1>1, <2>2 DEF SpentInv, TypeOK
<1>4. ASSUME \/ \E t \in Tokens : Lapse(t) \/ Expire(t)
             \/ \E t \in Tabs : Submit(t) \/ SignOut(t) \/ Reload(t)
             \/ \E t \in Tabs, l \in Lines : Ask(t, l) \/ Answered(t, l) \/ Unauthorized(t, l)
             \/ UNCHANGED vars
      PROVE  spender' = spender
  BY <1>4 DEF Lapse, Expire, Submit, SignOut, Reload, Ask, Answered, Unauthorized, vars
<1>5. ASSUME NEW q \in Requests, Handle(q) \/ Arrive(q) \/ LoseAnswer(q) \/ Die(q), ~Rotate(q)
      PROVE  spender' = spender
  BY <1>5 DEF Handle, Register, Login, LoginRefused, RefreshRead, RevokeReplayed, OutOfTokens,
              Logout, Arrive, RegisterAnswered, SignedIn, SignInRefused, SignedOut, Refreshed,
              LoseAnswer, Die
<1>6. QED
  BY <1>2, <1>3, <1>4, <1>5 DEF Next

\* A step that edits one request and leaves the cookie and the spenders alone.
LEMMA OwnQuiet ==
    ASSUME TypeOK, OwnInv, NEW q \in Requests, NEW r \in Request,
           UNCHANGED <<cookie, spender>>,
           request'[q] = r, \A p \in Requests \ {q} : request'[p] = request[p],
           ~At(q, "refresh", "ok"), ~(r.op \in {"login", "refresh"} /\ r.stage = "ok"),
           ~q[3] => r = NoRequest,
           r.cookie \in {None, cookie, request[q].cookie},
           r.token \in {None, request[q].token},
           r.op = "refresh" /\ r.cookie # None => spender[r.cookie] # q[1]
    PROVE  OwnInv'
<1>1. UnheardIdle'
  BY DEF OwnInv, UnheardIdle
<1>2. OwnUnspent'
  BY DEF OwnInv, OwnUnspent
<1>3. CookieUnspent'
  <2>1. SUFFICES ASSUME NEW t \in Tabs, cookie # None, spender[cookie] = t
                 PROVE  At(Refresh(t), "refresh", "ok")'
    BY DEF CookieUnspent
  <2>2. At(Refresh(t), "refresh", "ok") /\ Refresh(t) \in Requests
    BY <2>1, TabRequests DEF OwnInv, CookieUnspent
  <2>3. QED
    BY <2>2 DEF At
<1>4. AnswersPending'
  <2>1. ASSUME NEW p \in Requests
        PROVE  /\ request'[p].token \in {None, request[p].token}
               /\ request'[p].cookie \in {None, cookie, request[p].cookie}
    OBVIOUS
  <2>2. QED
    BY <2>1 DEF OwnInv, AnswersPending
<1>5. SessionsCome'
  BY DEF OwnInv, SessionsCome, At
<1>6. QED
  BY <1>1, <1>2, <1>3, <1>4, <1>5 DEF OwnInv

\* A handler answers without a token, or a form's answer is taken.
LEMMA OwnEnds ==
    ASSUME TypeOK, OwnInv, NEW q \in Requests, NEW stage \in {"ok", "refused"},
           Ends(q, stage, None), UNCHANGED <<cookie, spender>>,
           ~At(q, "refresh", "ok"), ~(request[q].op \in {"login", "refresh"} /\ stage = "ok")
    PROVE  OwnInv'
<1>1. /\ request' \in [Requests -> Request]
      /\ \/ request'[q] = NoRequest
         \/ /\ q[3]
            /\ request'[q] = [op |-> request[q].op, cookie |-> None, stage |-> stage, token |-> None]
      /\ \A p \in Requests \ {q} : request'[p] = request[p]
  BY EndsEffect
<1>2. PICK r \in Request : request'[q] = r
  BY <1>1
<1>3. /\ ~(r.op \in {"login", "refresh"} /\ r.stage = "ok") /\ r.cookie = None /\ r.token = None
      /\ ~q[3] => r = NoRequest
  BY <1>1, <1>2 DEF NoRequest
<1>4. QED
  BY <1>1, <1>2, <1>3, OwnQuiet

LEMMA OwnDone ==
    ASSUME TypeOK, OwnInv, NEW q \in Requests, request' = [request EXCEPT ![q] = NoRequest],
           UNCHANGED <<cookie, spender>>, ~At(q, "refresh", "ok")
    PROVE  OwnInv'
<1>1. PICK r : r = NoRequest
  OBVIOUS
<1>2. r \in Request /\ r.op = "idle" /\ r.cookie = None /\ r.token = None
  BY <1>1, NoRequestTyped DEF NoRequest
<1>3. request'[q] = r /\ \A p \in Requests \ {q} : request'[p] = request[p]
  BY <1>1, <1>2, RequestEdit
<1>4. QED
  BY <1>1, <1>2, <1>3, OwnQuiet

LEMMA OwnSend ==
    ASSUME TypeOK, OwnInv, NEW q \in Requests, NEW op \in {"register", "login", "refresh", "logout"},
           Send(q, op), q[3], UNCHANGED <<cookie, spender>>, ~At(q, "refresh", "ok"),
           op = "refresh" => q = Refresh(q[1])
    PROVE  OwnInv'
<1>1. /\ request' \in [Requests -> Request]
      /\ request'[q] = [op |-> op, cookie |-> cookie, stage |-> "sent", token |-> None]
      /\ \A p \in Requests \ {q} : request'[p] = request[p]
  BY SendEffect
<1>2. PICK r \in Request : request'[q] = r
  BY <1>1
<1>3. r.op = op /\ r.cookie = cookie /\ r.token = None /\ r.stage = "sent"
  BY <1>1, <1>2
<1>4. op = "refresh" /\ cookie # None => spender[cookie] # q[1]
  BY RequestShape DEF OwnInv, CookieUnspent
<1>5. QED
  BY <1>1, <1>2, <1>3, <1>4, OwnQuiet

\* Where no request changes.
LEMMA OwnSame ==
    ASSUME OwnInv, UNCHANGED <<request, cookie, spender>>
    PROVE  OwnInv'
BY DEF OwnInv, UnheardIdle, OwnUnspent, CookieUnspent, AnswersPending, SessionsCome, At

\* A handler issues a token: nothing is spent, or the token the refresh came with.
LEMMA OwnIssue ==
    ASSUME TypeOK, KnownInv, SpentInv, OwnInv, NEW q \in Requests,
           Fresh \in Tokens, row[Fresh].state = "unused",
           Ends(q, "ok", Fresh), cookie' = cookie,
           request[q].op # "idle", ~At(q, "refresh", "ok"),
           \A t \in Tokens :
              \/ spender'[t] = spender[t]
              \/ request[q].op = "refresh" /\ t = request[q].cookie /\ spender'[t] = q[1]
    PROVE  OwnInv'
<1>1. \A p \in Requests : request[p].op # "idle" => p[3]
  BY DEF OwnInv, UnheardIdle, NoRequest
<1>2. /\ request' \in [Requests -> Request]
      /\ request'[q] = [op |-> request[q].op, cookie |-> None, stage |-> "ok", token |-> Fresh]
      /\ \A p \in Requests \ {q} : request'[p] = request[p]
  <2>1. /\ request' \in [Requests -> Request]
        /\ \/ request'[q] = NoRequest
           \/ /\ q[3]
              /\ request'[q] = [op |-> request[q].op, cookie |-> None, stage |-> "ok", token |-> Fresh]
        /\ \A p \in Requests \ {q} : request'[p] = request[p]
    BY EndsEffect
  <2>2. request' = [request EXCEPT ![q] =
                      IF q[3] THEN [op |-> @.op, cookie |-> None, stage |-> "ok", token |-> Fresh]
                      ELSE NoRequest]
    BY DEF Ends
  <2>3. request'[q] = [op |-> request[q].op, cookie |-> None, stage |-> "ok", token |-> Fresh]
    BY <1>1, <2>2 DEF TypeOK
  <2>4. QED
    BY <2>1, <2>3
<1>3. PICK r \in Request : request'[q] = r
  BY <1>2
<1>4. r.op = request[q].op /\ r.cookie = None /\ r.stage = "ok" /\ r.token = Fresh
  BY <1>2, <1>3
<1>5. /\ Fresh # None /\ Fresh # cookie
      /\ \A p \in Requests : request[p].cookie # Fresh /\ request[p].token # Fresh
  BY NoneAssumption DEF KnownInv, Known
<1>6. spender'[Fresh] = None
  BY <1>5 DEF SpentInv
<1>7. \A p \in Requests : request[p].op = "refresh" => p = Refresh(p[1])
  <2>1. ASSUME NEW p \in Requests, request[p].op = "refresh"
        PROVE  p = Refresh(p[1])
    <3>1. p[2] = "refresh" /\ p[3] = TRUE
      BY <1>1, <2>1, RequestShape DEF TypeOK
    <3>2. QED
      BY <3>1, RequestShape DEF Refresh
  <2>2. QED
    BY <2>1
<1>8. UnheardIdle'
  BY <1>1, <1>2 DEF OwnInv, UnheardIdle
<1>9. OwnUnspent'
  <2>1. SUFFICES ASSUME NEW p \in Requests, p # q, request[p].op = "refresh", request[p].cookie # None
                 PROVE  spender'[request[p].cookie] # p[1]
    BY <1>2, <1>3, <1>4 DEF OwnUnspent
  <2>2. spender[request[p].cookie] # p[1] /\ request[p].cookie \in Tokens
    BY <2>1 DEF OwnInv, OwnUnspent, TypeOK, Request
  <2>3. request[q].op = "refresh" => p[1] # q[1]
    BY <1>7, <2>1
  <2>4. QED
    BY <2>2, <2>3
<1>10. CookieUnspent'
  <2>1. SUFFICES ASSUME NEW t \in Tabs, cookie # None, spender'[cookie] = t
                 PROVE  At(Refresh(t), "refresh", "ok")'
    BY DEF CookieUnspent
  <2>2. CASE spender[cookie] = t
    <3>1. At(Refresh(t), "refresh", "ok") /\ Refresh(t) \in Requests
      BY <2>1, <2>2, TabRequests DEF OwnInv, CookieUnspent
    <3>2. QED
      BY <1>2, <3>1 DEF At
  <2>3. CASE request[q].op = "refresh" /\ t = q[1]
    BY <1>3, <1>4, <1>7, <2>3 DEF At
  <2>4. QED
    BY <2>1, <2>2, <2>3 DEF TypeOK
<1>11. AnswersPending'
  <2>1. ASSUME NEW p \in Requests, p # q, request[p].token # None
        PROVE  /\ spender'[request[p].token] = None /\ cookie # request[p].token
               /\ \A b \in Requests : request'[b].cookie # request[p].token
               /\ \A b \in Requests \ {p} : request'[b].token # request[p].token
    <3>1. /\ spender[request[p].token] = None /\ cookie # request[p].token
          /\ \A b \in Requests : request[b].cookie # request[p].token
          /\ \A b \in Requests \ {p} : request[b].token # request[p].token
          /\ request[p].token \in Tokens
      BY <2>1 DEF OwnInv, AnswersPending, TypeOK, Request
    <3>2. spender'[request[p].token] = None
      BY <3>1
    <3>3. QED
      BY <1>2, <1>3, <1>4, <1>5, <2>1, <3>1, <3>2
  <2>2. /\ \A b \in Requests : request'[b].cookie # Fresh
        /\ \A b \in Requests \ {q} : request'[b].token # Fresh
    BY <1>2, <1>3, <1>4, <1>5
  <2>3. QED
    BY <1>2, <1>3, <1>4, <1>5, <1>6, <2>1, <2>2 DEF AnswersPending
<1>12. SessionsCome'
  BY <1>2, <1>3, <1>4, <1>5 DEF OwnInv, SessionsCome, At
<1>13. QED
  BY <1>8, <1>9, <1>10, <1>11, <1>12 DEF OwnInv

\* A tab takes an answer with a token, which becomes the cookie.
LEMMA OwnTaken ==
    ASSUME TypeOK, OwnInv, NEW q \in Requests, request[q].token # None,
           cookie' = request[q].token, spender' = spender,
           request' = [request EXCEPT ![q] = NoRequest]
    PROVE  OwnInv'
<1>1. PICK r : r = NoRequest
  OBVIOUS
<1>2. /\ r \in Request /\ r.op = "idle" /\ r.cookie = None /\ r.token = None
      /\ request'[q] = r /\ \A p \in Requests \ {q} : request'[p] = request[p]
  BY <1>1, NoRequestTyped, RequestEdit DEF NoRequest
<1>3. spender[request[q].token] = None
  BY DEF OwnInv, AnswersPending
<1>4. UnheardIdle' /\ OwnUnspent' /\ SessionsCome'
  BY <1>1, <1>2 DEF OwnInv, UnheardIdle, OwnUnspent, SessionsCome, At
<1>5. CookieUnspent'
  BY <1>3, NoneAssumption DEF CookieUnspent
<1>6. AnswersPending'
  BY <1>2 DEF OwnInv, AnswersPending
<1>7. QED
  BY <1>4, <1>5, <1>6 DEF OwnInv

LEMMA OwnRefreshRead ==
    ASSUME TypeOK, OwnInv, NEW q \in Requests, RefreshRead(q)
    PROVE  OwnInv'
<1>1. ~At(q, "refresh", "ok") /\ request[q].op = "refresh" /\ UNCHANGED <<cookie, spender>>
  BY DEF RefreshRead, At
<1>2. CASE Ends(q, "refused", None)
  BY <1>1, <1>2, OwnEnds
<1>3. ASSUME NEW stage \in {"reused", "rotating"}, Goes(q, stage)
      PROVE  OwnInv'
  <2>1. /\ request' \in [Requests -> Request]
        /\ request'[q] = [request[q] EXCEPT !.stage = stage]
        /\ \A p \in Requests \ {q} : request'[p] = request[p]
    BY <1>3, GoesEffect
  <2>2. PICK r \in Request : request'[q] = r
    BY <2>1
  <2>3. /\ r.op = request[q].op /\ r.cookie = request[q].cookie /\ r.token = request[q].token
        /\ r.stage = stage
    BY <2>1, <2>2 DEF TypeOK, Request
  <2>4. q[3]
    BY <1>1 DEF OwnInv, UnheardIdle, NoRequest
  <2>5. r.cookie # None => spender[r.cookie] # q[1]
    BY <1>1, <2>3 DEF OwnInv, OwnUnspent
  <2>6. QED
    BY <1>1, <2>1, <2>2, <2>3, <2>4, <2>5, OwnQuiet
<1>4. \/ Ends(q, "refused", None) \/ Goes(q, "reused") \/ Goes(q, "rotating")
  BY DEF RefreshRead
<1>5. QED
  BY <1>2, <1>3, <1>4

LEMMA OwnStep ==
    ASSUME TypeOK, KnownInv, SpentInv, OwnInv, [Next]_vars, mishaps' = mishaps
    PROVE  OwnInv'
<1>1. ASSUME \/ \E t \in Tokens : Lapse(t) \/ Expire(t)
             \/ \E t \in Tabs, l \in Lines : Ask(t, l) \/ Answered(t, l)
             \/ UNCHANGED vars
      PROVE  OwnInv'
  BY <1>1, OwnSame DEF Lapse, Expire, Ask, Answered, vars
<1>2. ASSUME NEW q \in Requests, \/ Register(q) \/ LoginRefused(q) \/ RevokeReplayed(q)
                                \/ OutOfTokens(q) \/ Logout(q)
      PROVE  OwnInv'
  <2>1. /\ UNCHANGED <<cookie, spender>>
        /\ \/ Ends(q, "refused", None)
           \/ Ends(q, "ok", None) /\ request[q].op \notin {"login", "refresh"}
        /\ ~At(q, "refresh", "ok")
    BY <1>2 DEF Register, LoginRefused, RevokeReplayed, OutOfTokens, Logout, At
  <2>2. QED
    BY <2>1, OwnEnds
<1>3. ASSUME NEW q \in Requests, Login(q)
      PROVE  OwnInv'
  <2>1. /\ Unused # {} /\ Ends(q, "ok", Fresh) /\ cookie' = cookie /\ spender' = spender
        /\ request[q].op = "login"
    BY <1>3 DEF Login, At
  <2>2. QED
    BY <2>1, FreshIsUnused, OwnIssue DEF At
<1>4. ASSUME NEW q \in Requests, Rotate(q)
      PROVE  OwnInv'
  <2>1. PICK u : u = request[q].cookie
    OBVIOUS
  <2>2. /\ Unused # {} /\ Ends(q, "ok", Fresh) /\ cookie' = cookie
        /\ spender' = [spender EXCEPT ![u] = q[1]]
        /\ request[q].op = "refresh" /\ request[q].stage = "rotating"
    BY <1>4, <2>1 DEF Rotate, At
  <2>3. \A t \in Tokens : \/ spender'[t] = spender[t]
                          \/ t = u /\ spender'[t] = q[1]
    BY <2>2 DEF TypeOK
  <2>4. QED
    BY <2>1, <2>2, <2>3, FreshIsUnused, OwnIssue DEF At
<1>5. ASSUME NEW q \in Requests, RefreshRead(q)
      PROVE  OwnInv'
  BY <1>5, OwnRefreshRead
<1>6. ASSUME NEW q \in Requests, RegisterAnswered(q)
      PROVE  OwnInv'
  <2>1. /\ q[3] /\ Send(q, "login") /\ UNCHANGED <<cookie, spender>>
        /\ ~At(q, "refresh", "ok")
    BY <1>6 DEF RegisterAnswered, Heard, At
  <2>2. QED
    BY <2>1, OwnSend
<1>7. ASSUME NEW q \in Requests, SignInRefused(q) \/ SignedOut(q)
      PROVE  OwnInv'
  <2>1. /\ request' = [request EXCEPT ![q] = NoRequest] /\ UNCHANGED <<cookie, spender>>
        /\ ~At(q, "refresh", "ok")
    BY <1>7 DEF SignInRefused, SignedOut, At
  <2>2. QED
    BY <2>1, OwnDone
<1>8. ASSUME NEW q \in Requests, SignedIn(q) \/ Refreshed(q)
      PROVE  OwnInv'
  <2>1. /\ request' = [request EXCEPT ![q] = NoRequest] /\ spender' = spender
        /\ request[q].token # None => cookie' = request[q].token
    BY <1>8 DEF SignedIn, Refreshed
  <2>2. CASE request[q].token # None
    BY <2>1, <2>2, OwnTaken
  <2>3. CASE request[q].token = None
    <3>1. ~At(q, "refresh", "ok")
      BY <2>3 DEF OwnInv, SessionsCome, At
    <3>2. CASE Refreshed(q)
      BY <2>1, <2>3, <3>1, <3>2, OwnDone DEF Refreshed
    <3>3. CASE SignedIn(q)
      BY <2>3, <3>3 DEF SignedIn, OwnInv, SessionsCome, At
    <3>4. QED
      BY <1>8, <3>2, <3>3
  <2>4. QED
    BY <2>2, <2>3
<1>9. ASSUME NEW q \in Requests, LoseAnswer(q)
      PROVE  FALSE
  BY <1>9 DEF LoseAnswer, TypeOK
<1>10. ASSUME NEW t \in Tabs, Submit(t) \/ SignOut(t)
       PROVE  OwnInv'
  <2>1. /\ Send(Form(t), "register") \/ Send(Form(t), "login") \/ Send(Form(t), "logout")
        /\ UNCHANGED <<cookie, spender>> /\ request[Form(t)].op # "refresh"
    BY <1>10 DEF Submit, SignOut, NoRequest
  <2>2. QED
    BY <2>1, TabRequests, OwnSend DEF At
<1>11. ASSUME NEW t \in Tabs, NEW l \in Lines, Unauthorized(t, l)
       PROVE  OwnInv'
  <2>1. /\ UNCHANGED <<cookie, spender>>
        /\ (request' = request \/ (~Refreshing(t) /\ Send(Refresh(t), "refresh")))
    BY <1>11 DEF Unauthorized
  <2>2. ~Refreshing(t) => ~At(Refresh(t), "refresh", "ok")
    BY DEF Refreshing, NoRequest, At
  <2>3. QED
    BY <2>1, <2>2, TabRequests, OwnSend, OwnSame
<1>12. ASSUME NEW t \in Tabs, Reload(t)
       PROVE  FALSE
  BY <1>12 DEF Reload, TypeOK
<1>13. ASSUME NEW q \in Requests, Die(q)
       PROVE  OwnInv'
  <2>1. /\ request' = [request EXCEPT ![q] = NoRequest] /\ UNCHANGED <<cookie, spender>>
        /\ ~At(q, "refresh", "ok")
    BY <1>13 DEF Die, InHandler, At
  <2>2. QED
    BY <2>1, OwnDone
<1>14. QED
  BY <1>1, <1>2, <1>3, <1>4, <1>5, <1>6, <1>7, <1>8, <1>9, <1>10, <1>11, <1>12, <1>13
     DEF Next, Handle, Arrive

\* A mishap is never undone.
LEMMA MishapsStep ==
    ASSUME TypeOK, [Next]_vars
    PROVE  mishaps' = mishaps \/ mishaps' = mishaps + 1
<1>1. ASSUME \/ \E t \in Tokens : Lapse(t) \/ Expire(t)
             \/ \E t \in Tabs : Submit(t) \/ SignOut(t) \/ Reload(t)
             \/ \E t \in Tabs, l \in Lines : Ask(t, l) \/ Answered(t, l) \/ Unauthorized(t, l)
             \/ UNCHANGED vars
      PROVE  mishaps' = mishaps \/ mishaps' = mishaps + 1
  BY <1>1 DEF Lapse, Expire, Submit, SignOut, Reload, Ask, Answered, Unauthorized, vars
<1>2. ASSUME NEW q \in Requests, Handle(q) \/ Arrive(q) \/ LoseAnswer(q) \/ Die(q)
      PROVE  mishaps' = mishaps \/ mishaps' = mishaps + 1
  BY <1>2 DEF Handle, Register, Login, LoginRefused, RefreshRead, RevokeReplayed, Rotate, OutOfTokens,
              Logout, Arrive, RegisterAnswered, SignedIn, SignInRefused, SignedOut, Refreshed,
              LoseAnswer, Die
<1>3. QED
  BY <1>1, <1>2 DEF Next

CarefulInv == mishaps = 0 => OwnInv

LEMMA InitCareful == Init => SpentInv /\ CarefulInv
BY DEF Init, SpentInv, CarefulInv, OwnInv, UnheardIdle, OwnUnspent, CookieUnspent, AnswersPending,
       SessionsCome, NoRequest

LEMMA CarefulStep ==
    ASSUME TypeOK, KnownInv, SpentInv, CarefulInv, [Next]_vars
    PROVE  CarefulInv'
<1>1. mishaps' = 0 => mishaps = 0 /\ mishaps' = mishaps
  BY MishapsStep DEF TypeOK
<1>2. CASE mishaps' # 0
  BY <1>2 DEF CarefulInv
<1>3. CASE mishaps' = 0
  BY <1>1, <1>3, OwnStep DEF CarefulInv
<1>4. QED
  BY <1>2, <1>3

\* The refresh that all calls of a tab share: as long as no answer is lost and no page is
\* loaded anew, a tab is never taken for the thief of its own session, whatever handlers die
\* (client.ts:27-34).
THEOREM NoTabLooksLikeAThief == Spec => []NoTabReplaysItsOwn
<1>1. TypeOK /\ KnownInv /\ SpentInv /\ CarefulInv /\ [Next]_vars
        => TypeOK' /\ KnownInv' /\ SpentInv' /\ CarefulInv'
  BY TypesStep, KnownStep, SpentStep, CarefulStep
<1>2. TypeOK /\ KnownInv /\ CarefulInv => NoTabReplaysItsOwn
  <2>1. SUFFICES ASSUME TypeOK, KnownInv, CarefulInv, NEW q \in Requests, At(q, "refresh", "reused"),
                        spender[request[q].cookie] = q[1]
                 PROVE  mishaps > 0
    BY DEF NoTabReplaysItsOwn
  <2>2. request[q].cookie # None
    BY <2>1 DEF KnownInv, At
  <2>3. ~OwnInv
    BY <2>1, <2>2 DEF OwnInv, OwnUnspent, At
  <2>4. QED
    BY <2>1, <2>3 DEF CarefulInv, TypeOK
<1>3. QED
  BY <1>1, <1>2, InitKnown, InitCareful, PTL DEF Spec

-----------------------------------------------------------------------------
(* Before the first mishap, the browser can go on.                         *)

\* A token is revoked because it was spent, or because its family was ended.
RevokedInv ==
    \A t \in Tokens : row[t].state = "revoked" => spender[t] # None \/ row[t].family \in ended
\* Nothing expired, and the answer that follows a spent cookie continues its session.
NoneExpired == \A t \in Tokens : row[t].age # "expired"
SuccessorComes ==
    \A q \in Requests :
        At(q, "refresh", "ok") /\ cookie # None /\ spender[cookie] = q[1] =>
            row[request[q].token].family = row[cookie].family
TipInv == mishaps = 0 => NoneExpired /\ SuccessorComes

\* A token that was spent stays spent, by the tab that spent it first or by a later one.
LEMMA SpenderStep ==
    ASSUME TypeOK, KnownInv, [Next]_vars
    PROVE  \/ spender' = spender
           \/ \E q \in Requests : /\ Rotate(q) /\ request[q].cookie \in Tokens
                                  /\ spender' = [spender EXCEPT ![request[q].cookie] = q[1]]
<1>1. ASSUME NEW q \in Requests, Rotate(q)
      PROVE  /\ request[q].cookie \in Tokens
             /\ spender' = [spender EXCEPT ![request[q].cookie] = q[1]]
  BY <1>1, Carried DEF Rotate, KnownInv, At
<1>2. ASSUME \/ \E t \in Tokens : Lapse(t) \/ Expire(t)
             \/ \E t \in Tabs : Submit(t) \/ SignOut(t) \/ Reload(t)
             \/ \E t \in Tabs, l \in Lines : Ask(t, l) \/ Answered(t, l) \/ Unauthorized(t, l)
             \/ UNCHANGED vars
      PROVE  spender' = spender
  BY <1>2 DEF Lapse, Expire, Submit, SignOut, Reload, Ask, Answered, Unauthorized, vars
<1>3. ASSUME NEW q \in Requests, Handle(q) \/ Arrive(q) \/ LoseAnswer(q) \/ Die(q), ~Rotate(q)
      PROVE  spender' = spender
  BY <1>3 DEF Handle, Register, Login, LoginRefused, RefreshRead, RevokeReplayed, OutOfTokens,
              Logout, Arrive, RegisterAnswered, SignedIn, SignInRefused, SignedOut, Refreshed,
              LoseAnswer, Die
<1>4. QED
  BY <1>1, <1>2, <1>3 DEF Next

LEMMA SpentLasts ==
    ASSUME TypeOK, KnownInv, [Next]_vars, NEW t \in Tokens, spender[t] # None
    PROVE  spender'[t] # None
<1>1. \A q \in Requests : q[1] # None
  BY RequestShape, NoneAssumption
<1>2. QED
  BY <1>1, SpenderStep DEF TypeOK

LEMMA RotateSpends ==
    ASSUME TypeOK, KnownInv, NEW q \in Requests, RowRotated(q)
    PROVE  spender'[request[q].cookie] # None
<1>1. q[1] # None /\ request[q].cookie \in Tokens
  BY RequestShape, NoneAssumption DEF RowRotated
<1>2. QED
  BY <1>1 DEF RowRotated, Rotate, TypeOK

LEMMA RevokedStep ==
    ASSUME TypeOK, KnownInv, RevokedInv, [Next]_vars
    PROVE  RevokedInv'
<1> SUFFICES ASSUME NEW t \in Tokens, row'[t].state = "revoked"
             PROVE  spender'[t] # None \/ row'[t].family \in ended'
  BY DEF RevokedInv
<1>1. row[t].state = "revoked" => spender'[t] # None \/ row[t].family \in ended
  BY SpentLasts DEF RevokedInv
<1>2. CASE RowsKept
  BY <1>1, <1>2 DEF RowsKept
<1>3. CASE \E f \in Tokens : RowsEnded(f)
  BY <1>1, <1>3 DEF RowsEnded, Live
<1>4. CASE RowIssued(Fresh, {})
  BY <1>1, <1>4 DEF RowIssued
<1>5. ASSUME NEW q \in Requests, RowRotated(q)
      PROVE  spender'[t] # None \/ row'[t].family \in ended'
  BY <1>1, <1>5, RotateSpends DEF RowRotated, RowIssued
<1>6. QED
  BY <1>2, <1>3, <1>4, <1>5, RowStep

\* Only a mishap lets a token expire.
LEMMA AgeStep ==
    ASSUME TypeOK, KnownInv, NoneExpired, [Next]_vars, mishaps' = mishaps
    PROVE  NoneExpired'
<1>1. CASE row' = row
  BY <1>1 DEF NoneExpired
<1>2. ASSUME NEW t \in Tokens, Lapse(t)
      PROVE  NoneExpired'
  BY <1>2 DEF Lapse, NoneExpired, TypeOK, Row
<1>3. ASSUME NEW t \in Tokens, Expire(t)
      PROVE  FALSE
  BY <1>3 DEF Expire, TypeOK
<1>4. ASSUME NEW table \in [Tokens -> Row], NEW f \in Tokens, Unused # {},
             row' = Issued(table, f), \A t \in Tokens : table[t].age = row[t].age
      PROVE  NoneExpired'
  <2>1. /\ Fresh \in Tokens /\ Issued(table, f)[Fresh].age = table[Fresh].age
        /\ \A t \in Tokens \ {Fresh} : Issued(table, f)[t] = table[t]
    BY <1>4, IssuedEffect, FreshIsUnused
  <2>2. QED
    BY <1>4, <2>1 DEF NoneExpired
<1>5. ASSUME NEW q \in Requests, Login(q)
      PROVE  NoneExpired'
  <2>1. Unused # {} /\ row' = Issued(row, Fresh) /\ Fresh \in Tokens
    BY <1>5, FreshIsUnused DEF Login
  <2>2. QED
    BY <1>4, <2>1 DEF TypeOK
<1>6. ASSUME NEW q \in Requests, Rotate(q)
      PROVE  NoneExpired'
  <2>1. PICK t : t = request[q].cookie
    OBVIOUS
  <2>2. /\ At(q, "refresh", "rotating") /\ Unused # {}
        /\ row' = Issued(Revoked({t}), row[t].family)
    BY <1>6, <2>1 DEF Rotate
  <2>3. t \in Tokens /\ row[t].family \in Tokens
    BY <2>1, <2>2, Carried DEF KnownInv, At
  <2>4. PICK table, f : table = Revoked({t}) /\ f = row[t].family
    OBVIOUS
  <2>5. table \in [Tokens -> Row] /\ \A u \in Tokens : table[u].age = row[u].age
    BY <2>3, <2>4, RevokedEffect
  <2>6. QED
    BY <1>4, <2>2, <2>3, <2>4, <2>5
<1>7. ASSUME NEW S \in SUBSET Tokens, row' = Revoked(S)
      PROVE  NoneExpired'
  BY <1>7, RevokedEffect DEF NoneExpired
<1>8. ASSUME NEW q \in Requests, RevokeReplayed(q) \/ Logout(q)
      PROVE  NoneExpired'
  <2>1. row' = row \/ \E f : row' = Revoked(Live(f))
    BY <1>8 DEF RevokeReplayed, Logout
  <2>2. QED
    BY <1>1, <1>7, <2>1 DEF Live
<1>9. ASSUME NEW q \in Requests, \/ Register(q) \/ LoginRefused(q) \/ RefreshRead(q) \/ OutOfTokens(q)
                                \/ Arrive(q) \/ LoseAnswer(q) \/ Die(q)
      PROVE  row' = row
  BY <1>9 DEF Register, LoginRefused, RefreshRead, OutOfTokens, Arrive, RegisterAnswered, SignedIn,
              SignInRefused, SignedOut, Refreshed, LoseAnswer, Die
<1>10. ASSUME \/ \E t \in Tabs : Submit(t) \/ SignOut(t) \/ Reload(t)
              \/ \E t \in Tabs, l \in Lines : Ask(t, l) \/ Answered(t, l) \/ Unauthorized(t, l)
              \/ UNCHANGED vars
       PROVE  row' = row
  BY <1>10 DEF Submit, SignOut, Reload, Ask, Answered, Unauthorized, vars
<1>11. QED
  BY <1>1, <1>2, <1>3, <1>5, <1>6, <1>8, <1>9, <1>10 DEF Next, Handle

\* A token that was issued keeps its family.
LEMMA FamilyLasts ==
    ASSUME TypeOK, KnownInv, [Next]_vars, NEW t \in Tokens, row[t].state # "unused"
    PROVE  row'[t].family = row[t].family
BY RowStep DEF RowsKept, RowsEnded, RowIssued, RowRotated

\* A refresh is its tab's only one, and somebody waits for it.
LEMMA OneRefresh ==
    ASSUME TypeOK, OwnInv, NEW q \in Requests, request[q].op = "refresh"
    PROVE  q = Refresh(q[1])
<1>1. q[3] = TRUE
  BY RequestShape DEF OwnInv, UnheardIdle, NoRequest
<1>2. q[2] = "refresh"
  BY DEF TypeOK
<1>3. QED
  BY <1>1, <1>2, RequestShape DEF Refresh

LEMMA SuccessorStep ==
    ASSUME TypeOK, KnownInv, OwnInv, SuccessorComes, [Next]_vars, mishaps' = mishaps
    PROVE  SuccessorComes'
<1> SUFFICES ASSUME NEW q \in Requests, At(q, "refresh", "ok")', cookie' # None,
                    spender'[cookie'] = q[1]
             PROVE  row'[request'[q].token].family = row'[cookie'].family
  BY DEF SuccessorComes
<1>1. ASSUME NEW p \in Requests, Rotate(p), p # q
      PROVE  request'[q] = request[q]
  BY <1>1 DEF Rotate, Ends, TypeOK
<1>2. \/ Rotate(q)
      \/ request'[q] = request[q]
  <2>1. request'[q].op = "refresh" /\ request'[q].stage = "ok"
    BY DEF At
  <2>2. request'[q] # NoRequest /\ ~Sent(q)
    BY <2>1 DEF NoRequest, Sent
  <2>3. ~LookedUp(q)
    BY <2>1 DEF LookedUp, TypeOK, Request
  <2>4. ASSUME NEW p \in Requests, Moved(q, p)
        PROVE  request'[q] = request[q]
    BY <2>4 DEF Moved, TypeOK
  <2>5. Answers(q) => Rotate(q)
    BY <2>1 DEF Answers
  <2>6. QED
    BY <2>2, <2>3, <2>4, <2>5, RequestStep DEF Becomes
<1>3. CASE Rotate(q)
  <2>1. PICK t : t = request[q].cookie
    OBVIOUS
  <2>2. /\ request[q].op = "refresh" /\ request[q].stage = "rotating" /\ Ends(q, "ok", Fresh)
        /\ cookie' = cookie /\ Unused # {} /\ spender' = [spender EXCEPT ![t] = q[1]]
    BY <1>3, <2>1 DEF Rotate, At
  <2>3. t \in Tokens /\ row[t].state # "unused" /\ RowIssued(row[t].family, {t})
    BY <1>3, <2>1, RotateRows DEF RowRotated
  <2>4. request'[q].token = Fresh
    <3>1. PICK u : u = Fresh
      OBVIOUS
    <3>2. u \in Tokens /\ Ends(q, "ok", u)
      BY <2>2, <3>1, FreshIsUnused
    <3>3. \/ request'[q] = NoRequest
          \/ request'[q] = [op |-> request[q].op, cookie |-> None, stage |-> "ok", token |-> u]
      BY <3>2, EndsEffect
    <3>4. request'[q] # NoRequest
      BY DEF NoRequest, At
    <3>5. QED
      BY <3>1, <3>3, <3>4
  <2>5. cookie = t
    <3>1. q = Refresh(q[1]) /\ q[1] \in Tabs
      BY <2>2, OneRefresh, RequestShape
    <3>2. ~At(q, "refresh", "ok")
      BY <2>2 DEF At
    <3>3. spender[cookie] # q[1]
      BY <2>2, <3>1, <3>2 DEF OwnInv, CookieUnspent
    <3>4. QED
      BY <2>2, <3>3 DEF TypeOK
  <2>6. row'[t].family = row[t].family
    BY <2>3, FamilyLasts
  <2>7. QED
    BY <2>2, <2>3, <2>4, <2>5, <2>6 DEF RowIssued
<1>4. CASE request'[q] = request[q]
  <2>1. At(q, "refresh", "ok") /\ request[q].token \in Tokens
    BY <1>4 DEF At, OwnInv, SessionsCome, TypeOK, Request
  <2>2. row[request[q].token].state # "unused"
    BY <2>1, NoneAssumption DEF KnownInv, Known
  <2>3. CASE cookie' # cookie
    <3>1. PICK p \in Requests : cookie' = request[p].token
      BY <2>3, CookieStep
    <3>2. spender[cookie'] = None /\ cookie' \in Tokens
      BY <3>1 DEF OwnInv, AnswersPending, TypeOK, Request
    <3>3. spender'[cookie'] = spender[cookie']
      <4>1. ASSUME NEW b \in Requests, Rotate(b)
            PROVE  FALSE
        BY <2>3, <4>1 DEF Rotate
      <4>2. QED
        BY <4>1, SpenderStep
    <3>4. QED
      BY <3>2, <3>3, RequestShape, NoneAssumption
  <2>4. CASE cookie' = cookie
    <3>1. cookie \in Tokens /\ row[cookie].state # "unused"
      BY <2>4 DEF KnownInv, Known, TypeOK
    <3>2. spender[cookie] = q[1]
      <4>1. ASSUME NEW b \in Requests, Rotate(b)
            PROVE  b[1] # q[1]
        <5>1. request[b].op = "refresh" /\ request[b].stage = "rotating"
          BY <4>1 DEF Rotate, At
        <5>2. b = Refresh(b[1]) /\ q = Refresh(q[1])
          BY <2>1, <5>1, OneRefresh DEF At
        <5>3. QED
          BY <2>1, <5>1, <5>2 DEF At
      <4>2. QED
        BY <2>4, <3>1, <4>1, SpenderStep DEF TypeOK
    <3>3. QED
      BY <1>4, <2>1, <2>2, <2>4, <3>1, <3>2, FamilyLasts DEF SuccessorComes
  <2>5. QED
    BY <2>3, <2>4
<1>5. QED
  BY <1>2, <1>3, <1>4

LEMMA TipStep ==
    ASSUME TypeOK, KnownInv, CarefulInv, TipInv, [Next]_vars
    PROVE  TipInv'
<1>1. mishaps' = 0 => mishaps = 0 /\ mishaps' = mishaps
  BY MishapsStep DEF TypeOK
<1>2. CASE mishaps' # 0
  BY <1>2 DEF TipInv
<1>3. CASE mishaps' = 0
  BY <1>1, <1>3, AgeStep, SuccessorStep DEF TipInv, CarefulInv
<1>4. QED
  BY <1>2, <1>3

LEMMA BrowserGoesOn ==
    ASSUME TypeOK, KnownInv, CarefulInv, RevokedInv, TipInv
    PROVE  TheBrowserGoesOn
<1> SUFFICES ASSUME mishaps = 0, cookie # None, row[cookie].family \notin ended,
                    ~Good(cookie)
             PROVE  OnItsWay(row[cookie].family)
  BY DEF TheBrowserGoesOn
<1>1. OwnInv /\ NoneExpired /\ SuccessorComes
  BY DEF CarefulInv, TipInv
<1>2. cookie \in Tokens /\ row[cookie].state = "revoked"
  BY <1>1 DEF KnownInv, Known, NoneExpired, Good, TypeOK, Row
<1>3. PICK t \in Tabs : spender[cookie] = t
  BY <1>2 DEF RevokedInv, TypeOK
<1>4. PICK q \in Requests : q = Refresh(t) /\ q[1] = t /\ q[3]
  BY TabRequests
<1>5. At(q, "refresh", "ok")
  BY <1>1, <1>3, <1>4 DEF OwnInv, CookieUnspent
<1>6. PICK u : u = request[q].token
  OBVIOUS
<1>7. u \in Tokens /\ u # None /\ spender[u] = None
  BY <1>1, <1>5, <1>6 DEF OwnInv, SessionsCome, AnswersPending, At, TypeOK, Request
<1>8. row[u].family = row[cookie].family
  BY <1>1, <1>3, <1>4, <1>5, <1>6 DEF SuccessorComes
<1>9. row[u].state = "live"
  BY <1>6, <1>7, <1>8 DEF RevokedInv, KnownInv, Known, TypeOK, Row
<1>10. Good(u)
  BY <1>1, <1>7, <1>9 DEF Good, NoneExpired
<1>11. Heard(q)
  BY <1>4, <1>5 DEF Heard, At
<1>12. QED
  BY <1>6, <1>7, <1>8, <1>10, <1>11 DEF OnItsWay

\* No crash, lost answer or race leaves a family that nobody ended without a token that is not
\* revoked; and until the first lost answer, page loaded anew or expiry the browser has a token
\* that a refresh accepts, or an answer with one is on its way (auth.service.ts:162).
THEOREM LineagesSurvive == Spec => []LineageSurvives
<1>1. Init => NoLineageIsLost /\ RevokedInv /\ TipInv
  BY DEF Init, NoLineageIsLost, RevokedInv, TipInv, NoneExpired, SuccessorComes
<1>2. TypeOK /\ KnownInv /\ SpentInv /\ CarefulInv /\ NoLineageIsLost /\ RevokedInv /\ TipInv
        /\ [Next]_vars
        => /\ TypeOK' /\ KnownInv' /\ SpentInv' /\ CarefulInv'
           /\ NoLineageIsLost' /\ RevokedInv' /\ TipInv'
  BY TypesStep, KnownStep, SpentStep, CarefulStep, LineageStep, RevokedStep, TipStep
<1>3. TypeOK /\ KnownInv /\ CarefulInv /\ NoLineageIsLost /\ RevokedInv /\ TipInv => LineageSurvives
  BY BrowserGoesOn DEF LineageSurvives
<1>4. QED
  BY <1>1, <1>2, <1>3, InitKnown, InitCareful, PTL DEF Spec
=============================================================================
