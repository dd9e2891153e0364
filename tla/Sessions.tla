------------------------------ MODULE Sessions ------------------------------
(***************************************************************************)
(* Sessions: refresh tokens and their rotation in the API, and the tabs of *)
(* one browser that share a cookie and each hold an access token of their  *)
(* own.  A login begins a family of refresh tokens; every refresh spends   *)
(* one and issues its successor; a spent token that comes back ends the    *)
(* family.                                                                 *)
(*                                                                         *)
(* A token names the row of refresh_tokens and the access token that was   *)
(* signed with it.  A database statement, or a transaction, is one step.   *)
(***************************************************************************)
EXTENDS Integers, FiniteSets

CONSTANTS
    Tokens,     \* bound: refresh tokens
    Tabs,       \* open tabs of the browser
    Lines,      \* calls a page has under way at once
    MaxMishaps, \* bound: answers lost, pages loaded anew, sessions that expire
    None        \* no token, and no tab

ASSUME MishapsAssumption == MaxMishaps \in Nat
ASSUME NoneAssumption == None \notin Tokens \cup Tabs

\* A row: it is live until it is revoked, and its access token lapses long before it expires.
\* A request: what it asks, the cookie it carries, how far the handler is, and the token it
\* issued.  A call: the access token it was sent with.
Row == [state : {"unused", "live", "revoked"}, age : {"fresh", "lapsed", "expired"},
        family : Tokens \cup {None}]
Request == [op : {"idle", "register", "login", "refresh", "logout"},
            cookie : Tokens \cup {None},
            stage : {"sent", "reused", "rotating", "ok", "refused"}, token : Tokens \cup {None}]
Call == [stage : {"idle", "sent", "waiting", "resent"}, token : Tokens \cup {None}]

NoRequest == [op |-> "idle", cookie |-> None, stage |-> "sent", token |-> None]
NoCall == [stage |-> "idle", token |-> None]

\* A tab has one form under way, and one refresh that all its calls share.  A request whose
\* answer nobody waits for any more (heard is FALSE) is still handled; one of each is enough.
Requests == Tabs \X {"form", "refresh"} \X BOOLEAN
Form(t) == <<t, "form", TRUE>>
Refresh(t) == <<t, "refresh", TRUE>>
Unheard(q) == <<q[1], q[2], FALSE>>

VARIABLES
    row,     \* refresh_tokens
    cookie,  \* the browser's refresh cookie
    access,  \* each tab's access token, in memory
    request, \* credential requests, in the handler or on their way
    call,    \* each tab's calls of guarded endpoints
    mishaps,
    ended,   \* history: the families a logout or a replay revoked
    spender  \* history: the tab that had a token rotated, None if it lives or was revoked

vars == <<row, cookie, access, request, call, mishaps, ended, spender>>

TypeOK ==
    /\ row \in [Tokens -> Row]
    /\ cookie \in Tokens \cup {None}
    /\ access \in [Tabs -> Tokens \cup {None}]
    /\ request \in [Requests -> Request]
    /\ call \in [Tabs \X Lines -> Call]
    /\ mishaps \in 0 .. MaxMishaps
    /\ ended \subseteq Tokens
    /\ spender \in [Tokens -> Tabs \cup {None}]
    /\ \A t \in Tokens : row[t].state = "unused" <=> row[t].family = None
    /\ \A q \in Requests : request[q].op # "idle" => (q[2] = "refresh" <=> request[q].op = "refresh")

Init ==
    /\ row = [t \in Tokens |-> [state |-> "unused", age |-> "fresh", family |-> None]]
    /\ cookie = None
    /\ access = [t \in Tabs |-> None]
    /\ request = [q \in Requests |-> NoRequest]
    /\ call = [c \in Tabs \X Lines |-> NoCall]
    /\ mishaps = 0
    /\ ended = {}
    /\ spender = [t \in Tokens |-> None]

-----------------------------------------------------------------------------
\* The rows.
Unused == {t \in Tokens : row[t].state = "unused"}
Fresh == CHOOSE t \in Unused : TRUE
\* The tokens of a family that are not revoked; an expired one is among them.
Live(f) == {t \in Tokens : row[t].state = "live" /\ row[t].family = f}

Revoked(R) == [t \in Tokens |-> IF t \in R THEN [row[t] EXCEPT !.state = "revoked"] ELSE row[t]]

\* Slip: the successor is not told its family.
IssuedAlone(table, f) == [table EXCEPT ![Fresh].state = "live"]

Issued(table, f) == [table EXCEPT ![Fresh].state = "live", ![Fresh].family = f]

\* The access token lapses; much later the refresh token expires too.  Where nobody has a use
\* for the one or the other any more, its age makes no difference and stays.
Held(t) == (\E tab \in Tabs : access[tab] = t) \/ (\E c \in Tabs \X Lines : call[c].token = t)
Lapse(t) ==
    /\ row[t].age = "fresh"
    /\ row[t].state = "live" \/ Held(t)
    /\ row' = [row EXCEPT ![t].age = "lapsed"]
    /\ UNCHANGED <<cookie, access, request, call, mishaps, ended, spender>>
Expire(t) ==
    /\ mishaps < MaxMishaps
    /\ row[t].age = "lapsed" /\ row[t].state = "live"
    /\ row' = [row EXCEPT ![t].age = "expired"]
    /\ mishaps' = mishaps + 1
    /\ UNCHANGED <<cookie, access, request, call, ended, spender>>

-----------------------------------------------------------------------------
\* The handlers.
At(q, op, stage) == request[q].op = op /\ request[q].stage = stage

\* The handler goes on, or answers with the token it issued, if somebody still listens.
Goes(q, stage) == request' = [request EXCEPT ![q].stage = stage]
Ends(q, stage, t) ==
    request' = [request EXCEPT ![q] =
        IF q[3] THEN [op |-> @.op, cookie |-> None, stage |-> stage, token |-> t] ELSE NoRequest]

\* The address was free, or the insert found it taken.
Register(q) ==
    /\ At(q, "register", "sent")
    /\ Ends(q, "ok", None) \/ Ends(q, "refused", None)
    /\ UNCHANGED <<row, cookie, access, call, mishaps, ended, spender>>

\* An unknown user or a wrong password is refused; anybody else gets a family of their own.
LoginRefused(q) ==
    /\ At(q, "login", "sent")
    /\ Ends(q, "refused", None)
    /\ UNCHANGED <<row, cookie, access, call, mishaps, ended, spender>>
Login(q) ==
    /\ At(q, "login", "sent")
    /\ Unused # {}
    /\ row' = Issued(row, Fresh)
    /\ Ends(q, "ok", Fresh)
    /\ UNCHANGED <<cookie, access, call, mishaps, ended, spender>>

\* Slip: a revoked token is not looked for.
RefreshReadTrusting(q) ==
    LET t == request[q].cookie IN
    /\ At(q, "refresh", "sent")
    /\ IF t = None \/ row[t].age = "expired" THEN Ends(q, "refused", None) ELSE Goes(q, "rotating")
    /\ UNCHANGED <<row, cookie, access, call, mishaps, ended, spender>>

\* The presented token is looked up: missing, revoked, expired or good.
RefreshRead(q) ==
    LET t == request[q].cookie IN
    /\ At(q, "refresh", "sent")
    /\ IF t = None THEN Ends(q, "refused", None)
       ELSE IF row[t].state = "revoked" THEN Goes(q, "reused")
       ELSE IF row[t].age = "expired" THEN Ends(q, "refused", None)
       ELSE Goes(q, "rotating")
    /\ UNCHANGED <<row, cookie, access, call, mishaps, ended, spender>>

\* A token that comes back after it was spent ends its family.
RevokeReplayed(q) ==
    LET f == row[request[q].cookie].family IN
    /\ At(q, "refresh", "reused")
    /\ row' = Revoked(Live(f))
    /\ ended' = ended \cup {f}
    /\ Ends(q, "refused", None)
    /\ UNCHANGED <<cookie, access, call, mishaps, spender>>

\* Slip: the token is revoked, and the successor left to a second statement that fails.
RotateHalf(q) ==
    LET t == request[q].cookie IN
    /\ At(q, "refresh", "rotating")
    /\ Unused # {}
    /\ row' = Revoked({t})
    /\ spender' = [spender EXCEPT ![t] = q[1]]
    /\ Ends(q, "refused", None)
    /\ UNCHANGED <<cookie, access, call, mishaps, ended>>

\* One transaction revokes the token, by its id whatever became of it since the read, and
\* inserts its successor in the same family.
Rotate(q) ==
    LET t == request[q].cookie IN
    /\ At(q, "refresh", "rotating")
    /\ Unused # {}
    /\ row' = Issued(Revoked({t}), row[t].family)
    /\ spender' = [spender EXCEPT ![t] = q[1]]
    /\ Ends(q, "ok", Fresh)
    /\ UNCHANGED <<cookie, access, call, mishaps, ended>>

\* The bound on tokens: with none left an issue fails and writes nothing.
OutOfTokens(q) ==
    /\ Unused = {}
    /\ At(q, "login", "sent") \/ At(q, "refresh", "rotating")
    /\ Ends(q, "refused", None)
    /\ UNCHANGED <<row, cookie, access, call, mishaps, ended, spender>>

\* The family of the presented token is revoked; without a token there is nothing to do.
Logout(q) ==
    LET t == request[q].cookie IN
    /\ At(q, "logout", "sent")
    /\ IF t = None THEN UNCHANGED <<row, ended>>
       ELSE row' = Revoked(Live(row[t].family)) /\ ended' = ended \cup {row[t].family}
    /\ Ends(q, "ok", None)
    /\ UNCHANGED <<cookie, access, call, mishaps, spender>>

Handle(q) ==
    Register(q) \/ Login(q) \/ LoginRefused(q) \/ RefreshRead(q) \/ RevokeReplayed(q)
        \/ Rotate(q) \/ OutOfTokens(q) \/ Logout(q)

-----------------------------------------------------------------------------
\* A tab.
Refreshing(t) == request[Refresh(t)] # NoRequest

Send(q, op) ==
    request' = [request EXCEPT ![q] =
        [op |-> op, cookie |-> cookie, stage |-> "sent", token |-> None]]

\* The form is shown once the page has loaded, which waits for the session to be restored.
Submit(t) ==
    /\ request[Form(t)] = NoRequest
    /\ access[t] # None \/ ~Refreshing(t)
    /\ Send(Form(t), "register") \/ Send(Form(t), "login")
    /\ UNCHANGED <<row, cookie, access, call, mishaps, ended, spender>>

SignOut(t) ==
    /\ request[Form(t)] = NoRequest
    /\ access[t] # None
    /\ Send(Form(t), "logout")
    /\ UNCHANGED <<row, cookie, access, call, mishaps, ended, spender>>

\* A guarded page asks something of the API; only a tab with a session shows one.
Ask(t, l) ==
    /\ call[<<t, l>>] = NoCall
    /\ access[t] # None
    /\ call' = [call EXCEPT ![<<t, l>>] = [stage |-> "sent", token |-> access[t]]]
    /\ UNCHANGED <<row, cookie, access, request, mishaps, ended, spender>>

Accepted(t, l) == call[<<t, l>>].token # None /\ row[call[<<t, l>>].token].age = "fresh"

\* The call is answered, or refused a second time, or for good.
Answered(t, l) ==
    /\ \/ call[<<t, l>>].stage = "sent" /\ Accepted(t, l)
       \/ call[<<t, l>>].stage = "resent"
    /\ call' = [call EXCEPT ![<<t, l>>] = NoCall]
    /\ UNCHANGED <<row, cookie, access, request, mishaps, ended, spender>>

\* Slip: every call that is refused sends a refresh of its own.
UnauthorizedAlone(t, l) ==
    /\ call[<<t, l>>].stage = "sent"
    /\ ~Accepted(t, l)
    /\ \E q \in {Refresh(t), Unheard(Refresh(t))} :
          request[q] = NoRequest /\ Send(q, "refresh")
    /\ call' = [call EXCEPT ![<<t, l>>] = [stage |-> "waiting", token |-> None]]
    /\ UNCHANGED <<row, cookie, access, mishaps, ended, spender>>

\* A 401: the call waits for the refresh that is under way, or begins one.
Unauthorized(t, l) ==
    /\ call[<<t, l>>].stage = "sent"
    /\ ~Accepted(t, l)
    /\ \/ Refreshing(t) /\ UNCHANGED request
       \/ ~Refreshing(t) /\ Send(Refresh(t), "refresh")
    /\ call' = [call EXCEPT ![<<t, l>>] = [stage |-> "waiting", token |-> None]]
    /\ UNCHANGED <<row, cookie, access, mishaps, ended, spender>>

\* Slip: calls that wait are forgotten when the refresh fails.
WokenIfGood(t, token) ==
    call' = [c \in Tabs \X Lines |->
        IF c[1] # t \/ call[c].stage # "waiting" \/ token = None THEN call[c]
        ELSE [stage |-> "resent", token |-> token]]

\* A refresh that ended wakes the calls of its tab: to be sent again, or to fail.
Woken(t, token) ==
    call' = [c \in Tabs \X Lines |->
        IF c[1] # t \/ call[c].stage # "waiting" THEN call[c]
        ELSE IF token = None THEN NoCall ELSE [stage |-> "resent", token |-> token]]

\* Somebody waits for the answer.
Heard(q) == request[q].op # "idle" /\ q[3]

\* A registration that succeeded is followed by a login.
RegisterAnswered(q) ==
    /\ Heard(q)
    /\ At(q, "register", "ok")
    /\ Send(q, "login")
    /\ UNCHANGED <<row, cookie, access, call, mishaps, ended, spender>>

\* The cookie comes with the answer.  Logging out clears a cookie of another path, so the
\* browser keeps the one it has.
SignedIn(q) ==
    LET t == q[1] IN
    /\ Heard(q)
    /\ At(q, "login", "ok")
    /\ cookie' = request[q].token
    /\ access' = [access EXCEPT ![t] = request[q].token]
    /\ request' = [request EXCEPT ![q] = NoRequest]
    /\ UNCHANGED <<row, call, mishaps, ended, spender>>
SignInRefused(q) ==
    /\ Heard(q)
    /\ At(q, "register", "refused") \/ At(q, "login", "refused")
    /\ request' = [request EXCEPT ![q] = NoRequest]
    /\ UNCHANGED <<row, cookie, access, call, mishaps, ended, spender>>
SignedOut(q) ==
    LET t == q[1] IN
    /\ Heard(q)
    /\ At(q, "logout", "ok")
    /\ access' = [access EXCEPT ![t] = None]
    /\ request' = [request EXCEPT ![q] = NoRequest]
    /\ UNCHANGED <<row, cookie, call, mishaps, ended, spender>>
Refreshed(q) ==
    LET t == q[1] IN
    /\ Heard(q)
    /\ At(q, "refresh", "ok") \/ At(q, "refresh", "refused")
    /\ access' = [access EXCEPT ![t] = request[q].token]
    /\ cookie' = IF request[q].token = None THEN cookie ELSE request[q].token
    /\ Woken(t, request[q].token)
    /\ request' = [request EXCEPT ![q] = NoRequest]
    /\ UNCHANGED <<row, mishaps, ended, spender>>

Arrive(q) ==
    RegisterAnswered(q) \/ SignedIn(q) \/ SignInRefused(q) \/ SignedOut(q) \/ Refreshed(q)

\* What a tab makes of a request that fails: a refresh and a logout end the session there.
Failed(q) ==
    LET t == q[1] IN
    /\ access' = IF request[q].op \in {"refresh", "logout"} THEN [access EXCEPT ![t] = None] ELSE access
    /\ IF request[q].op = "refresh" THEN Woken(t, None) ELSE UNCHANGED call

\* Requests nobody listens to any more: what is still in the handler goes on, and the
\* answers go nowhere.
InHandler(q) == request[q].op # "idle" /\ request[q].stage \in {"sent", "reused", "rotating"}
Forgotten(Q) ==
    [q \in Requests |->
        IF q \in Q THEN NoRequest
        ELSE IF \E p \in Q : q = Unheard(p) /\ InHandler(p) THEN request[<<q[1], q[2], TRUE>>]
        ELSE request[q]]
MayForget(Q) == \A q \in Q : InHandler(q) => request[Unheard(q)] = NoRequest

LoseAnswer(q) ==
    /\ mishaps < MaxMishaps
    /\ Heard(q)
    /\ MayForget({q})
    /\ Failed(q)
    /\ request' = Forgotten({q})
    /\ mishaps' = mishaps + 1
    /\ UNCHANGED <<row, cookie, ended, spender>>

\* The handler dies between two statements, as often as it likes.
Die(q) ==
    /\ Heard(q) /\ InHandler(q)
    /\ Failed(q)
    /\ request' = [request EXCEPT ![q] = NoRequest]
    /\ UNCHANGED <<row, cookie, mishaps, ended, spender>>

\* The page is loaded anew: what was in memory is gone, answers under way go nowhere, and the
\* session is restored with the cookie there is.
Reload(t) ==
    /\ mishaps < MaxMishaps
    /\ MayForget({Form(t), Refresh(t)})
    /\ mishaps' = mishaps + 1
    /\ access' = [access EXCEPT ![t] = None]
    /\ call' = [c \in Tabs \X Lines |-> IF c[1] = t THEN NoCall ELSE call[c]]
    /\ request' = [Forgotten({Form(t), Refresh(t)}) EXCEPT ![Refresh(t)] =
          [op |-> "refresh", cookie |-> cookie, stage |-> "sent", token |-> None]]
    /\ UNCHANGED <<row, cookie, ended, spender>>

-----------------------------------------------------------------------------
Next ==
    \/ \E t \in Tokens : Lapse(t) \/ Expire(t)
    \/ \E q \in Requests : Handle(q) \/ Arrive(q) \/ LoseAnswer(q) \/ Die(q)
    \/ \E t \in Tabs : Submit(t) \/ SignOut(t) \/ Reload(t)
    \/ \E t \in Tabs, l \in Lines : Ask(t, l) \/ Answered(t, l) \/ Unauthorized(t, l)

Spec == Init /\ [][Next]_vars

\* Handlers go on and answers arrive, where somebody listens.  Nothing is assumed of users,
\* faults or clocks, or of a handler nobody listens to.
Fairness ==
    /\ \A t \in Tabs : \A q \in {Form(t), Refresh(t)} : WF_vars(Handle(q) \/ Arrive(q))
    /\ \A t \in Tabs, l \in Lines : WF_vars(Answered(t, l) \/ Unauthorized(t, l))

FairSpec == Spec /\ Fairness
-----------------------------------------------------------------------------
(* Properties.                                                             *)

\* "A crash can never leave two live tokens (or none) for one lineage" (auth.service.ts:162).
\* None: a family that nobody ended has a token that is not revoked, whatever dies, is lost or
\* races; it may have expired, and after a lost answer it may be one that nobody holds.
NoLineageIsLost ==
    \A t \in Tokens : row[t].state # "unused" /\ row[t].family \notin ended => Live(row[t].family) # {}

\* As long as no answer is lost, no page loaded anew and no session expires, the browser can go
\* on, however many handlers die and whatever tabs race: a refresh accepts the token of its
\* cookie, or the token of an answer on its way that continues the same session.
Good(t) == row[t].state = "live" /\ row[t].age # "expired"
OnItsWay(f) ==
    \E q \in Requests : /\ Heard(q) /\ request[q].token # None
                        /\ Good(request[q].token) /\ row[request[q].token].family = f
TheBrowserGoesOn ==
    mishaps = 0 /\ cookie # None /\ row[cookie].family \notin ended =>
        Good(cookie) \/ OnItsWay(row[cookie].family)

LineageSurvives == NoLineageIsLost /\ TheBrowserGoesOn

\* A family without a live token, and without a rotation under way on one of its tokens, never
\* has a live token again: neither a replay nor a late answer brings a session back.
Rotating(f) ==
    \E q \in Requests : At(q, "refresh", "rotating") /\ row[request[q].cookie].family = f
Over(f) == (\E t \in Tokens : row[t].family = f) /\ Live(f) = {} /\ ~Rotating(f)

EndedSessionsStayEnded == [][\A f \in Tokens : Over(f) => Over(f)']_vars

\* The refresh that all calls of a tab share (client.ts:27-34): a tab never presents a token
\* it had rotated itself, which would sign it out as a thief, unless an answer was lost or
\* the page loaded anew; handlers may die.
NoTabReplaysItsOwn ==
    \A q \in Requests :
        At(q, "refresh", "reused") /\ spender[request[q].cookie] = q[1] => mishaps > 0

\* Every call of a page ends: it is answered, or fails, but does not wait for ever on a refresh
\* that another call began.  One line stands for all: nothing tells them apart.
CallsEnd ==
    LET l == CHOOSE l \in Lines : TRUE IN
    \A t \in Tabs : call[<<t, l>>] # NoCall ~> call[<<t, l>>] = NoCall

-----------------------------------------------------------------------------
(* A statement of the code that does not hold.                             *)

\* auth.service.ts:180: logout "revokes the presented token's entire family, ending that login
\* session (all rotated descendants)".  A rotation that read its token before and commits after
\* the logout leaves a live successor, and its answer signs the tab in again.
LogoutEndsTheSession == \A f \in ended : Live(f) = {}
=============================================================================
