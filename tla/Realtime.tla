------------------------------ MODULE Realtime ------------------------------
(***************************************************************************)
(* Live updates of one listing: an API process numbers each committed      *)
(* change in Redis and emits it to the listing's room; a web page that     *)
(* watches the listing re-reads whenever an update, or a reconnect, tells  *)
(* it that its copy may be stale.  Events are hints and may be lost; what  *)
(* must not be lost is a re-read the page was told to make.                *)
(***************************************************************************)
EXTENDS Integers, Sequences

CONSTANTS
    MaxChanges,  \* bound: changes of the listing's reservations
    MaxDrops,    \* bound: times the connection drops
    MaxOutages,  \* bound: times Redis becomes unreachable
    MaxMoves,    \* bound: times the page opens, closes or watches another set
    Nothing      \* no data, no number

ASSUME BoundsAssumption == {MaxChanges, MaxDrops, MaxOutages, MaxMoves} \subseteq Nat

Change == 1 .. MaxChanges
Version == 0 .. MaxChanges

Q == INSTANCE Queries

VARIABLES
    version,    \* changes committed so far: what a read of the API sees
    publisher,  \* how far the announcement of each change is
    seq,        \* the number it got, until it is sent
    counter,    \* listing-seq in Redis
    strays,     \* INCR commands whose caller gave up; they may still run
    redisUp,
    connected,  \* what the page's socket believes of its transport
    alive,      \* what is so: packets pass
    badge,      \* the ConnectionState the interface is told
    inRoom,     \* what is emitted to the listing's room gets to the page
    outbox,     \* watch and unwatch messages on their way to the server, in order
    events,     \* emitted events on their way to the page
    mounted,    \* a page that watches the listing is open
    lastSeq,    \* the last number its effect has seen
    query,      \* its copy of the listing's reservations
    due,        \* history: the last change the page was told of, or had to know of
    absorbed,   \* history: the re-read it was last told to make joined its first load
    drops, outages, moves

serverVars == <<version, publisher, seq, counter, strays, redisUp, outages>>
linkVars == <<connected, alive, badge, inRoom, outbox, events, drops>>
pageVars == <<mounted, lastSeq, query, due, absorbed, moves>>
vars == <<serverVars, linkVars, pageVars>>

Number == 1 .. MaxChanges
Event == [change : Change, seq : Number]
Publisher == {"none", "asking", "numbered", "ended"}

TypeOK ==
    /\ version \in Version
    /\ publisher \in [Change -> Publisher] /\ seq \in [Change -> 0 .. MaxChanges]
    /\ counter \in 0 .. MaxChanges /\ strays \in 0 .. MaxChanges /\ redisUp \in BOOLEAN
    /\ connected \in BOOLEAN /\ alive \in BOOLEAN /\ inRoom \in BOOLEAN
    /\ badge \in {"connecting", "connected", "reconnecting", "offline"}
    /\ outbox \in Seq({"watch", "unwatch"})
    /\ events \subseteq Event
    /\ mounted \in BOOLEAN /\ lastSeq \in Number \cup {Nothing}
    /\ query \in Q!Query(Version)
    /\ due \in Version /\ absorbed \in BOOLEAN
    /\ drops \in 0 .. MaxDrops /\ outages \in 0 .. MaxOutages /\ moves \in 0 .. MaxMoves

Init ==
    /\ version = 0 /\ publisher = [v \in Change |-> "none"] /\ seq = [v \in Change |-> 0]
    /\ counter = 0 /\ strays = 0 /\ redisUp = TRUE
    /\ connected = FALSE /\ alive = FALSE /\ badge = "connecting" /\ inRoom = FALSE
    /\ outbox = <<>> /\ events = {}
    /\ mounted = FALSE /\ lastSeq = Nothing /\ query = Q!Empty
    /\ due = 0 /\ absorbed = FALSE
    /\ drops = 0 /\ outages = 0 /\ moves = 0

-----------------------------------------------------------------------------
\* The API.

\* A hold, cancel, settlement or sweep commits, and its announcement asks for a number.
Commit ==
    /\ version < MaxChanges
    /\ version' = version + 1
    /\ publisher' = [publisher EXCEPT ![version + 1] = "asking"]
    /\ UNCHANGED <<seq, counter, strays, redisUp, outages, linkVars, pageVars>>

Numbered(v) ==
    /\ publisher[v] = "asking"
    /\ redisUp
    /\ counter' = counter + 1
    /\ seq' = [seq EXCEPT ![v] = counter + 1]
    /\ publisher' = [publisher EXCEPT ![v] = "numbered"]
    /\ UNCHANGED <<version, strays, redisUp, outages, linkVars, pageVars>>

\* Slip: the INCR is awaited without a bound; it fails only if Redis answers.
GiveUpAnswered(v) ==
    /\ publisher[v] = "asking"
    /\ redisUp
    /\ publisher' = [publisher EXCEPT ![v] = "ended"]
    /\ UNCHANGED <<version, seq, counter, strays, redisUp, outages, linkVars, pageVars>>

\* The bound runs out, or the command fails: logged and swallowed.  A command that was only
\* too late is still in the client's queue.
GiveUp(v) ==
    /\ publisher[v] = "asking"
    /\ publisher' = [publisher EXCEPT ![v] = "ended"]
    /\ strays' \in {strays, strays + 1}
    /\ UNCHANGED <<version, seq, counter, redisUp, outages, linkVars, pageVars>>

StrayRuns ==
    /\ redisUp
    /\ strays > 0
    /\ strays' = strays - 1
    /\ counter' = counter + 1
    /\ UNCHANGED <<version, publisher, seq, redisUp, outages, linkVars, pageVars>>

\* Between instances an event travels through Redis, at most once.
Fanned(e) ==
    \/ inRoom /\ events' = events \cup {e}
    \/ ~(inRoom /\ redisUp) /\ UNCHANGED events

\* To whoever is in the room at that moment.
Emit(v) ==
    /\ publisher[v] = "numbered"
    /\ publisher' = [publisher EXCEPT ![v] = "ended"]
    /\ Fanned([change |-> v, seq |-> seq[v]])
    /\ seq' = [seq EXCEPT ![v] = 0]
    /\ UNCHANGED <<version, counter, strays, redisUp, outages,
                   connected, alive, badge, inRoom, outbox, drops, pageVars>>

RedisFails ==
    /\ redisUp
    /\ outages < MaxOutages
    /\ redisUp' = FALSE /\ outages' = outages + 1
    /\ UNCHANGED <<version, publisher, seq, counter, strays, linkVars, pageVars>>

RedisRecovers ==
    /\ ~redisUp
    /\ redisUp' = TRUE
    /\ UNCHANGED <<version, publisher, seq, counter, strays, outages, linkVars, pageVars>>

\* watch and unwatch: the socket joins or leaves the room.
Serve ==
    /\ alive
    /\ outbox # <<>>
    /\ inRoom' = (Head(outbox) = "watch")
    /\ outbox' = Tail(outbox)
    /\ UNCHANGED <<serverVars, connected, alive, badge, events, drops, pageVars>>

-----------------------------------------------------------------------------
\* The page's copy.

\* The caller re-reads because of change v.
Reread(v) ==
    /\ query' = Q!Invalidate(query)
    /\ absorbed' = Q!Absorbs(query)
    /\ due' = IF v > due THEN v ELSE due

FetchReads ==
    /\ query.fetch = "asked"
    /\ query' = Q!Read(query, version)
    /\ UNCHANGED <<serverVars, linkVars, mounted, lastSeq, due, absorbed, moves>>

FetchAnswered ==
    /\ query.fetch = "read"
    /\ query' = Q!Answer(query)
    /\ UNCHANGED <<serverVars, linkVars, mounted, lastSeq, due, absorbed, moves>>

\* The last of three tries fails; the old data stays on the screen.
FetchFails ==
    /\ Q!Fetching(query)
    /\ query' = Q!Fail(query)
    /\ UNCHANGED <<serverVars, linkVars, mounted, lastSeq, due, absorbed, moves>>

\* The host's board also re-reads by itself while a booking on it is unsettled, which its
\* data decide.
BoardPolls ==
    /\ mounted
    /\ Q!Loaded(query) /\ ~Q!Fetching(query)
    /\ query' = Q!Poll(query)
    /\ UNCHANGED <<serverVars, linkVars, mounted, lastSeq, due, absorbed, moves>>

-----------------------------------------------------------------------------
\* useListingUpdates.

Join == IF connected THEN <<"watch">> ELSE <<>>

\* The page opens: data cached less than staleTime ago is shown as it is.
Mount ==
    /\ ~mounted
    /\ moves < MaxMoves /\ moves' = moves + 1
    /\ mounted' = TRUE
    /\ outbox' = outbox \o Join
    /\ query' \in Q!Mounts(query)
    /\ UNCHANGED <<serverVars, connected, alive, badge, inRoom, events, drops, lastSeq, due, absorbed>>

\* Slip: the effect has no cleanup.
UnmountSilently ==
    /\ mounted
    /\ mounted' = FALSE
    /\ lastSeq' = Nothing /\ due' = 0 /\ absorbed' = FALSE
    /\ UNCHANGED <<serverVars, linkVars, query, moves>>

\* Its cleanup leaves the room; without a connection the message waits in the socket's buffer.
Unmount ==
    /\ mounted
    /\ mounted' = FALSE
    /\ outbox' = Append(outbox, "unwatch")
    /\ lastSeq' = Nothing /\ due' = 0 /\ absorbed' = FALSE
    /\ UNCHANGED <<serverVars, connected, alive, badge, inRoom, events, drops, query, moves>>

\* The set of watched listings changed, as when the host's listings are loaded: the effect is
\* torn down and run again.
Rewatch ==
    /\ mounted
    /\ moves < MaxMoves /\ moves' = moves + 1
    /\ outbox' = Append(outbox, "unwatch") \o Join
    /\ lastSeq' = Nothing
    /\ UNCHANGED <<serverVars, connected, alive, badge, inRoom, events, drops,
                   mounted, query, due, absorbed>>

\* A number not above the last one adds nothing: the state it describes was re-read already.
OnChanged(e) ==
    /\ events' = events \ {e}
    /\ IF mounted /\ (lastSeq # Nothing => e.seq > lastSeq)
         THEN /\ lastSeq' = e.seq
              /\ Reread(e.change)
         ELSE /\ due' = IF mounted /\ e.change > due THEN e.change ELSE due
              /\ UNCHANGED <<lastSeq, query, absorbed>>
    /\ UNCHANGED <<serverVars, connected, alive, badge, inRoom, outbox, drops, mounted, moves>>

\* Slip: a reconnect rejoins but does not re-read.
OnConnectJoinsOnly ==
    /\ outbox' = IF mounted THEN Append(outbox, "watch") ELSE outbox
    /\ due' = IF mounted THEN version ELSE due
    /\ UNCHANGED <<query, absorbed>>

\* What was buffered goes first, then the handlers rejoin and re-read: whatever was committed
\* while the connection was down.
OnConnect ==
    IF mounted
      THEN /\ outbox' = Append(outbox, "watch")
           /\ Reread(version)
      ELSE UNCHANGED <<outbox, query, due, absorbed>>

\* The socket is made for the first page that watches a listing.
SocketExists == moves > 0

Connect ==
    /\ SocketExists
    /\ ~connected
    /\ connected' = TRUE /\ alive' = TRUE
    /\ badge' = "connected"
    /\ OnConnect
    /\ UNCHANGED <<serverVars, inRoom, events, drops, mounted, lastSeq, moves>>

\* The connection breaks: what is on its way is lost, and nothing emitted to the room arrives
\* any more.  Neither end is told.
Break ==
    /\ alive
    /\ drops < MaxDrops /\ drops' = drops + 1
    /\ alive' = FALSE
    /\ inRoom' = FALSE /\ events' = {}
    /\ UNCHANGED <<serverVars, connected, badge, outbox, pageVars>>

\* The socket notices, at once or when a heartbeat is missed, and what it sent is lost.
Disconnect ==
    /\ connected /\ ~alive
    /\ connected' = FALSE
    /\ badge' = "reconnecting"
    /\ outbox' = <<>>
    /\ UNCHANGED <<serverVars, alive, inRoom, events, drops, pageVars>>

\* socket.io keeps trying; each failure is shown, and then the next attempt.
ConnectFails ==
    /\ SocketExists
    /\ ~connected
    /\ badge' \in {"reconnecting", "offline"}
    /\ UNCHANGED <<serverVars, connected, alive, inRoom, outbox, events, drops, pageVars>>

-----------------------------------------------------------------------------
Fetch == FetchReads \/ FetchAnswered

Next ==
    \/ Commit \/ StrayRuns \/ RedisFails \/ RedisRecovers
    \/ \E v \in Change : Numbered(v) \/ GiveUp(v) \/ Emit(v)
    \/ Serve
    \/ Fetch \/ FetchFails \/ BoardPolls
    \/ Mount \/ Unmount \/ Rewatch
    \/ \E e \in events : OnChanged(e)
    \/ Connect \/ Break \/ Disconnect \/ ConnectFails

\* Timers fire: an announcement that has a number is emitted, and one that waits is given up.
Fairness ==
    /\ \A v \in Change : WF_vars(GiveUp(v)) /\ WF_vars(Emit(v))
    /\ WF_vars(Fetch)

Spec == Init /\ [][Next]_vars /\ Fairness

-----------------------------------------------------------------------------
(* Properties.                                                             *)

\* What the page was told of, or what was committed before it reconnected, is on the screen or
\* in a read that will see it: no answer asked for earlier overwrites it, and an event ignored
\* for its number describes a change that was re-read already (use-listing-updates.ts:77-79).
\* Not if that read failed, or joined the load of the first data.
OwedIsComing ==
    mounted /\ ~absorbed /\ ~query.failed => Q!WillShow(query, due .. version)

\* The interface says so once the socket knows that the transport is down.
ShowsBadge == badge # "connected"

\* A page without a badge is live, except for the time a heartbeat takes to be missed: once its
\* messages are served it is in the room, and a page that was closed is not, however opening,
\* closing and reconnecting interleave (ConnectionStatus.tsx:17-20, use-listing-updates.ts:106-107).
NoBadgeMeansLive ==
    ~ShowsBadge /\ alive /\ outbox = <<>> => (inRoom <=> mounted)

\* Nobody waits for ever on an update: an announcement never keeps the committed booking behind
\* it waiting, even if Redis never answers again (realtime.gateway.ts:105-109), and a page that
\* stays open ends up showing what it was told of, unless a read fails.
UpdatesEnd ==
    /\ \A v \in Change : publisher[v] = "asking" ~> publisher[v] = "ended"
    /\ mounted /\ ~absorbed /\ Q!Loaded(query) /\ query.data \notin due .. version
          ~> ~mounted \/ absorbed \/ query.failed \/ query.data \in due .. version
=============================================================================
