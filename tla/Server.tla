------------------------------- MODULE Server -------------------------------
(***************************************************************************)
(* mu_server_poll (src/core/server.c) with several connections: accepting,  *)
(* the connection loop with its idle timeouts, Hello, secure channels       *)
(* (src/services/secure_channel.c), sessions (src/services/session.c), the  *)
(* dispatch checks, and the subscription engine behind them (Subscription). *)
(*                                                                         *)
(* One poll is: accept a connection, or else visit every connection slot in *)
(* order; then one engine tick.  turn says where the poll is.  A message is *)
(* its effect on the state; a chunk that is refused aborts the connection   *)
(* (Dropped).  A client names a session by its id, which stands for the     *)
(* authentication token as well (Session has both).                         *)
(***************************************************************************)
EXTENDS Integers, FiniteSets

CONSTANTS
    NConns,         \* MU_MAX_CONNECTIONS
    NSessions,      \* MU_MAX_SESSIONS
    Lifetime,       \* revised_lifetime of an open channel, in ticks
    ConnectTimeout, \* MU_CONNECT_TIMEOUT_MS, in ticks
    Policies        \* what clients ask for: "none", or "secure" for a policy that needs keys

\* The constants of Subscription; Sessions are the ids the generator can draw.
CONSTANTS
    Services, Sessions, NSubs, NItems, NRequests, MaxLinks, EventDepth, IdMax, SeqMax,
    QueueSizes, Intervals, Period, KeepAlives, KeepAliveMax, NotificationCaps, Enabled, Modes,
    Attributes, FitLimit, RetainLimit, MaxElapsed

Conns == 1 .. NConns

SessionSlots == 1 .. NSessions

ASSUME ServerAssumption ==
    /\ NConns \in Nat \ {0} /\ NSessions \in Nat /\ NSubs \in Nat \ {0}
    /\ Lifetime \in Nat /\ ConnectTimeout \in Nat /\ 0 \notin Sessions
    /\ Policies \subseteq {"none", "secure"}

VARIABLES
    conns,      \* conns[]: handle is client_handle # NULL, hello is tcp_conn's state
    sessions,   \* sessions[]
    turn,       \* 0 accept; c the visit of connection c; NConns + 1 the tick comes next
    subs, items, parked, nextSubId, nextItemId, activeCount, cursor, wire

vars == <<conns, sessions, turn, subs, items, parked, nextSubId, nextItemId, activeCount,
          cursor, wire>>

\* mu_secure_channel_init
ClosedChannel == [is_open |-> FALSE, id |-> 0, policy |-> "none", mode |-> "none", keys |-> FALSE]

FreeConn == [handle |-> FALSE, hello |-> FALSE, channel |-> ClosedChannel, idle |-> 0]

ClosedSession == [state |-> "closed", id |-> 0, channel |-> 0]

-----------------------------------------------------------------------------
(* How publish_due finds the connection of a session. *)

Open(k) == sessions[k].state # "closed"

\* The channel ids a session with this id is bound to: at most one.
ChannelsOf(id) == {sessions[k].channel : k \in {j \in SessionSlots : Open(j) /\ sessions[j].id = id}}

Matches(id, c) == conns[c].handle /\ conns[c].channel.id \in ChannelsOf(id)

\* The first connection slot whose channel has the session's channel id.
Routed(id, c) == Matches(id, c) /\ \A d \in Conns : d < c => ~Matches(id, d)

\* mu_server_emit_message can wrap a message.
CanSend(channel) == channel.mode = "none" \/ channel.keys

LinkOf(id) ==
    IF \A c \in Conns : ~Routed(id, c) THEN "none"
    ELSE IF \E c \in Conns : Routed(id, c) /\ CanSend(conns[c].channel) THEN "open"
    ELSE "mute"

Link == [id \in Sessions |-> LinkOf(id)]

Engine == INSTANCE Subscription WITH
    link <- Link, Origins <- Conns, Links <- {"none", "open", "mute"}

\* The engine keeps its state and sends nothing.
EngineRests ==
    UNCHANGED <<subs, items, parked, nextSubId, nextItemId, activeCount, cursor>> /\ wire' = Engine!Silence

Init ==
    /\ conns = [c \in Conns |-> FreeConn]
    /\ sessions = [k \in SessionSlots |-> ClosedSession]
    /\ turn = 0
    /\ subs = [s \in Engine!SubSlots |-> Engine!FreeSub]
    /\ items = [i \in Engine!ItemSlots |-> Engine!FreeItem]
    /\ parked = [r \in Engine!RequestSlots |-> Engine!FreeRequest]
    /\ nextSubId = 1 /\ nextItemId = 1 /\ activeCount = 0 /\ cursor = 0
    /\ wire = Engine!Silence

-----------------------------------------------------------------------------
(* Accepting.  A poll that accepts or refuses a connection visits none. *)

\* Mutant: the slot keeps the channel of its previous client.
AcceptKeepsChannel(c) ==
    /\ turn = 0 /\ cursor = 0
    /\ ~conns[c].handle /\ \A d \in Conns : d < c => conns[d].handle
    /\ conns' = [conns EXCEPT ![c].handle = TRUE, ![c].hello = FALSE, ![c].idle = 0]
    /\ turn' = NConns + 1
    /\ UNCHANGED sessions /\ EngineRests

Accept(c) ==
    /\ turn = 0 /\ cursor = 0
    /\ ~conns[c].handle /\ \A d \in Conns : d < c => conns[d].handle
    /\ conns' = [conns EXCEPT ![c] = [FreeConn EXCEPT !.handle = TRUE]]
    /\ turn' = NConns + 1
    /\ UNCHANGED sessions /\ EngineRests

Refuse ==
    /\ turn = 0 /\ cursor = 0
    /\ \A c \in Conns : conns[c].handle
    /\ turn' = NConns + 1
    /\ UNCHANGED <<conns, sessions>> /\ EngineRests

NothingToAccept ==
    /\ turn = 0 /\ cursor = 0
    /\ turn' = 1
    /\ UNCHANGED <<conns, sessions>> /\ EngineRests

-----------------------------------------------------------------------------
(* The visit of a connection: it times out, fails, or its messages are       *)
(* handled one after the other.                                             *)

\* Mutant: only open channels time out.
TimedOutOpen(c) == conns[c].channel.is_open /\ conns[c].idle > Lifetime

TimedOut(c) ==
    conns[c].idle > IF conns[c].channel.is_open THEN Lifetime ELSE ConnectTimeout

\* The channel and the session of the connection stay as they are.
Closed(c) == [conns EXCEPT ![c].handle = FALSE]

Visits(c) == turn = c /\ conns[c].handle

IdleTimeout(c) ==
    /\ Visits(c) /\ TimedOut(c)
    /\ conns' = Closed(c)
    /\ turn' = turn + 1
    /\ UNCHANGED sessions /\ EngineRests

\* A read error, a bad size, a failed Hello or write, a refused chunk.
Dropped(c) ==
    /\ Visits(c) /\ ~TimedOut(c)
    /\ conns' = Closed(c)
    /\ turn' = turn + 1
    /\ UNCHANGED sessions /\ EngineRests

VisitEnds(c) ==
    /\ turn = c /\ (conns[c].handle => ~TimedOut(c))
    /\ turn' = turn + 1
    /\ UNCHANGED <<conns, sessions>> /\ EngineRests

\* Reading a message ends the connection's idleness; it is handled in established state.
Receives(c) == Visits(c) /\ ~TimedOut(c) /\ UNCHANGED turn

Active(c, channel) == [conns EXCEPT ![c].idle = 0, ![c].channel = channel]

\* Bytes that complete no message, an ignored chunk, a request whose answer changes nothing.
Heard(c) ==
    /\ Receives(c)
    /\ conns' = Active(c, conns[c].channel)
    /\ UNCHANGED sessions /\ EngineRests

Hello(c) ==
    /\ Receives(c) /\ ~conns[c].hello
    /\ conns' = [conns EXCEPT ![c].hello = TRUE, ![c].idle = 0]
    /\ UNCHANGED sessions /\ EngineRests

\* Mutant: renewing assigns the next id.
OpenedNextId(channel, policy) ==
    [channel EXCEPT !.policy = policy, !.is_open = TRUE, !.id = channel.id + 1, !.mode = policy]

\* mu_secure_channel_open; renewing keeps the id.
Opened(channel, policy) ==
    [channel EXCEPT !.policy = policy, !.is_open = TRUE, !.mode = policy,
                    !.id = IF channel.is_open THEN channel.id ELSE 1]

\* The policy of the chunk is recorded before anything else is checked.  A request may be
\* rejected before the channel opens or fail after it did (trust list, nonce, keys).
OpenSecureChannel(c, policy, outcome) ==
    LET old  == conns[c].channel
        open == Opened(old, policy)
    IN
    /\ Receives(c) /\ conns[c].hello
    /\ conns' = Active(c, CASE outcome = "rejected" -> [old EXCEPT !.policy = policy]
                           [] outcome = "failed" -> open
                           [] outcome = "good" -> [open EXCEPT !.keys = old.keys \/ policy = "secure"])
    /\ UNCHANGED sessions /\ EngineRests

\* mu_secure_channel_close fails on a channel that is not open; the connection ends anyway.
CloseSecureChannel(c) ==
    /\ Visits(c) /\ ~TimedOut(c) /\ conns[c].hello
    /\ conns' = [conns EXCEPT ![c].handle = FALSE, ![c].channel =
                    IF conns[c].channel.is_open THEN ClosedChannel ELSE conns[c].channel]
    /\ turn' = turn + 1
    /\ UNCHANGED sessions /\ EngineRests

\* handle_data_chunk_secure can unwrap a MSG chunk.
Unwraps(channel) == channel.policy = "none" \/ channel.keys

\* A MSG chunk is unwrapped and mu_service_dispatch runs a handler that needs no session.
Dispatches(c) ==
    /\ Receives(c) /\ conns[c].hello
    /\ Unwraps(conns[c].channel)
    /\ conns[c].channel.is_open
    /\ conns' = Active(c, conns[c].channel)

\* Session shows that the generated id is one that no open session has.
CreateSession(c, k, id) ==
    /\ Dispatches(c)
    /\ ~Open(k) /\ \A j \in SessionSlots : j < k => Open(j)
    /\ \A j \in SessionSlots : Open(j) => sessions[j].id # id
    /\ sessions' = [sessions EXCEPT ![k] =
          [state |-> "created", id |-> id, channel |-> conns[c].channel.id]]
    /\ EngineRests

BoundTo(k, c) == Open(k) /\ sessions[k].channel = conns[c].channel.id

ActivateSession(c, k) ==
    /\ Dispatches(c) /\ BoundTo(k, c)
    /\ sessions' = [sessions EXCEPT ![k].state = "activated"]
    /\ EngineRests

\* ... of a service that needs one.
InSession(c, k) == Dispatches(c) /\ BoundTo(k, c) /\ sessions[k].state = "activated"

\* The loop of handle_close_session, for the session id it reads.
DeleteSubscriptionsOf(id) ==
    LET gone == {s \in Engine!SubSlots : Engine!Owns(id, s)}
        lost == {i \in Engine!ItemSlots : \E s \in gone : Engine!InSub(items, s, i)}
    IN  /\ subs' = [s \in Engine!SubSlots |-> IF s \in gone THEN Engine!FreeSub ELSE subs[s]]
        /\ items' = [i \in Engine!ItemSlots |-> IF i \in lost THEN Engine!FreeItem ELSE items[i]]
        /\ activeCount' = activeCount - Cardinality(lost)
        /\ UNCHANGED <<parked, nextSubId, nextItemId, cursor>> /\ wire' = Engine!Silence

\* mu_session_close has reset the session when its id is read for the loop.
CloseSession(c, k) ==
    /\ InSession(c, k)
    /\ sessions' = [sessions EXCEPT ![k] = ClosedSession]
    /\ DeleteSubscriptionsOf(sessions'[k].id)

\* Publish parks the request id of its connection.
PublishService(c, id) ==
    /\ "Publish" \in Services
    /\ \E acks \in Engine!AckSets : Engine!Publish(id, c, acks) \/ Engine!PublishRefused(id, acks)

SubscriptionService(c, k) ==
    /\ InSession(c, k)
    /\ \/ Engine!SubscriptionService(sessions[k].id)
       \/ \E s \in Engine!SubSlots : Engine!ItemService(sessions[k].id, s)
       \/ PublishService(c, sessions[k].id)
    /\ Engine!BetweenTicks
    /\ UNCHANGED sessions

Message(c) ==
    \/ Heard(c) \/ Hello(c)
    \/ \E policy \in Policies, outcome \in {"rejected", "failed", "good"} :
          OpenSecureChannel(c, policy, outcome)
    \/ CloseSecureChannel(c)
    \/ \E k \in SessionSlots :
          \/ \E id \in Sessions : CreateSession(c, k, id)
          \/ ActivateSession(c, k) \/ CloseSession(c, k) \/ SubscriptionService(c, k)

-----------------------------------------------------------------------------
(* The engine's tick ends the poll. *)

\* Idleness past every limit is all the same.
IdleAfter(idle, d) ==
    LET longest == IF Lifetime > ConnectTimeout THEN Lifetime ELSE ConnectTimeout
    IN  IF idle + d > longest THEN longest + 1 ELSE idle + d

TickStarts ==
    /\ turn = NConns + 1
    /\ \E d \in 1 .. MaxElapsed, outcome \in [Engine!ItemSlots -> Engine!Outcomes] :
          /\ Engine!Poll(d, outcome)
          /\ conns' = [c \in Conns |->
                IF conns[c].handle THEN [conns[c] EXCEPT !.idle = IdleAfter(conns[c].idle, d)]
                ELSE conns[c]]
    /\ wire' = Engine!Silence
    /\ turn' = 0
    /\ UNCHANGED sessions

\* A failed write drops the connection the response was routed to.
Publishes ==
    /\ Engine!PublishDue
    /\ \/ UNCHANGED conns
       \/ /\ wire'.kind # "none"
          /\ \E c \in Conns : Routed(wire'.session, c) /\ conns' = Closed(c)
    /\ UNCHANGED <<sessions, turn>>

Tick == TickStarts \/ Publishes

\* The application raises an event between two polls.
TriggerEvent ==
    /\ "TriggerEvent" \in Services
    /\ turn = 0 /\ Engine!TriggerEvent /\ Engine!BetweenTicks
    /\ UNCHANGED <<conns, sessions, turn>>

Loop == NothingToAccept \/ (\E c \in Conns : IdleTimeout(c) \/ VisitEnds(c)) \/ Tick

Next ==
    \/ Loop
    \/ Refuse
    \/ \E c \in Conns : Accept(c) \/ Dropped(c) \/ Message(c)
    \/ TriggerEvent

Spec == Init /\ [][Next]_vars

\* The application polls for ever; a connection is not waiting to be accepted every time.
FairSpec == Spec /\ WF_vars(Loop) /\ SF_vars(NothingToAccept)

-----------------------------------------------------------------------------
(* Properties. *)

\* Connections, sessions and the engine hold values of their types.
TypeOK ==
    /\ conns \in [Conns -> [handle : BOOLEAN, hello : BOOLEAN, idle : Nat,
                            channel : [is_open : BOOLEAN, id : {0, 1}, policy : {"none", "secure"},
                                       mode : {"none", "secure"}, keys : BOOLEAN]]]
    /\ sessions \in [SessionSlots -> {ClosedSession} \cup
                       [state : {"created", "activated"}, id : Sessions, channel : {1}]]
    /\ turn \in 0 .. NConns + 1
    /\ Engine!TypeOK

\* A Publish response goes out on an established connection with an open channel only:
\* never on a slot whose new client has not said Hello or opened its channel, whatever the
\* previous client of the slot left behind (mu_server_poll reuses slots, publish_due
\* routes by channel id).
EmitsOnOpenChannel ==
    [][wire'.kind # "none" =>
          \E c \in Conns : /\ Routed(wire'.session, c)
                           /\ conns[c].hello /\ conns[c].channel.is_open]_vars

\* A connection that stays silent is dropped and its slot can be reused: again and again
\* each slot is free or has just been heard from.
IdleConnectionDropped == \A c \in Conns : []<>(~conns[c].handle \/ conns[c].idle = 0)

\* "CloseSession frees the slot and deletes the session's subscriptions"
\* (docs/architecture.md): every subscription belongs to an open session.
SubscriptionsHaveSession ==
    \A s \in Engine!SubSlots : subs[s].in_use =>
        \E k \in SessionSlots : Open(k) /\ sessions[k].id = subs[s].session

\* A parked request is "routed back to the owning session/connection" (subscription.h):
\* while the connection a request came from can carry the answer, no other one gets it.
RoutedToOwner ==
    [][wire'.kind # "none" /\ Matches(wire'.session, wire'.origin)
         => Routed(wire'.session, wire'.origin)]_vars

\* "The library uses get_tick_ms to enforce session timeouts" (docs/integration-guide.md):
\* a session that nobody has a connection for does not stay open for ever.
SessionsTimeOut ==
    \A k \in SessionSlots : []<>(~Open(k) \/ \E c \in Conns : conns[c].handle)
=============================================================================
