# A TLA+ model of muc-opcua

muc-opcua is an OPC UA server for small devices: freestanding C11, no heap, every
table a fixed array, one thread. The application calls `mu_server_poll()` in a
loop; a poll accepts or serves connections and then runs one tick of the
subscription engine. This directory models the stateful core of that server in
TLA+, checks it with TLC on small instances, and proves part of it with TLAPS for
tables of every size.

The build that is modelled has `MUC_OPCUA_MULTIPLE_CONNECTIONS`, subscriptions
(standard profile), events and security enabled. Source paths below are relative
to the repository.

## The parts of the system

| Part | Source | Here |
|---|---|---|
| Subscription engine: subscriptions, items, parked Publish requests, publishing cycle | `src/services/subscription.c` | `Subscription` |
| Monitored item: sampling, filter, ring of reports | `src/services/subscription.c` | `MonitoredItem`, `ReportQueue` |
| Server loop and connections | `src/core/server.c` | `Server` |
| Secure channel: lifecycle, tokens, sequence numbers | `src/services/secure_channel.c`, `src/core/sequence.c` | `SecureChannel`, `Server` |
| Sessions | `src/services/session.c` | `Server`, `Session` |
| Service dispatch and handlers | `src/core/service_dispatch.c` | `Server`, `Subscription` |
| Call: standard methods | `src/core/service_dispatch.c` | ResendData in `Subscription` |
| Read, Write, value sources | `src/services/` | the value source in `MonitoredItem` |
| NodeManagement, Browse, Query, History, Alarms, PubSub, address space | `src/services/`, `src/address_space/` | not modelled yet, see the plan |
| Encoding, framing, cryptography, discovery, platform adapters, generated tables | | not modelled: no state, or not this repository's logic |

`PROJECT.json` lists every part with its files and status, and maps each
definition to the lines it stands for.

How they interact: `mu_server_poll` reads chunks of a connection, checks them
against its secure channel (channel id, token, sequence number) and passes the
request to `mu_service_dispatch`, which finds the session by token and checks that
it is bound to this channel. The handlers change the engine's tables between
ticks. A Publish request is not answered; it is parked. At the end of each poll
`mu_subscriptions_tick` samples the items and, for every subscription whose timer
fired, takes the oldest parked request of its session, finds the connection by
the channel id of the session, and emits the response there.

## Modules

**`ReportQueue`** is the abstract specification of an item's report queue: a
bounded FIFO of numbered reports that marks the report next to a gap with the
Overflow bit, under both discard policies.

**`MonitoredItem`** is one data item. `item` has the mutable fields of
`mu_monitored_item_t`, `params` the ones fixed at creation, `source` what the
value source would return. `Tick` is the body of the sampling loop (change test,
deadband, enqueueing, timer); `PublishCycle` is what a publishing cycle does to
the ring, with `ResendData` and with any partial drain; `SetMonitoringMode` and
`ModifyMonitoredItem` are the services; `SourceChanges` and `Elapse` are the
environment. A ring entry holds the number of its report in place of the value.

**`Subscription`** is the engine. `subs`, `items` and `parked` are the three
arrays of `mu_subscriptions_t`, `nextSubId`, `nextItemId` and `activeCount` its
counters. `cursor` is the slot that `publish_due` is at, `wire` is what was
emitted in the last step, and `link` says how a session can be reached: `"none"`,
no connection has its channel id; `"open"`; `"mute"`, the channel cannot secure a
message. There is one action per service and element of its array argument, and
the tick is `Poll` (time, sampling) followed by one `PublishDue` per slot, which
has one disjunct per way through `publish_due`: not due, data, too large,
keep-alive, no request, not yet, lost.

**`Server`** composes connections, channels and sessions with the engine:
`Engine == INSTANCE Subscription WITH link <- Link`, where `Link` is computed the
way `publish_due` searches sessions and connections. `turn` is the position in the
poll: 0 accepting, c the visit of connection slot c, `NConns + 1` the tick.

**`SecureChannel`** is the inbound side of one channel in more detail: which chunks
are accepted, renewals, and the sequence validator with its wrap.

**`Session`** is the session table with the identifiers that `Server` draws from a set:
the id and the token of a new session are a random word mixed with a salt, and the
salt counts up until the result differs from those of the open sessions. The search
loops are the least salt at which they may stop. Words have `Width` bits instead of 32;
xor, addition and multiplication of low bits do not depend on the higher ones, so the
constants of the code are cut to that width.

**`MCSubscription`**, **`MCServer`** add TLC's symmetry sets. **`MonitoredItem_proofs`**
and **`Subscription_proofs`** hold the theorems; the latter rests on
**`Subscription_lemmas`** (what the operators do to one item, one subscription, the rings
and the queue of requests) and **`Subscription_steps`** (the steps that create and delete
nothing).

### Abstractions

- Time is relative. A timer is the distance from now to the deadline; lateness is
  counted modulo a common multiple of the intervals, since the timers advance to
  the first future multiple of their interval. 64-bit saturation of a timer is
  left out.
- The enqueue time of a parked request is its rank among the distinct times.
- `Subscription` counts the entries of a ring and chooses whether a sample is due
  and changed; `MonitoredItem` has the ring and the filter.
- A response fits its buffer, or the retransmission slot, up to a number of
  notifications (`FitLimit`, `RetainLimit`) instead of bytes.
- In `Server` the session id stands for the authentication token too, and creating a
  session draws an id that no open session has. `Session` has both identifiers and
  shows that the generators find such a one.
- In `Subscription` alone the links of the sessions change in any way between ticks
  (`Connections`); `Server` computes them from its connections.
- Decoding, signatures, identity tokens and key derivation are choices between
  their outcomes.

## Runs

| Run | Configuration | Question | Distinct states |
|---|---|---|---|
| `item` | `MonitoredItem_item.cfg` | Is the ring a bounded FIFO that marks every gap (`RefinesReportQueue`, `GapsAreMarked`, `RingConsistent`); is a pending item always publishable (`PendingHasReport`); can the value drift away unreported behind a deadband (`FilterHonest`); is anything reported twice (`OnlyNewsReported`)? | 866,304 |
| `alloc` | `MCSubscription_alloc.cfg` | Ids, slots and counts across creation, deletion and the wrap of the allocators (`IdsUnique`, `NoOrphanItems`, `ActiveCountExact`) | 158,391 |
| `publish` | `MCSubscription_publish.cfg` | Do the counting, encoding and clearing loops agree (`DeliveredOnce`), is `moreNotifications` true (`MoreNotificationsHonest`), is the retained message the previous one (`RetainedIsPrevious`)? | 490,312 |
| `answer` | `MCSubscription_answer.cfg` | Is every parked request answered (`RequestAnswered`); does the retained message stay until it is acknowledged or replaced (`RetainedUntilAcknowledged`)? | 202,155 |
| `route` | `MCServer_route.cfg` | Does a response only leave on an established connection with an open channel (`EmitsOnOpenChannel`)? | 1,353,154 |
| `idle` | `MCServer_idle.cfg` | Is a silent connection dropped (`IdleConnectionDropped`)? | 59,434 |
| `identifiers` | `Session_identifiers.cfg` | Does an id name one session (`SessionsDistinct`), does a token lead to the session it was issued for (`TokenLeadsToSession`), can the search for an identifier fail while a slot is free (`IdentifierAlwaysFound`)? | 25,873 |
| `replay` | `SecureChannel_replay.cfg` | Is a sequence number accepted twice (`NoReplay`); does the next client of the slot start afresh (`NothingInherited`)? | 2,346 |

Every property of these runs holds, and each has a mutant of the mapped code
(definitions marked "Mutant" in the modules) for which TLC finds a violation.

Four runs show that the code does not do what its documentation says.

| Run | Property | What the code does |
|---|---|---|
| `close_session` | `SubscriptionsHaveSession` | `handle_close_session` reads the session id after `mu_session_close` has reset it, so the loop that deletes the subscriptions looks for session 0. `docs/architecture.md:199`: "`CloseSession` frees the slot and deletes the session's subscriptions." |
| `owner` | `RoutedToOwner` | Every channel has id 1 (`secure_channel.c:85`), so `publish_due` answers on the first connection. `subscription.h:224`: "Routed back to the owning session/connection." |
| `session_timeout` | `SessionsTimeOut` | The revised session timeout is stored and never read. `docs/integration-guide.md:673`: "uses `get_tick_ms` to enforce session timeouts". |
| `retained` | `LastMessageRetained` | A message longer than `MU_RETRANSMIT_BYTES` is sent and not kept. `subscription.h:171`: "the last NotificationMessage body, retained until acknowledged". |

### Bounds, and why they are enough

- `item`: three slots and requested sizes 0, 2 and 4 give every relation of size and
  array (clamped from 0, smaller, clamped from above to equal); five reports overflow a
  full ring of three twice, and smaller rings before and after partial drains. Values 0
  to 2 with deadband 2 allow changes below and at the deadband and a drift in two
  suppressed steps; elapsed times up to 2 with intervals 1 and 2 skip sampling instants.
- `alloc`: two slots per table and ids up to 3 wrap both allocators repeatedly with
  an id still in use. Items are disabled event items, since only slots and ids matter.
- `publish`: two items with rings of two, each able to trigger the other, give up to
  four entries against caps 0, 1 and 3: the cap cuts inside a ring, between items
  and among triggered items. `FitLimit` 3 makes four entries too large,
  `RetainLimit` 1 makes most messages too long to keep, and `SeqMax` 2 wraps the
  sequence number at every other message.
- `answer`: two subscriptions, publishing or not, compete for two request slots; events
  appear, with or without an event item to report them, and `FitLimit` 0 makes a response
  that carries one too large in every cycle, while one without is sent and retained;
  links are lost and muted.
- `route`, `owner`, `close_session`: two connections and two session slots reuse
  connection slots and let sessions outlive connections. `route` uses a policy with
  keys, so that a channel may be open without keys.
- `identifiers`: three sessions and four-bit words; the draws are 0 and two words that
  salting makes collide, with each other and with zero. `IdentifierAlwaysFound` is
  asked of all sixteen words in every state.
- `replay`: ten numbers and a window of two keep the ratio of the code (the windows
  at the two ends do not overlap) and let the wrap jump.

`Services` selects the services of an instance; all of them occur in some run. No
run uses a state constraint. Counters that the code leaves unbounded are bounded by
`MaxReports` (history of `MonitoredItem`), `IdMax`, `SeqMax`, `Modulus` (the wraps),
`KeepAliveMax` (the keep-alive counter, which saturates past every limit it is
compared with) and `IdleAfter` (idle time past every timeout).

### Fairness

`Subscription!FairSpec` is weak fairness of `Tick`: the application keeps calling
`mu_server_poll` and the tick counter advances, which `docs/integration-guide.md`
asks of it. `Server!FairSpec` is weak fairness of the loop's own steps and strong
fairness of `NothingToAccept`: a poll that accepts or refuses a connection visits no
other one, so under an endless supply of newcomers nobody would time out. Nothing is
assumed of clients.

## Theorems

TLAPS checks the following for every value of the constants that satisfies the
named assumptions of the modules.

**`MonitoredItem_proofs`** (from `DepthAssumption`, `SizesAssumption`,
`ValueAssumption`, `TimeAssumption`, `BoundAssumption`): `TypeCorrect`,
`RingIsConsistent`, `PendingIsReal` and `NewsOnly`. The inductive invariant is `TypeOK`,
`RingConsistent` and `PendingHasReport` together: the enqueueing code is correct
only on a consistent ring, and `pending` is recomputed from the count. Each step is a
composition of the small operations (prepare, enqueue, record, drain, advance), so
the proof shows that each of them keeps a predicate `ItemOK` of an item, and each
action follows. `NewsOnly` is the action property `OnlyNewsReported`: the lemmas named
`...Effect` count the reports an operation makes, and the only one made without news,
by preparing the ring, needs an item that is pending with an empty ring, which by
`PendingHasReport` has reported nothing yet.

**`Subscription_proofs`** (from `CapacityAssumption`, `ParameterAssumption`):
`TypeCorrect`, `UniqueIds`, `NoOrphans`, `CountExact`, `RetainedPrevious`, `Delivery`.
The inductive invariant is the conjunction of the first five properties: that
deleting a subscription leaves no orphan in another needs unique ids, and its
subtraction needs the exact count. `CapacityAssumption` has more ids than slots, which
the 32-bit ids and the array sizes satisfy; without it an allocator would search for
ever. Steps that neither create nor delete share one argument: they satisfy `Keeps`,
which says that every slot keeps its identity, and lemma `KeepsInvariant` gives the
invariant; the two creations and two deletions are proved one by one. `Delivery` is an
action property: `ClearedIsWritten` shows that the two clearing loops remove from each
ring exactly the share that the encoding loops write, because an item is never both
reporting and triggered, and because who is triggered is settled before the first
loop drains.

Only model-checked:

- `RequestAnswered`, `IdleConnectionDropped`: liveness under fairness is out of the
  prover's reach.
- `GapsAreMarked`, `RefinesReportQueue`, `FilterHonest`, `MoreNotificationsHonest`,
  `RetainedUntilAcknowledged`, and the properties of `Server` and `SecureChannel`: no
  proof yet.
- The properties of `Session`: it computes with `Bitwise`, which the prover cannot read.

## Not modelled

- Aggregate items; the body that Republish returns (it changes nothing).
- The reassembly of messages from partial reads, `mu_server_close`, and the build
  with a single connection.
- A service request inside an OPN chunk, or OpenSecureChannel inside a MSG chunk.
- Outbound sequence numbers, key material and chunk protection.
- The parts without a module in the table above.

The hazards in `PROJECT.json` that no property covers belong to these parts (the PubSub
poll whose error skips the tick, node pointers cached by monitored items, the interval
arithmetic of aggregates) or concern what a response tells the client, which is
abstracted: the results of acknowledgements whose request is refused, and the ids of
items created before an array fails.

## Plan

1. Extend the model: NodeManagement (bounded tables with deletion, and the node
   pointers that monitored items cache); continuation points of Browse, Query and
   History; the condition state machine and the events it raises; PubSub timers and
   their place in the poll; aggregate items; custom methods; Read and Write; the
   sorted index of the address space as a pure algorithm against a reference
   definition; stream reassembly and chunk framing. The map covers about a fifth of
   the implementation; this is meant to bring it well past 30%.
2. Prove more: `GapsAreMarked` and the refinement of `ReportQueue`; `FilterHonest`;
   `MoreNotificationsHonest` from the lemmas behind `Delivery`;
   `RetainedUntilAcknowledged`; `EmitsOnOpenChannel` (its invariant relates channel id,
   Hello and openness of each slot); `NoReplay` by a bound on the distance of accepted numbers.

## Running

    tlc -config MCSubscription_publish.cfg MCSubscription
    tlapm Subscription_lemmas.tla
    tlapm Subscription_steps.tla
    tlapm Subscription_proofs.tla
    tlapm MonitoredItem_proofs.tla
