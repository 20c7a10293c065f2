---------------------------- MODULE Subscription ----------------------------
(***************************************************************************)
(* The subscription engine (src/services/subscription.c) and the service    *)
(* handlers that drive it (src/core/service_dispatch.c): subscriptions,     *)
(* monitored items, parked Publish requests, the publishing cycle, the      *)
(* retransmission slot, trigger links, events.                              *)
(*                                                                         *)
(* Abstractions.  The reports waiting in an item's ring are counted (the    *)
(* ring itself is MonitoredItem); whether a sample is due and whether it    *)
(* changed is a choice.  Ticks are relative: sub.next is next_publish_ms    *)
(* minus now, req.age ranks enqueued_ms (0 is now, larger is older).  A     *)
(* response fits its buffer when it carries at most FitLimit notifications  *)
(* and is retained for Republish when it carries at most RetainLimit.       *)
(* mu_subscriptions_tick is Poll (its sampling loop) followed by one        *)
(* PublishDue per subscription slot; nothing else runs in between.          *)
(***************************************************************************)
EXTENDS Integers, FiniteSets

CONSTANTS
    Services,       \* the services that clients call in this instance
    Sessions,       \* session ids
    Origins,        \* request ids of Publish requests
    NSubs,          \* MU_MAX_SUBSCRIPTIONS
    NItems,         \* MU_MAX_MONITORED_ITEMS
    NRequests,      \* MU_MAX_PUBLISH_REQUESTS
    MaxLinks,       \* MU_MAX_TRIGGER_LINKS
    EventDepth,     \* MU_MAX_EVENT_QUEUE_SIZE
    IdMax,          \* where the id allocators wrap (2^32 - 1)
    SeqMax,         \* where sequence numbers wrap (2^32 - 1)
    QueueSizes,     \* revised queue sizes of monitored items
    Intervals,      \* revised publishing intervals, in ticks
    Period,         \* a common multiple of the intervals
    KeepAlives,     \* revised max_keep_alive_counts
    KeepAliveMax,   \* the largest of them; the counter saturates there
    NotificationCaps, \* max_notifications_per_publish; 0 is no limit
    Enabled,        \* publishing modes clients set
    Modes,          \* monitoring modes clients set
    Attributes,     \* what clients monitor: "value", "event"
    Links,          \* the values of link that occur in this instance
    FitLimit,       \* notifications (of data or events) that fit MU_PUBLISH_BODY_BYTES
    RetainLimit,    \* notifications that fit MU_RETRANSMIT_BYTES
    MaxElapsed      \* longest time between two polls, in ticks

SubSlots == 1 .. NSubs

ItemSlots == 1 .. NItems

RequestSlots == 1 .. NRequests

Ids == 1 .. IdMax

Seqs == 1 .. SeqMax

ASSUME CapacityAssumption ==
    /\ NSubs \in Nat \ {0} /\ NItems \in Nat /\ NRequests \in Nat
    /\ MaxLinks \in Nat /\ EventDepth \in Nat \ {0}
    /\ IdMax \in Nat /\ IdMax > NSubs /\ IdMax > NItems /\ SeqMax \in Nat /\ SeqMax > 1
ASSUME ParameterAssumption ==
    /\ QueueSizes \subseteq Nat \ {0} /\ NotificationCaps \subseteq Nat
    /\ Intervals \subseteq Nat \ {0} /\ Period \in Nat \ {0}
    /\ \A interval \in Intervals : Period % interval = 0
    /\ KeepAliveMax \in Nat /\ KeepAlives \subseteq 1 .. KeepAliveMax
    /\ Enabled \subseteq BOOLEAN
    /\ Modes \subseteq {"disabled", "sampling", "reporting", "other"}
    /\ Links \subseteq {"none", "open", "mute"} /\ "none" \in Links
    /\ Attributes \subseteq {"value", "event"}
    /\ FitLimit \in Nat /\ RetainLimit \in Nat /\ MaxElapsed \in Nat

VARIABLES
    subs,           \* subscriptions[]
    items,          \* monitored_items[]
    parked,         \* publish_queue[]
    nextSubId,      \* next_subscription_id
    nextItemId,     \* next_monitored_item_id
    activeCount,    \* active_monitored_items_count
    cursor,         \* the slot publish_due is at; 0 between ticks
    wire,           \* what mu_server_emit_message sent in the last step
    link            \* how publish_due can reach a session: "none", its channel has no
                    \* connection; "open"; "mute", the channel cannot secure a message

engine == <<subs, items, parked, nextSubId, nextItemId, activeCount, cursor, wire>>

vars == <<subs, items, parked, nextSubId, nextItemId, activeCount, cursor, wire, link>>

FreeSub ==
    [in_use |-> FALSE, id |-> 0, session |-> 0, enabled |-> FALSE, interval |-> 1, next |-> 0,
     keep_alive |-> 0, max_keep_alive |-> 0, cap |-> 0, seq |-> 0, retained |-> 0,
     resend |-> FALSE, events |-> 0]

FreeItem ==
    [in_use |-> FALSE, id |-> 0, sub |-> 0, attribute |-> "value", mode |-> "disabled",
     size |-> 1, count |-> 0, pending |-> FALSE, has_value |-> FALSE, links |-> {}]

FreeRequest == [in_use |-> FALSE, session |-> 0, origin |-> 0, age |-> 0]

Silence ==
    [kind |-> "none", sub |-> 0, session |-> 0, origin |-> 0, seq |-> 0, more |-> FALSE,
     written |-> [i \in ItemSlots |-> 0], events |-> 0]

Init ==
    /\ subs = [s \in SubSlots |-> FreeSub]
    /\ items = [i \in ItemSlots |-> FreeItem]
    /\ parked = [r \in RequestSlots |-> FreeRequest]
    /\ nextSubId = 1 /\ nextItemId = 1
    /\ activeCount = 0
    /\ cursor = 0
    /\ wire = Silence
    /\ link = [session \in Sessions |-> "none"]

-----------------------------------------------------------------------------
(* Allocation. *)

FirstFree(table, slots, n) ==
    n \in slots /\ ~table[n].in_use /\ \A m \in slots : m < n => table[m].in_use

InUse(table, slots, id) == \E n \in slots : table[n].in_use /\ table[n].id = id

\* Mutant: the wrap does not skip 0.
IdAfterThroughZero(next, k) == (next + k) % (IdMax + 1)

\* The id k places after next, past the wrap that skips 0.
IdAfter(next, k) == ((next - 1 + k) % IdMax) + 1

\* Mutant: ids in use are not skipped.
AllocatesUnchecked(table, slots, next, k) == k = 0

\* allocate_*_id returns id on its (k + 1)-th try.
Allocates(table, slots, next, k) ==
    /\ ~InUse(table, slots, IdAfter(next, k))
    /\ \A j \in 0 .. k - 1 : InUse(table, slots, IdAfter(next, j))

\* mu_subscription_find
Owns(session, s) == subs[s].in_use /\ subs[s].session = session

InSub(its, s, i) == its[i].in_use /\ its[i].sub = subs[s].id

\* The scans that stop after activeCount occupied slots reach slot i.
Scanned(i) == Cardinality({j \in ItemSlots : j < i /\ items[j].in_use}) < activeCount

-----------------------------------------------------------------------------
(* Subscription services.  A request for an array of ids is its elements, one *)
(* action each: a malformed element stops the array after its predecessors.  *)

Parameters(sub, interval, keepAlive, cap) ==
    [sub EXCEPT !.interval = interval, !.max_keep_alive = keepAlive, !.cap = cap]

CreateSubscription(session, interval, keepAlive, cap, enabled) ==
    \E s \in SubSlots, k \in 0 .. NSubs :
        /\ FirstFree(subs, SubSlots, s)
        /\ Allocates(subs, SubSlots, nextSubId, k)
        /\ subs' = [subs EXCEPT ![s] =
              [Parameters(FreeSub, interval, keepAlive, cap) EXCEPT
                  !.in_use = TRUE, !.id = IdAfter(nextSubId, k), !.session = session,
                  !.enabled = enabled, !.next = interval, !.seq = 1]]
        /\ nextSubId' = IdAfter(nextSubId, k + 1)
        /\ UNCHANGED <<items, parked, nextItemId, activeCount>>

ModifySubscription(session, s, interval, keepAlive, cap) ==
    /\ Owns(session, s)
    /\ subs' = [subs EXCEPT ![s] = Parameters(subs[s], interval, keepAlive, cap)]
    /\ UNCHANGED <<items, parked, nextSubId, nextItemId, activeCount>>

SetPublishingMode(session, s, enabled) ==
    /\ Owns(session, s)
    /\ subs' = [subs EXCEPT ![s].enabled = enabled]
    /\ UNCHANGED <<items, parked, nextSubId, nextItemId, activeCount>>

\* Mutant: the subscription's items stay.
DeleteSubscriptionOnly(session, s) ==
    /\ Owns(session, s)
    /\ subs' = [subs EXCEPT ![s] = FreeSub]
    /\ UNCHANGED <<items, parked, nextSubId, nextItemId, activeCount>>

\* Mutant: its items go uncounted.
DeleteSubscriptionUncounted(session, s) ==
    /\ Owns(session, s)
    /\ items' = [i \in ItemSlots |-> IF InSub(items, s, i) THEN FreeItem ELSE items[i]]
    /\ subs' = [subs EXCEPT ![s] = FreeSub]
    /\ UNCHANGED <<parked, nextSubId, nextItemId, activeCount>>

\* mu_subscription_delete; parked Publish requests stay.
DeleteSubscription(session, s) ==
    /\ Owns(session, s)
    /\ items' = [i \in ItemSlots |-> IF InSub(items, s, i) THEN FreeItem ELSE items[i]]
    /\ activeCount' = LET gone == Cardinality({i \in ItemSlots : InSub(items, s, i)})
                      IN  IF activeCount > gone THEN activeCount - gone ELSE 0
    /\ subs' = [subs EXCEPT ![s] = FreeSub]
    /\ UNCHANGED <<parked, nextSubId, nextItemId>>

ResendData(session, s) ==
    /\ Owns(session, s)
    /\ subs' = [subs EXCEPT ![s].resend = TRUE]
    /\ UNCHANGED <<items, parked, nextSubId, nextItemId, activeCount>>

\* mu_server_trigger_event: every subscription queues it, dropping its oldest event.
TriggerEvent ==
    /\ subs' = [s \in SubSlots |->
          IF subs[s].in_use /\ subs[s].events < EventDepth
            THEN [subs[s] EXCEPT !.events = subs[s].events + 1] ELSE subs[s]]
    /\ UNCHANGED <<items, parked, nextSubId, nextItemId, activeCount>>

-----------------------------------------------------------------------------
(* Monitored item services. *)

\* read: the value source could be read at creation (never for an event item).
CreateMonitoredItem(session, s, attribute, mode, size, read) ==
    \E i \in ItemSlots, k \in 0 .. NItems :
        /\ Owns(session, s)
        /\ read => attribute = "value"
        /\ FirstFree(items, ItemSlots, i)
        /\ Allocates(items, ItemSlots, nextItemId, k)
        /\ items' = [items EXCEPT ![i] =
              [FreeItem EXCEPT
                  !.in_use = TRUE, !.id = IdAfter(nextItemId, k), !.sub = subs[s].id,
                  !.attribute = attribute, !.mode = mode, !.size = size,
                  !.pending = read, !.has_value = read]]
        /\ nextItemId' = IdAfter(nextItemId, k + 1)
        /\ activeCount' = activeCount + 1
        /\ UNCHANGED <<subs, parked, nextSubId>>

\* find_monitored_item stops scanning after activeCount occupied slots.
SetMonitoringMode(session, s, i, mode) ==
    /\ Owns(session, s) /\ InSub(items, s, i) /\ Scanned(i)
    /\ items' = [items EXCEPT ![i].mode = mode]
    /\ UNCHANGED <<subs, parked, nextSubId, nextItemId, activeCount>>

DeleteMonitoredItem(session, s, i) ==
    /\ Owns(session, s) /\ InSub(items, s, i)
    /\ items' = [items EXCEPT ![i] = FreeItem]
    /\ activeCount' = IF activeCount > 0 THEN activeCount - 1 ELSE 0
    /\ UNCHANGED <<subs, parked, nextSubId, nextItemId>>

\* Links name the linked item by id and outlive it.
AddTriggerLink(session, s, i, j) ==
    /\ Owns(session, s) /\ InSub(items, s, i) /\ InSub(items, s, j)
    /\ items[j].id \notin items[i].links
    /\ Cardinality(items[i].links) < MaxLinks
    /\ items' = [items EXCEPT ![i].links = items[i].links \cup {items[j].id}]
    /\ UNCHANGED <<subs, parked, nextSubId, nextItemId, activeCount>>

RemoveTriggerLink(session, s, i, j) ==
    /\ Owns(session, s) /\ InSub(items, s, i) /\ InSub(items, s, j)
    /\ items[j].id \in items[i].links
    /\ items' = [items EXCEPT ![i].links = items[i].links \ {items[j].id}]
    /\ UNCHANGED <<subs, parked, nextSubId, nextItemId, activeCount>>

-----------------------------------------------------------------------------
(* Publish: acknowledgements are applied first, whether or not the request   *)
(* then finds a slot.                                                        *)

\* acks is a set of <<subscription id, sequence number>>.
Acknowledged(session, acks) ==
    [s \in SubSlots |->
        IF Owns(session, s) /\ <<subs[s].id, subs[s].retained>> \in acks
          THEN [subs[s] EXCEPT !.retained = 0] ELSE subs[s]]

Publish(session, origin, acks) ==
    /\ subs' = Acknowledged(session, acks)
    /\ \E r \in RequestSlots :
          /\ FirstFree(parked, RequestSlots, r)
          /\ parked' = [parked EXCEPT ![r] = [in_use |-> TRUE, session |-> session,
                                              origin |-> origin, age |-> 0]]
    /\ UNCHANGED <<items, nextSubId, nextItemId, activeCount>>

\* Bad_TooManyPublishRequests
PublishRefused(session, acks) ==
    /\ \A r \in RequestSlots : parked[r].in_use
    /\ subs' = Acknowledged(session, acks)
    /\ UNCHANGED <<items, parked, nextSubId, nextItemId, activeCount>>

\* Mutant: the newest request first.
Newest(session, r) ==
    /\ parked[r].in_use /\ parked[r].session = session
    /\ \A q \in RequestSlots : parked[q].in_use /\ parked[q].session = session =>
          \/ parked[q].age > parked[r].age
          \/ parked[q].age = parked[r].age /\ r <= q

\* publish_request_dequeue: the oldest of the session's, the lowest slot among equals.
Oldest(session, r) ==
    /\ parked[r].in_use /\ parked[r].session = session
    /\ \A q \in RequestSlots : parked[q].in_use /\ parked[q].session = session =>
          \/ parked[q].age < parked[r].age
          \/ parked[q].age = parked[r].age /\ r <= q

\* Ranks stay dense: 1, 2, ... for the distinct ages before now.
Compact(queue) ==
    LET ages == {queue[r].age : r \in {q \in RequestSlots : queue[q].in_use}} IN
    [r \in RequestSlots |->
        IF queue[r].age = 0 THEN queue[r]
        ELSE [queue[r] EXCEPT !.age = 1 + Cardinality(ages \cap 1 .. queue[r].age - 1)]]

Aged(queue) ==
    IF \E r \in RequestSlots : queue[r].in_use /\ queue[r].age = 0
      THEN [r \in RequestSlots |->
              IF queue[r].in_use THEN [queue[r] EXCEPT !.age = queue[r].age + 1] ELSE queue[r]]
      ELSE queue

-----------------------------------------------------------------------------
(* The tick: sampling. *)

\* monitored_item_enqueue_report, counting
Reported(it) ==
    [it EXCEPT !.count = IF it.count < it.size THEN it.count + 1 ELSE it.count,
               !.pending = TRUE]

PreparePendingQueue(it) ==
    IF it.pending /\ it.count = 0 /\ it.has_value THEN Reported(it) ELSE it

Outcomes == {"not_due", "same", "changed"}

Sampled(it, outcome) ==
    IF outcome = "not_due" \/ it.mode = "disabled" \/ it.attribute = "event" THEN it
    ELSE IF ~it.has_value THEN Reported([it EXCEPT !.has_value = TRUE])
    ELSE IF outcome = "same" THEN PreparePendingQueue(it)
    ELSE Reported(PreparePendingQueue(it))

\* Lateness counts modulo Period, which AdvancePublishTimer cannot tell apart.
Later(next, d) == IF next > d THEN next - d ELSE -((d - next) % Period)

Poll(d, outcome) ==
    /\ cursor = 0
    /\ subs' = [s \in SubSlots |->
          IF subs[s].in_use THEN [subs[s] EXCEPT !.next = Later(subs[s].next, d)] ELSE subs[s]]
    /\ parked' = Aged(parked)
    /\ items' = [i \in ItemSlots |->
          IF items[i].in_use /\ Scanned(i) THEN Sampled(items[i], outcome[i]) ELSE items[i]]
    /\ cursor' = 1
    /\ UNCHANGED <<nextSubId, nextItemId, activeCount>>

-----------------------------------------------------------------------------
(* The tick: publishing.  its are the items, prepared for the cycle. *)

PrepareReportableQueues(its, s) ==
    [i \in ItemSlots |->
        IF InSub(its, s, i) /\ its[i].mode # "disabled" THEN PreparePendingQueue(its[i])
        ELSE its[i]]

EnqueueResendData(its, s) ==
    [i \in ItemSlots |->
        IF InSub(its, s, i) /\ its[i].mode = "reporting"
          THEN Reported([its[i] EXCEPT !.has_value = TRUE]) ELSE its[i]]

ReadyItems(s) ==
    LET prepared == PrepareReportableQueues(items, s) IN
    IF ~subs[s].enabled THEN items
    ELSE IF subs[s].resend THEN EnqueueResendData(prepared, s)
    ELSE prepared

Reportable(its, s) ==
    {i \in ItemSlots : /\ InSub(its, s, i)
                       /\ its[i].pending \/ its[i].count > 0
                       /\ its[i].mode = "reporting"}

ReportsByTrigger(its, s) ==
    {i \in ItemSlots : /\ InSub(its, s, i)
                       /\ its[i].mode = "sampling" /\ its[i].count > 0
                       /\ \E t \in Reportable(its, s) : its[i].id \in its[t].links}

\* The entries waiting in the rings of the chosen items.
Queued(its, chosen) == Cardinality(UNION {{i} \X (1 .. its[i].count) : i \in chosen})

Least(m, n) == IF m < n THEN m ELSE n

Excess(m, n) == IF m > n THEN m - n ELSE 0

\* Walking the chosen items in slot order with a budget, how many entries each gives.
Share(its, chosen, budget) ==
    [i \in ItemSlots |->
        IF i \in chosen
          THEN Least(its[i].count, Excess(budget, Queued(its, {j \in chosen : j < i})))
          ELSE 0]

\* count_reportable_items
ReportTotal(its, s) == Queued(its, Reportable(its, s)) + Queued(its, ReportsByTrigger(its, s))

ReportCount(its, s) ==
    IF subs[s].cap = 0 THEN ReportTotal(its, s) ELSE Least(subs[s].cap, ReportTotal(its, s))

\* write_data_change_notification: the entries of each item that the response carries
Written(its, s, n) ==
    LET direct    == Reportable(its, s)
        triggered == ReportsByTrigger(its, s)
    IN  [i \in ItemSlots |-> Share(its, direct, n)[i]
                               + Share(its, triggered, Excess(n, Queued(its, direct)))[i]]

Drained(its, share) ==
    [i \in ItemSlots |->
        IF share[i] = 0 THEN its[i]
        ELSE [its[i] EXCEPT !.count = its[i].count - share[i],
                            !.pending = its[i].count > share[i]]]

\* Mutant: who is triggered is asked again after the first loop.
ClearReportedItemsLate(its, s, n) ==
    LET direct == Reportable(its, s)
        first  == Drained(its, Share(its, direct, n))
    IN  Drained(first, Share(first, ReportsByTrigger(first, s), Excess(n, Queued(its, direct))))

\* clear_reported_items: who is triggered is settled before the first loop drains.
ClearReportedItems(its, s, n) ==
    LET direct    == Reportable(its, s)
        triggered == ReportsByTrigger(its, s)
        first     == Drained(its, Share(its, direct, n))
    IN  Drained(first, Share(first, triggered, Excess(n, Queued(its, direct))))

\* publish_due reaches the subscription: its timer fired and its session has a connection.
Due(s) == subs[s].in_use /\ subs[s].next <= 0 /\ link[subs[s].session] # "none"

Notifications(s) == IF subs[s].enabled THEN ReportCount(ReadyItems(s), s) ELSE 0

HasData(s) == subs[s].enabled /\ (Notifications(s) > 0 \/ subs[s].events > 0)

\* write_event_notification_list: every reporting event item gets every queued event.
EventItems(s) ==
    {i \in ItemSlots : /\ InSub(items, s, i)
                       /\ items[i].attribute = "event" /\ items[i].mode = "reporting"}

MessageSize(s) == Notifications(s) + subs[s].events * Cardinality(EventItems(s))

\* Mutant: a response that just fills the cap announces more.
MoreAtCap(s) == subs[s].cap # 0 /\ ReportTotal(ReadyItems(s), s) >= subs[s].cap

\* moreNotifications: counting stopped at the cap with entries left.
More(s) == ReportTotal(ReadyItems(s), s) > Notifications(s)

\* Mutant: a message too large to keep leaves the one before it in the slot.
RetainedStays(s) == IF MessageSize(s) <= RetainLimit THEN subs[s].seq ELSE subs[s].retained

\* store_retransmit: the sequence number of the message kept, 0 when there is none
Retained(s) == IF MessageSize(s) <= RetainLimit THEN subs[s].seq ELSE 0

AdvancePublishTimer(sub) ==
    [sub EXCEPT !.next = sub.next + ((-sub.next) \div sub.interval + 1) * sub.interval]

\* Mutant: a cycle empties the retransmission slot before it knows what it will send.
CycledForgets(s) ==
    [AdvancePublishTimer(subs[s]) EXCEPT !.resend = subs[s].resend /\ ~subs[s].enabled,
                                         !.retained = 0]

\* What a cycle does to the subscription in every case.
Cycled(s) ==
    [AdvancePublishTimer(subs[s]) EXCEPT !.resend = subs[s].resend /\ ~subs[s].enabled]

NextSeq(seq) == IF seq = SeqMax THEN 1 ELSE seq + 1

KeepAliveCounted(s) == Least(subs[s].keep_alive + 1, KeepAliveMax)

Response(kind, s, r) ==
    [Silence EXCEPT !.kind = kind, !.sub = subs[s].id, !.session = subs[s].session,
                    !.origin = parked[r].origin, !.seq = subs[s].seq]

Dequeued(r) == Compact([parked EXCEPT ![r] = FreeRequest])

Sends(s) == link[subs[s].session] = "open"

KeepAliveDue(s) == ~HasData(s) /\ KeepAliveCounted(s) >= subs[s].max_keep_alive

PublishSkipped(s) ==
    /\ ~Due(s)
    /\ wire' = Silence
    /\ UNCHANGED <<subs, items, parked>>

PublishData(s, r) ==
    LET n == Notifications(s) IN
    /\ Due(s) /\ HasData(s) /\ Oldest(subs[s].session, r) /\ Sends(s)
    /\ MessageSize(s) <= FitLimit
    /\ items' = ClearReportedItems(ReadyItems(s), s, n)
    /\ subs' = [subs EXCEPT ![s] =
          [Cycled(s) EXCEPT !.keep_alive = 0, !.events = 0, !.seq = NextSeq(subs[s].seq),
                            !.retained = Retained(s)]]
    /\ parked' = Dequeued(r)
    /\ wire' = [Response("data", s, r) EXCEPT
          !.more = More(s),
          !.written = Written(ReadyItems(s), s, n),
          !.events = subs[s].events * Cardinality(EventItems(s))]

\* Bad_ResponseTooLarge uses up the request and keeps the notifications.
PublishTooLarge(s, r) ==
    /\ Due(s) /\ HasData(s) /\ Oldest(subs[s].session, r) /\ Sends(s)
    /\ MessageSize(s) > FitLimit
    /\ items' = ReadyItems(s)
    /\ subs' = [subs EXCEPT ![s] = Cycled(s)]
    /\ parked' = Dequeued(r)
    /\ wire' = Response("fault", s, r)

\* Notifications without a parked request wait for the next cycle.
PublishWaits(s) ==
    /\ Due(s) /\ HasData(s)
    /\ \A r \in RequestSlots : ~Oldest(subs[s].session, r)
    /\ items' = ReadyItems(s)
    /\ subs' = [subs EXCEPT ![s] = Cycled(s)]
    /\ wire' = Silence
    /\ UNCHANGED parked

PublishKeepAlive(s, r) ==
    /\ Due(s) /\ KeepAliveDue(s) /\ Oldest(subs[s].session, r) /\ Sends(s)
    /\ items' = ReadyItems(s)
    /\ subs' = [subs EXCEPT ![s] = [Cycled(s) EXCEPT !.keep_alive = 0]]
    /\ parked' = Dequeued(r)
    /\ wire' = Response("keep_alive", s, r)

PublishCounts(s) ==
    /\ Due(s) /\ ~HasData(s)
    /\ \/ ~KeepAliveDue(s)
       \/ \A r \in RequestSlots : ~Oldest(subs[s].session, r)
    /\ items' = ReadyItems(s)
    /\ subs' = [subs EXCEPT ![s] = [Cycled(s) EXCEPT !.keep_alive = KeepAliveCounted(s)]]
    /\ wire' = Silence
    /\ UNCHANGED parked

\* mu_server_emit_message fails for another reason than size: the request is used up and
\* its client hears nothing.
PublishLost(s, r) ==
    /\ Due(s) /\ (HasData(s) \/ KeepAliveDue(s))
    /\ Oldest(subs[s].session, r) /\ ~Sends(s)
    /\ items' = ReadyItems(s)
    /\ subs' = [subs EXCEPT ![s] = [Cycled(s) EXCEPT
          !.keep_alive = IF HasData(s) THEN subs[s].keep_alive ELSE KeepAliveCounted(s)]]
    /\ parked' = Dequeued(r)
    /\ wire' = Silence

PublishDue ==
    /\ cursor > 0
    /\ \/ PublishSkipped(cursor) \/ PublishWaits(cursor) \/ PublishCounts(cursor)
       \/ \E r \in RequestSlots :
             \/ PublishData(cursor, r) \/ PublishTooLarge(cursor, r)
             \/ PublishKeepAlive(cursor, r) \/ PublishLost(cursor, r)
    /\ cursor' = IF cursor = NSubs THEN 0 ELSE cursor + 1
    /\ UNCHANGED <<nextSubId, nextItemId, activeCount>>

-----------------------------------------------------------------------------
(* The engine on its own: sessions come and go as their connections do. *)

\* Services run between ticks and answer synchronously.
BetweenTicks == cursor = 0 /\ UNCHANGED cursor /\ wire' = Silence

SubscriptionService(session) ==
    \/ /\ "CreateSubscription" \in Services
       /\ \E interval \in Intervals, keepAlive \in KeepAlives, cap \in NotificationCaps,
             enabled \in Enabled : CreateSubscription(session, interval, keepAlive, cap, enabled)
    \/ \E s \in SubSlots :
          \/ /\ "ModifySubscription" \in Services
             /\ \E interval \in Intervals, keepAlive \in KeepAlives, cap \in NotificationCaps :
                   ModifySubscription(session, s, interval, keepAlive, cap)
          \/ /\ "SetPublishingMode" \in Services
             /\ \E enabled \in Enabled : SetPublishingMode(session, s, enabled)
          \/ "DeleteSubscriptions" \in Services /\ DeleteSubscription(session, s)
          \/ "ResendData" \in Services /\ ResendData(session, s)

ItemService(session, s) ==
    \/ /\ "CreateMonitoredItems" \in Services
       /\ \E attribute \in Attributes, mode \in Modes, size \in QueueSizes, read \in BOOLEAN :
             CreateMonitoredItem(session, s, attribute, mode, size, read)
    \/ \E i \in ItemSlots :
          \/ /\ "SetMonitoringMode" \in Services
             /\ \E mode \in Modes : SetMonitoringMode(session, s, i, mode)
          \/ "DeleteMonitoredItems" \in Services /\ DeleteMonitoredItem(session, s, i)
          \/ /\ "SetTriggering" \in Services
             /\ \E j \in ItemSlots :
                   AddTriggerLink(session, s, i, j) \/ RemoveTriggerLink(session, s, i, j)

\* A client acknowledges at most one message, retained or not.
AckSets == {{}} \cup {{<<subs[s].id, q>>} : s \in SubSlots, q \in Seqs}

PublishService(session) ==
    /\ "Publish" \in Services
    /\ \E acks \in AckSets :
          \/ \E origin \in Origins : Publish(session, origin, acks)
          \/ PublishRefused(session, acks)

Service(session) ==
    \/ SubscriptionService(session)
    \/ \E s \in SubSlots : ItemService(session, s)
    \/ PublishService(session)

\* A failed write drops the connection after the engine counted the response as sent.
Emitted ==
    \/ UNCHANGED link
    \/ /\ wire'.kind # "none"
       /\ \E gone \in SUBSET Sessions :
             /\ wire'.session \in gone
             /\ link' = [session \in Sessions |-> IF session \in gone THEN "none" ELSE link[session]]

Tick ==
    \/ /\ \E d \in 1 .. MaxElapsed, outcome \in [ItemSlots -> Outcomes] : Poll(d, outcome)
       /\ wire' = Silence
       /\ UNCHANGED link
    \/ PublishDue /\ Emitted

\* What accepting, dropping and opening channels do to the sessions' links, in any order;
\* Server has the code behind it.
Connections ==
    /\ cursor = 0
    /\ \E session \in Sessions, l \in Links : link' = [link EXCEPT ![session] = l]
    /\ wire' = Silence
    /\ UNCHANGED <<subs, items, parked, nextSubId, nextItemId, activeCount, cursor>>

Next ==
    \/ \E session \in Sessions : link[session] # "none" /\ Service(session) /\ BetweenTicks /\ UNCHANGED link
    \/ "TriggerEvent" \in Services /\ TriggerEvent /\ BetweenTicks /\ UNCHANGED link
    \/ Tick
    \/ Connections

Spec == Init /\ [][Next]_vars

\* The application polls for ever and its clock advances.
FairSpec == Spec /\ WF_vars(Tick)

-----------------------------------------------------------------------------
(* Properties. *)

LiveSubs ==
    [in_use : {TRUE}, id : Ids, session : Sessions, enabled : BOOLEAN, interval : Intervals,
     next : Int, keep_alive : 0 .. KeepAliveMax, max_keep_alive : KeepAlives,
     cap : NotificationCaps, seq : Seqs, retained : {0} \cup Seqs, resend : BOOLEAN,
     events : 0 .. EventDepth]

LiveItems ==
    [in_use : {TRUE}, id : Ids, sub : Ids, attribute : Attributes, mode : Modes,
     size : QueueSizes, count : Nat, pending : BOOLEAN, has_value : BOOLEAN, links : SUBSET Ids]

LiveRequests == [in_use : {TRUE}, session : Sessions, origin : Origins, age : Nat]

\* Every slot is free or holds a record with ids, counters and limits in range.
TypeOK ==
    /\ subs \in [SubSlots -> {FreeSub} \cup LiveSubs]
    /\ items \in [ItemSlots -> {FreeItem} \cup LiveItems]
    /\ parked \in [RequestSlots -> {FreeRequest} \cup LiveRequests]
    /\ nextSubId \in Ids /\ nextItemId \in Ids
    /\ activeCount \in 0 .. NItems
    /\ cursor \in 0 .. NSubs
    /\ link \in [Sessions -> Links]

\* The ids a client holds name one live subscription and one live item: the allocators
\* skip ids in use also after they wrap (allocate_subscription_id,
\* allocate_monitored_item_id).
IdsUnique ==
    /\ \A s, t \in SubSlots :
          subs[s].in_use /\ subs[t].in_use /\ subs[s].id = subs[t].id => s = t
    /\ \A i, j \in ItemSlots :
          items[i].in_use /\ items[j].in_use /\ items[i].id = items[j].id => i = j

\* A monitored item belongs to a live subscription: deleting a subscription takes its
\* items with it, so a later subscription that gets the same id inherits none.
NoOrphanItems ==
    \A i \in ItemSlots : items[i].in_use =>
        \E s \in SubSlots : subs[s].in_use /\ subs[s].id = items[i].sub

\* active_monitored_items_count, at which the sampling loop of mu_subscriptions_tick and
\* the scan of find_monitored_item stop, counts the occupied slots exactly, so that they
\* reach every item however creations and deletions left the slots.
ActiveCountExact == activeCount = Cardinality({i \in ItemSlots : items[i].in_use})

\* The message kept for Republish is the last one sent with notifications: its number
\* precedes the number the next one will carry, across the wrap that skips 0.
RetainedIsPrevious ==
    \A s \in SubSlots : subs[s].retained # 0 => NextSeq(subs[s].retained) = subs[s].seq

\* The retained message is given up only when a newer one takes its place, when a client
\* of the subscription's session acknowledges its number, or with the subscription: not by
\* keep-alives, faults, lost responses, mode changes or a failed write, after which it is
\* the only copy of notifications that have left the rings (mu_subscription_acknowledge,
\* store_retransmit).
RetainedUntilAcknowledged ==
    [][\A s \in SubSlots : subs[s].retained \notin {0, subs'[s].retained} =>
          \/ wire'.kind = "data" /\ wire'.sub = subs[s].id
          \/ \E session \in Sessions, acks \in AckSets :
                /\ Owns(session, s) /\ <<subs[s].id, subs[s].retained>> \in acks
                /\ \/ PublishRefused(session, acks)
                   \/ \E origin \in Origins : Publish(session, origin, acks)
          \/ subs'[s].id # subs[s].id]_vars

\* A response takes out of the rings what it carries and nothing else does: the count, the
\* encoding and the clearing loops of a publishing cycle agree on which entries of which
\* items go out, also when the cap cuts between items and the triggered ones.
DeliveredOnce ==
    [][cursor > 0 =>
          \A i \in ItemSlots :
             items'[i].count + wire'.written[i] =
               IF Due(cursor) THEN ReadyItems(cursor)[i].count ELSE items[i].count]_vars

\* moreNotifications tells the truth: without it no reporting item of the subscription
\* has an entry left, with it some item has.
MoreNotificationsHonest ==
    [][wire'.kind = "data" =>
          LET left == {i \in ItemSlots : InSub(items, cursor, i) /\ items'[i].count > 0} IN
          IF wire'.more THEN left # {}
          ELSE \A i \in left : items[i].mode # "reporting"]_vars

\* The retransmission slot is "the last NotificationMessage body, retained until
\* acknowledged" (subscription.h): a message that went out is in the slot.
LastMessageRetained ==
    [][wire'.kind = "data" => subs'[cursor].retained = wire'.seq]_vars

Served(session) == link[session] = "open" /\ \E s \in SubSlots : Owns(session, s)

\* A parked Publish request is answered, by data, a fault or a keep-alive, as long as its
\* session keeps a connection and a subscription.
RequestAnswered ==
    \A r \in RequestSlots, session \in Sessions :
        (parked[r].in_use /\ parked[r].session = session)
          ~> (~parked[r].in_use \/ ~Served(session))
=============================================================================
