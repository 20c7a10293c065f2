--------------------------- MODULE MonitoredItem ---------------------------
(***************************************************************************)
(* One data MonitoredItem of the subscription engine (src/services/         *)
(* subscription.c): sampling against the address space, the DataChange      *)
(* filter and absolute deadband, the ring buffer of reports with its two    *)
(* discard policies, the publishing cycle's use of the ring, ResendData     *)
(* and SetMonitoringMode.                                                   *)
(*                                                                         *)
(* Time is relative: item.next is next_sample_ms minus the current tick.    *)
(* A reading is what mu_value_source_read returns; NullValue is the zeroed  *)
(* variant of a read that failed.  A ring entry carries the number of the   *)
(* report instead of its value (see ReportQueue).                           *)
(***************************************************************************)
EXTENDS Integers, Sequences

CONSTANTS
    Depth,          \* MU_MONITORED_QUEUE_DEPTH
    RequestedSizes, \* queueSize values a client may ask for
    MaxValue,       \* the monitored variable holds 0 .. MaxValue
    Deadbands,      \* absolute deadband values; 0 stands for no deadband
    Intervals,      \* revised sampling intervals, in ticks
    Period,         \* a common multiple of the intervals
    MaxElapsed,     \* longest time between two polls, in ticks
    MaxReports      \* bound on the number of reports of a behaviour

ASSUME DepthAssumption == Depth \in Nat \ {0}
ASSUME SizesAssumption == RequestedSizes \subseteq Nat
ASSUME ValueAssumption == MaxValue \in Nat /\ Deadbands \subseteq Nat
ASSUME TimeAssumption ==
    /\ Intervals \subseteq Nat \ {0} /\ MaxElapsed \in Nat /\ Period \in Nat \ {0}
    /\ \A interval \in Intervals : Period % interval = 0
ASSUME BoundAssumption == MaxReports \in Nat

VARIABLES
    params,     \* what CreateMonitoredItems fixed: queue_size, discard_oldest, trigger, deadband
    item,       \* the mutable fields of mu_monitored_item_t; item.produced is history
    source,     \* what the value source would return now
    received    \* history: number of the last report delivered

vars == <<params, item, source, received>>

NullValue == -1

Readings == {[good |-> TRUE, value |-> v] : v \in 0 .. MaxValue}
              \cup {[good |-> FALSE, value |-> NullValue]}

\* A mode outside OPC UA's three is stored unchecked; it samples and never reports.
Modes == {"disabled", "sampling", "reporting", "other"}

Triggers == {"status", "status_value"}

Slots == 0 .. Depth - 1

EmptySlot == [n |-> 0, overflow |-> FALSE]

-----------------------------------------------------------------------------
(* The ring of reports. *)

\* Mutant: a requested size of zero is kept.
ClampAboveOnly(size) == IF size > Depth THEN Depth ELSE size

Clamp(size) == IF size = 0 THEN 1 ELSE IF size > Depth THEN Depth ELSE size

QueueNext(index) == IF index + 1 >= params.queue_size THEN 0 ELSE index + 1

QueuePrevious(index) == IF index = 0 THEN params.queue_size - 1 ELSE index - 1

MarkOverflow(it, index) ==
    [it EXCEPT !.ring[index].overflow = TRUE, !.overflow = TRUE]

Put(it, index) ==
    [it EXCEPT !.ring[index] = [n |-> it.produced + 1, overflow |-> FALSE],
               !.produced = it.produced + 1]

StoreWithRoom(it) ==
    [Put(it, it.tail) EXCEPT !.tail = QueueNext(it.tail), !.count = it.count + 1]

\* Mutant: the new report is marked, not the one after the gap.
StoreOverOldestMarksNew(it) ==
    MarkOverflow([Put(it, it.tail) EXCEPT !.head = QueueNext(it.head), !.tail = QueueNext(it.tail)],
                 it.tail)

StoreOverOldest(it) ==
    LET newHead == QueueNext(it.head)
    IN  MarkOverflow([Put(it, it.tail) EXCEPT !.head = newHead, !.tail = QueueNext(it.tail)],
                     newHead)

\* Mutant: the report overwrites the slot at the tail.
StoreOverNewestAtTail(it) == MarkOverflow(Put(it, it.tail), it.tail)

StoreOverNewest(it) ==
    LET newest == QueuePrevious(it.tail) IN MarkOverflow(Put(it, newest), newest)

StoreReport(it) ==
    IF it.count < params.queue_size THEN StoreWithRoom(it)
    ELSE IF params.discard_oldest THEN StoreOverOldest(it)
    ELSE StoreOverNewest(it)

RecordReported(it, value) ==
    [it EXCEPT !.reported = IF value = NullValue THEN it.reported ELSE value,
               !.has_reported = TRUE]

EnqueueReport(it, value) ==
    LET stored == RecordReported(StoreReport(it), value)
    IN  [stored EXCEPT !.pending = stored.count > 0]

\* The value read at creation is pending but enters the ring only when needed there.
PreparePendingQueue(it) ==
    IF it.pending /\ it.count = 0 /\ it.has_value THEN EnqueueReport(it, it.last.value)
    ELSE IF it.has_value /\ ~it.has_reported THEN RecordReported(it, it.last.value)
    ELSE it

\* Mutant: the ring wraps at the array's length.
WrapAtDepth(index) == index % Depth

Wrap(index) == IF index >= params.queue_size THEN index - params.queue_size ELSE index

\* Mutant: an emptied ring leaves its item pending.
DrainLeavesPending(it, k) ==
    IF it.count = k THEN [it EXCEPT !.head = 0, !.tail = 0, !.count = 0, !.overflow = FALSE]
    ELSE [it EXCEPT !.head = Wrap(it.head + k), !.count = it.count - k, !.pending = TRUE]

DrainReportedEntries(it, k) ==
    IF it.count = k
      THEN [it EXCEPT !.head = 0, !.tail = 0, !.count = 0,
                      !.pending = FALSE, !.overflow = FALSE]
      ELSE [it EXCEPT !.head = Wrap(it.head + k), !.count = it.count - k, !.pending = TRUE]

-----------------------------------------------------------------------------
(* Sampling, the DataChange filter, and the ResendData read. *)

SampleChanged(it, cur) ==
    \/ cur.good # it.last.good
    \/ params.trigger = "status_value" /\ cur.value # it.last.value

Abs(x) == IF x < 0 THEN -x ELSE x

\* Mutant: a change by exactly the deadband is suppressed.
ChangeReportableBeyond(it, cur) ==
    \/ ~it.has_reported \/ cur.good # it.last.good \/ params.deadband = 0
    \/ NullValue \in {cur.value, it.last.value}
    \/ Abs(cur.value - it.reported) > params.deadband

ChangeReportable(it, cur) ==
    \/ ~it.has_reported
    \/ cur.good # it.last.good
    \/ params.deadband = 0
    \/ NullValue \in {cur.value, it.last.value}
    \/ Abs(cur.value - it.reported) >= params.deadband

\* The least next + k * interval, k >= 1, that lies in the future.
AdvanceSampleTimer(it) ==
    [it EXCEPT !.next = it.next + ((-it.next) \div it.interval + 1) * it.interval]

Sampled(it, cur) ==
    LET ready == IF it.has_value THEN PreparePendingQueue(it) ELSE it
        fresh == [ready EXCEPT !.last = cur, !.has_value = TRUE]
    IN  IF ~it.has_value \/ (SampleChanged(ready, cur) /\ ChangeReportable(ready, cur))
          THEN EnqueueReport(fresh, cur.value)
          ELSE ready

Resent(it, cur) ==
    LET value == IF ~cur.good /\ it.has_value THEN it.last.value ELSE cur.value
    IN  EnqueueReport([it EXCEPT !.last = [good |-> cur.good, value |-> value],
                                 !.has_value = TRUE],
                      value)

-----------------------------------------------------------------------------
(* The steps. *)

NewItem(cur, mode, interval) ==
    [ring |-> [i \in Slots |-> EmptySlot], head |-> 0, tail |-> 0, count |-> 0,
     overflow |-> FALSE, pending |-> cur.good, has_value |-> cur.good, has_reported |-> FALSE,
     last |-> cur, reported |-> 0, mode |-> mode, next |-> interval, interval |-> interval,
     produced |-> 0]

\* CreateMonitoredItems has just stored the item and read its first value.
Init ==
    /\ \E size \in RequestedSizes, oldest \in BOOLEAN, trigger \in Triggers, d \in Deadbands :
          params = [queue_size |-> Clamp(size), discard_oldest |-> oldest,
                    trigger |-> trigger, deadband |-> d]
    /\ \E cur \in Readings, mode \in Modes, interval \in Intervals :
          /\ item = NewItem(cur, mode, interval)
          /\ source = cur
    /\ received = 0

\* Two reports are the most a step enqueues.
WithinBound == item.produced + 2 <= MaxReports

Tick ==
    /\ WithinBound
    /\ item.mode # "disabled"
    /\ item.next <= 0
    /\ item' = AdvanceSampleTimer(Sampled(item, source))
    /\ UNCHANGED <<params, source, received>>

\* The ring after prepare_reportable_queues and, with the latch set, enqueue_resend_data.
ReadyToPublish(resend) ==
    LET ready == IF item.mode = "disabled" THEN item ELSE PreparePendingQueue(item)
    IN  IF resend /\ item.mode = "reporting" THEN Resent(ready, source) ELSE ready

\* The entries a response takes from the ring: none without a parked Publish request.
\* A sampling item is drained when an item that triggers it reports.
PublishCycle(resend, k) ==
    LET ready == ReadyToPublish(resend) IN
    /\ WithinBound
    /\ k <= ready.count
    /\ k > 0 => item.mode \in {"reporting", "sampling"}
    /\ item' = IF k = 0 THEN ready ELSE DrainReportedEntries(ready, k)
    /\ received' = IF k = 0 THEN received ELSE ready.ring[Wrap(ready.head + k - 1)].n
    /\ UNCHANGED <<params, source>>

SetMonitoringMode(mode) ==
    /\ item' = [item EXCEPT !.mode = mode]
    /\ UNCHANGED <<params, source, received>>

ModifyMonitoredItem(interval) ==
    /\ item' = [item EXCEPT !.interval = interval]
    /\ UNCHANGED <<params, source, received>>

SourceChanges(cur) ==
    /\ source' = cur
    /\ UNCHANGED <<params, item, received>>

\* Lateness counts modulo Period, which AdvanceSampleTimer cannot tell apart.
Elapse(d) ==
    LET next == item.next - d IN
    /\ item' = [item EXCEPT !.next = IF next > 0 THEN next ELSE -((-next) % Period)]
    /\ UNCHANGED <<params, source, received>>

Next ==
    \/ Tick
    \/ \E resend \in BOOLEAN, k \in 0 .. Depth : PublishCycle(resend, k)
    \/ \E mode \in Modes : SetMonitoringMode(mode)
    \/ \E interval \in Intervals : ModifyMonitoredItem(interval)
    \/ \E cur \in Readings : SourceChanges(cur)
    \/ \E d \in 1 .. MaxElapsed : Elapse(d)

Spec == Init /\ [][Next]_vars

-----------------------------------------------------------------------------
(* Properties. *)

Entry == [n : Nat, overflow : BOOLEAN]

\* The last value outlives a failed ResendData read: good and value are independent then.
LastRead == Readings \cup [good : BOOLEAN, value : 0 .. MaxValue]

ItemStates ==
    [ring : [Slots -> Entry], head : Slots, tail : Slots, count : 0 .. Depth,
     overflow : BOOLEAN, pending : BOOLEAN, has_value : BOOLEAN, has_reported : BOOLEAN,
     last : LastRead, reported : 0 .. MaxValue, mode : Modes, next : Int,
     interval : Nat \ {0}, produced : Nat]

\* Every field holds a value of its C type within the array bounds it indexes.
TypeOK ==
    /\ params \in [queue_size : 1 .. Depth, discard_oldest : BOOLEAN,
                   trigger : Triggers, deadband : Nat]
    /\ item \in ItemStates
    /\ source \in Readings
    /\ received \in Nat

\* The ring's three counters describe one stretch of slots inside the revised queue
\* size: tail is count slots after head, whatever mix of overflowing reports
\* (monitored_item_enqueue_report) and partial drains
\* (monitored_item_drain_reported_entries) came before.
RingConsistent ==
    /\ item.head < params.queue_size
    /\ item.tail < params.queue_size
    /\ item.count <= params.queue_size
    /\ item.tail \in {item.head + item.count, item.head + item.count - params.queue_size}
    /\ item.overflow => item.count > 0

\* A pending item always has something to publish: entries in the ring or, before the
\* first report, the value of its creation.  Otherwise monitored_item_reportable would
\* call it reportable for ever and no response could clear it.
PendingHasReport ==
    /\ item.count > 0 => item.pending
    /\ item.pending /\ item.count = 0 => item.has_value /\ ~item.has_reported

\* The waiting reports, oldest first.
Contents == [i \in 1 .. item.count |-> item.ring[Wrap(item.head + i - 1)]]

\* A subscriber that sees no Overflow bit has missed no report: in the ring a report is
\* the successor of the one before it (of the last delivered one, for the head) unless it
\* carries the bit that monitored_item_mark_overflow sets; and the newest report made is
\* the last one in the ring.
GapsAreMarked ==
    LET before(i) == IF i = 1 THEN received ELSE Contents[i - 1].n IN
    /\ \A i \in 1 .. item.count :
          IF Contents[i].overflow THEN Contents[i].n > before(i) + 1
                                  ELSE Contents[i].n = before(i) + 1
    /\ item.produced = IF item.count = 0 THEN received ELSE Contents[item.count].n

\* When a due sample of a good value ends, the value last reported is closer to the
\* sampled one than the deadband (equal to it without a deadband), however the value
\* drifted in the samples that were suppressed; a change of status is never suppressed.
FilterHonest ==
    [][Tick => /\ item'.last.good = source.good
               /\ source.good /\ params.trigger = "status_value" =>
                    \/ item'.reported = source.value
                    \/ Abs(item'.reported - source.value) < params.deadband]_vars

\* Nothing is reported twice: beside the first report of the item, a due sample makes a
\* report only when the source differs from what was read last, and a publishing cycle
\* without ResendData makes none.  So the value of the creation, which is pending before
\* it is in the ring, is reported once, whichever of the two comes first and whatever
\* mode changes and drains lie in between (monitored_item_prepare_pending_queue).
OnlyNewsReported ==
    [][LET first == IF item.has_reported THEN 0 ELSE 1
           news  == IF source # item.last THEN 1 ELSE 0
       IN  item'.produced > item.produced + first =>
             /\ Tick => item'.produced = item.produced + first + news
             /\ \A k \in 0 .. Depth : ~PublishCycle(FALSE, k)]_vars

\* The ring implements the bounded FIFO of reports that ReportQueue specifies.
Queue == INSTANCE ReportQueue WITH size <- params.queue_size,
            discardOldest <- params.discard_oldest, queue <- Contents,
            produced <- item.produced, received <- received

RefinesReportQueue == Queue!Spec
=============================================================================
