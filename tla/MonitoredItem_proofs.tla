------------------------ MODULE MonitoredItem_proofs ------------------------
(***************************************************************************)
(* Proofs about MonitoredItem: the ring's counters and the pending flag.    *)
(* ItemOK is inductive per operation on an item record; the invariant is    *)
(* that it holds of the item.                                               *)
(***************************************************************************)
EXTENDS MonitoredItem, TLAPS

USE DepthAssumption, SizesAssumption, ValueAssumption, TimeAssumption
    DEF DepthAssumption, SizesAssumption, ValueAssumption, TimeAssumption

Size == params.queue_size

RingOK(it) ==
    /\ it.head < Size /\ it.tail < Size /\ it.count <= Size
    /\ it.tail \in {it.head + it.count, it.head + it.count - Size}
    /\ it.overflow => it.count > 0

PendingOK(it) ==
    /\ it.count > 0 => it.pending
    /\ it.pending /\ it.count = 0 => it.has_value /\ ~it.has_reported

ItemOK(it) == it \in ItemStates /\ RingOK(it) /\ PendingOK(it)

ParamsOK == params \in [queue_size : 1 .. Depth, discard_oldest : BOOLEAN,
                        trigger : Triggers, deadband : Nat]

\* The revised queue size is at least one and at most the depth of the array.
LEMMA SizeType ==
    ASSUME ParamsOK
    PROVE  Size \in Nat /\ Size >= 1 /\ Size <= Depth
BY DEF ParamsOK, Size

\* The index steps stay inside the revised queue.
LEMMA IndexSteps ==
    ASSUME ParamsOK, NEW index \in Slots, index < Size
    PROVE  /\ QueueNext(index) = IF index + 1 = Size THEN 0 ELSE index + 1
           /\ QueueNext(index) \in Slots /\ QueueNext(index) < Size
           /\ QueuePrevious(index) \in Slots /\ QueuePrevious(index) < Size
<1>1. Size \in Nat /\ Size >= 1 /\ Size <= Depth /\ index \in Nat
    BY SizeType DEF Slots
<1> QED
    BY <1>1 DEF QueueNext, QueuePrevious, Slots, Size

\* Writing a report into a slot changes no counter.
LEMMA PutFields ==
    ASSUME NEW it \in ItemStates, NEW index \in Slots
    PROVE  /\ Put(it, index) \in ItemStates
           /\ Put(it, index).head = it.head /\ Put(it, index).tail = it.tail
           /\ Put(it, index).count = it.count /\ Put(it, index).overflow = it.overflow
<1>1. it.produced + 1 \in Nat
    BY DEF ItemStates
<1>2. [n |-> it.produced + 1, overflow |-> FALSE] \in Entry
    BY <1>1 DEF Entry
<1>3. [it.ring EXCEPT ![index] = [n |-> it.produced + 1, overflow |-> FALSE]] \in [Slots -> Entry]
    BY <1>2 DEF ItemStates
<1>4. Put(it, index) = [it EXCEPT
          !.ring = [it.ring EXCEPT ![index] = [n |-> it.produced + 1, overflow |-> FALSE]],
          !.produced = it.produced + 1]
    BY DEF Put
<1> QED
    BY <1>1, <1>3, <1>4, ZenonT(30) DEF ItemStates

\* Setting the Overflow bit changes no counter.
LEMMA MarkFields ==
    ASSUME NEW it \in ItemStates, NEW index \in Slots
    PROVE  /\ MarkOverflow(it, index) \in ItemStates
           /\ MarkOverflow(it, index).head = it.head /\ MarkOverflow(it, index).tail = it.tail
           /\ MarkOverflow(it, index).count = it.count
<1>1. it.ring \in [Slots -> Entry]
    BY DEF ItemStates
<1>2. [it.ring[index] EXCEPT !.overflow = TRUE] \in Entry
    BY <1>1, Zenon DEF Entry
<1>3. [it.ring EXCEPT ![index] = [it.ring[index] EXCEPT !.overflow = TRUE]] \in [Slots -> Entry]
    BY <1>1, <1>2
<1>4. MarkOverflow(it, index) = [it EXCEPT
          !.ring = [it.ring EXCEPT ![index] = [it.ring[index] EXCEPT !.overflow = TRUE]],
          !.overflow = TRUE]
    BY DEF MarkOverflow
<1> QED
    BY <1>3, <1>4, ZenonT(30) DEF ItemStates

\* However full the ring is, storing a report leaves its counters consistent and the
\* ring not empty.
LEMMA StoreReportOK ==
    ASSUME ParamsOK, NEW it \in ItemStates, RingOK(it)
    PROVE  StoreReport(it) \in ItemStates /\ RingOK(StoreReport(it)) /\ StoreReport(it).count > 0
<1>1. /\ Size \in Nat /\ Size >= 1 /\ Size <= Depth
      /\ it.head \in Slots /\ it.tail \in Slots /\ it.count \in Nat
      /\ it.head \in Nat /\ it.tail \in Nat
    BY SizeType DEF ItemStates, Slots
<1>2. it.head < Size /\ it.tail < Size /\ it.count <= Size
    BY DEF RingOK
<1>3. /\ QueueNext(it.tail) = IF it.tail + 1 = Size THEN 0 ELSE it.tail + 1
      /\ QueueNext(it.head) = IF it.head + 1 = Size THEN 0 ELSE it.head + 1
      /\ QueueNext(it.tail) \in Slots /\ QueueNext(it.tail) < Size
      /\ QueueNext(it.head) \in Slots /\ QueueNext(it.head) < Size
      /\ QueuePrevious(it.tail) \in Slots
    BY <1>1, <1>2, IndexSteps
<1>4. CASE it.count < Size
    <2> DEFINE put == Put(it, it.tail)
               new == [put EXCEPT !.tail = QueueNext(it.tail), !.count = it.count + 1]
    <2>1. put \in ItemStates /\ put.head = it.head /\ put.overflow = it.overflow
        BY <1>1, PutFields
    <2>2. it.count + 1 \in 0 .. Depth
        BY <1>1, <1>4
    <2> HIDE DEF put
    <2>3. /\ new \in ItemStates /\ new.head = it.head /\ new.tail = QueueNext(it.tail)
          /\ new.count = it.count + 1 /\ new.overflow = it.overflow
        BY <1>3, <2>1, <2>2, Zenon DEF ItemStates
    <2>4. StoreReport(it) = new
        BY <1>4 DEF StoreReport, StoreWithRoom, put, Size
    <2> HIDE DEF new
    <2>5. RingOK(new)
        BY <1>1, <1>2, <1>3, <1>4, <2>3 DEF RingOK
    <2> QED
        BY <1>1, <2>3, <2>4, <2>5
<1>5. CASE ~(it.count < Size)
    <2>0. it.tail = it.head + it.count \/ it.tail = it.head + it.count - Size
        BY DEF RingOK
    <2>1. it.count = Size /\ it.tail = it.head
        BY <1>1, <1>2, <1>5, <2>0
    <2>2. CASE params.discard_oldest
        <3> DEFINE put == Put(it, it.tail)
                   moved == [put EXCEPT !.head = QueueNext(it.head), !.tail = QueueNext(it.tail)]
                   new == MarkOverflow(moved, QueueNext(it.head))
        <3>1. put \in ItemStates /\ put.count = it.count
            BY <1>1, PutFields
        <3> HIDE DEF put
        <3>2. /\ moved \in ItemStates /\ moved.count = it.count
              /\ moved.head = QueueNext(it.head) /\ moved.tail = QueueNext(it.tail)
            BY <1>3, <3>1, Zenon DEF ItemStates
        <3> HIDE DEF moved
        <3>3. /\ new \in ItemStates /\ new.count = it.count
              /\ new.head = QueueNext(it.head) /\ new.tail = QueueNext(it.tail)
            BY <1>3, <3>2, MarkFields
        <3>4. StoreReport(it) = new
            BY <1>5, <2>2 DEF StoreReport, StoreOverOldest, moved, put, Size
        <3> HIDE DEF new
        <3> QED
            BY <1>1, <1>3, <2>1, <3>3, <3>4 DEF RingOK
    <2>3. CASE ~params.discard_oldest
        <3> DEFINE newest == QueuePrevious(it.tail)
                   put == Put(it, newest)
                   new == MarkOverflow(put, newest)
        <3>1. /\ put \in ItemStates /\ put.count = it.count /\ put.head = it.head
              /\ put.tail = it.tail
            BY <1>3, PutFields
        <3> HIDE DEF put
        <3>2. /\ new \in ItemStates /\ new.count = it.count /\ new.head = it.head
              /\ new.tail = it.tail
            BY <1>3, <3>1, MarkFields
        <3>3. StoreReport(it) = new
            BY <1>5, <2>3 DEF StoreReport, StoreOverNewest, put, Size
        <3> HIDE DEF new
        <3> QED
            BY <1>1, <1>2, <2>1, <3>2, <3>3 DEF RingOK
    <2> QED
        BY <2>2, <2>3
<1> QED
    BY <1>4, <1>5

ValueOrNull == {NullValue} \cup 0 .. MaxValue

\* Recording what was reported touches neither the ring nor the pending flag.
LEMMA RecordReportedFields ==
    ASSUME NEW it \in ItemStates, NEW value \in ValueOrNull
    PROVE  LET new == RecordReported(it, value) IN
           /\ new \in ItemStates /\ new.head = it.head /\ new.tail = it.tail
           /\ new.count = it.count /\ new.overflow = it.overflow /\ new.pending = it.pending
<1>1. (IF value = NullValue THEN it.reported ELSE value) \in 0 .. MaxValue
    BY DEF ItemStates, ValueOrNull
<1> QED
    BY <1>1, Zenon DEF RecordReported, ItemStates

\* Enqueueing a report leaves the item consistent, whether or not its pending flag was.
LEMMA EnqueueReportOK ==
    ASSUME ParamsOK, NEW it \in ItemStates, RingOK(it), NEW value \in ValueOrNull
    PROVE  ItemOK(EnqueueReport(it, value))
<1> DEFINE stored == RecordReported(StoreReport(it), value)
           new == [stored EXCEPT !.pending = stored.count > 0]
<1>1. /\ StoreReport(it) \in ItemStates /\ RingOK(StoreReport(it)) /\ StoreReport(it).count > 0
    BY StoreReportOK
<1>2. /\ stored \in ItemStates /\ stored.head = StoreReport(it).head
      /\ stored.tail = StoreReport(it).tail /\ stored.count = StoreReport(it).count
      /\ stored.overflow = StoreReport(it).overflow
    BY <1>1, RecordReportedFields
<1>3. EnqueueReport(it, value) = new
    BY DEF EnqueueReport
<1> HIDE DEF stored
<1>4. RingOK(stored) /\ stored.count > 0
    BY <1>1, <1>2 DEF RingOK
<1>5. /\ new \in ItemStates /\ new.head = stored.head /\ new.tail = stored.tail
      /\ new.count = stored.count /\ new.overflow = stored.overflow /\ new.pending
    BY <1>2, <1>4, Zenon DEF ItemStates
<1> HIDE DEF new
<1>6. stored.count \in Nat
    BY <1>2 DEF ItemStates
<1> QED
    BY <1>3, <1>4, <1>5, <1>6 DEF ItemOK, RingOK, PendingOK

\* Writing a slot makes one report, marking it none; both keep what was read.
LEMMA SlotEffect ==
    ASSUME NEW it \in ItemStates, NEW index \in Slots
    PROVE  /\ Put(it, index).produced = it.produced + 1
           /\ Put(it, index).last = it.last /\ Put(it, index).has_value = it.has_value
           /\ MarkOverflow(it, index).produced = it.produced
           /\ MarkOverflow(it, index).last = it.last
           /\ MarkOverflow(it, index).has_value = it.has_value
BY Zenon DEF Put, MarkOverflow, ItemStates

\* Storing makes one report, also over an older one.
LEMMA StoreEffect ==
    ASSUME ParamsOK, NEW it \in ItemStates, RingOK(it)
    PROVE  LET new == StoreReport(it) IN
           new.produced = it.produced + 1 /\ new.last = it.last /\ new.has_value = it.has_value
<1>1. it.head \in Slots /\ it.tail \in Slots /\ it.head < Size /\ it.tail < Size
    BY DEF ItemStates, RingOK
<1>2. /\ QueueNext(it.tail) \in Slots /\ QueueNext(it.head) \in Slots
      /\ QueuePrevious(it.tail) \in Slots
    BY <1>1, IndexSteps
<1>3. CASE it.count < Size
    <2> DEFINE put == Put(it, it.tail)
    <2>1. /\ put \in ItemStates /\ put.produced = it.produced + 1
          /\ put.last = it.last /\ put.has_value = it.has_value
        BY <1>1, PutFields, SlotEffect
    <2>2. StoreReport(it) = [put EXCEPT !.tail = QueueNext(it.tail), !.count = it.count + 1]
        BY <1>3 DEF StoreReport, StoreWithRoom, Size
    <2> HIDE DEF put
    <2> QED
        BY <2>1, <2>2, Zenon DEF ItemStates
<1>4. CASE ~(it.count < Size) /\ params.discard_oldest
    <2> DEFINE put == Put(it, it.tail)
               moved == [put EXCEPT !.head = QueueNext(it.head), !.tail = QueueNext(it.tail)]
    <2>1. /\ put \in ItemStates /\ put.produced = it.produced + 1
          /\ put.last = it.last /\ put.has_value = it.has_value
        BY <1>1, PutFields, SlotEffect
    <2>2. StoreReport(it) = MarkOverflow(moved, QueueNext(it.head))
        BY <1>4 DEF StoreReport, StoreOverOldest, Size
    <2> HIDE DEF put
    <2>3. /\ moved \in ItemStates /\ moved.produced = it.produced + 1
          /\ moved.last = it.last /\ moved.has_value = it.has_value
        BY <1>2, <2>1, Zenon DEF ItemStates
    <2> HIDE DEF moved
    <2> QED
        BY <1>2, <2>2, <2>3, SlotEffect
<1>5. CASE ~(it.count < Size) /\ ~params.discard_oldest
    <2> DEFINE put == Put(it, QueuePrevious(it.tail))
    <2>1. /\ put \in ItemStates /\ put.produced = it.produced + 1
          /\ put.last = it.last /\ put.has_value = it.has_value
        BY <1>2, PutFields, SlotEffect
    <2>2. StoreReport(it) = MarkOverflow(put, QueuePrevious(it.tail))
        BY <1>5 DEF StoreReport, StoreOverNewest, Size
    <2> HIDE DEF put
    <2> QED
        BY <1>2, <2>1, <2>2, SlotEffect
<1> QED
    BY <1>3, <1>4, <1>5

\* Recording what was reported makes no report.
LEMMA RecordEffect ==
    ASSUME NEW it \in ItemStates, NEW value
    PROVE  LET new == RecordReported(it, value) IN
           new.produced = it.produced /\ new.last = it.last /\ new.has_value = it.has_value
BY Zenon DEF RecordReported, ItemStates

\* Enqueueing makes exactly one report.
LEMMA EnqueueEffect ==
    ASSUME ParamsOK, NEW it \in ItemStates, RingOK(it), NEW value \in ValueOrNull
    PROVE  LET new == EnqueueReport(it, value) IN
           new.produced = it.produced + 1 /\ new.last = it.last /\ new.has_value = it.has_value
<1> DEFINE stored == RecordReported(StoreReport(it), value)
<1>1. /\ stored \in ItemStates /\ stored.produced = it.produced + 1
      /\ stored.last = it.last /\ stored.has_value = it.has_value
    BY StoreReportOK, StoreEffect, RecordEffect, RecordReportedFields
<1>2. EnqueueReport(it, value) = [stored EXCEPT !.pending = stored.count > 0]
    BY DEF EnqueueReport
<1> HIDE DEF stored
<1> QED
    BY <1>1, <1>2, Zenon DEF ItemStates

-----------------------------------------------------------------------------
(* The operations on the item. *)

\* The last value read is a value of the variable or null.
LEMMA LastValueType ==
    ASSUME NEW it \in ItemStates
    PROVE  it.last.value \in ValueOrNull /\ it.last \in LastRead
<1>1. it.last \in LastRead
    BY DEF ItemStates
<1>2. ASSUME NEW read \in LastRead PROVE read.value \in ValueOrNull
    BY DEF LastRead, Readings, ValueOrNull
<1> QED
    BY <1>1, <1>2

\* Taking the value of the creation into the ring, or for reported, keeps the item consistent.
LEMMA PreparePendingQueueOK ==
    ASSUME ParamsOK, NEW it, ItemOK(it)
    PROVE  ItemOK(PreparePendingQueue(it))
<1>1. it \in ItemStates /\ RingOK(it) /\ it.last.value \in ValueOrNull
    BY LastValueType DEF ItemOK
<1>2. CASE it.pending /\ it.count = 0 /\ it.has_value
    BY <1>1, <1>2, EnqueueReportOK DEF PreparePendingQueue
<1>3. CASE ~(it.pending /\ it.count = 0 /\ it.has_value) /\ it.has_value /\ ~it.has_reported
    <2> DEFINE new == RecordReported(it, it.last.value)
    <2>1. /\ new \in ItemStates /\ new.head = it.head /\ new.tail = it.tail
          /\ new.count = it.count /\ new.overflow = it.overflow /\ new.pending = it.pending
        BY <1>1, RecordReportedFields
    <2>2. PreparePendingQueue(it) = new
        BY <1>3 DEF PreparePendingQueue
    <2> HIDE DEF new
    <2>3. RingOK(new)
        BY <1>1, <2>1 DEF RingOK
    <2>4. PendingOK(new)
        BY <1>3, <2>1 DEF ItemOK, PendingOK
    <2> QED
        BY <2>1, <2>2, <2>3, <2>4 DEF ItemOK
<1>4. CASE ~(it.pending /\ it.count = 0 /\ it.has_value) /\ ~(it.has_value /\ ~it.has_reported)
    BY <1>4 DEF PreparePendingQueue
<1> QED
    BY <1>2, <1>3, <1>4

\* Storing a reading changes no counter.
LEMMA ReadingFields ==
    ASSUME NEW it \in ItemStates, NEW read \in LastRead, RingOK(it)
    PROVE  LET new == [it EXCEPT !.last = read, !.has_value = TRUE] IN
           new \in ItemStates /\ RingOK(new)
<1> DEFINE new == [it EXCEPT !.last = read, !.has_value = TRUE]
<1>1. /\ new \in ItemStates /\ new.head = it.head /\ new.tail = it.tail
      /\ new.count = it.count /\ new.overflow = it.overflow
    BY Zenon DEF ItemStates
<1> HIDE DEF new
<1>2. RingOK(new)
    BY <1>1 DEF RingOK
<1> QED
    BY <1>1, <1>2 DEF new

\* A reading is a last value, good or null.
LEMMA ReadingType ==
    ASSUME NEW cur \in Readings
    PROVE  /\ cur \in LastRead /\ cur.value \in ValueOrNull /\ cur.good \in BOOLEAN
           /\ cur.good => cur.value \in 0 .. MaxValue
<1>1. CASE cur = [good |-> FALSE, value |-> NullValue]
    BY <1>1 DEF LastRead, ValueOrNull
<1>2. CASE \E v \in 0 .. MaxValue : cur = [good |-> TRUE, value |-> v]
    BY <1>2 DEF LastRead, ValueOrNull
<1> QED
    BY <1>1, <1>2 DEF Readings

\* A due sample keeps the item consistent.
LEMMA SampledOK ==
    ASSUME ParamsOK, NEW it, ItemOK(it), NEW cur \in Readings
    PROVE  ItemOK(Sampled(it, cur))
<1> DEFINE ready == IF it.has_value THEN PreparePendingQueue(it) ELSE it
           fresh == [ready EXCEPT !.last = cur, !.has_value = TRUE]
<1>1. ItemOK(ready)
    BY PreparePendingQueueOK
<1>2. ready \in ItemStates /\ RingOK(ready)
    BY <1>1 DEF ItemOK
<1> HIDE DEF ready
<1>3. fresh \in ItemStates /\ RingOK(fresh)
    BY <1>2, ReadingType, ReadingFields, Zenon
<1> HIDE DEF fresh
<1>4. ItemOK(EnqueueReport(fresh, cur.value))
    BY <1>3, ReadingType, EnqueueReportOK
<1> QED
    BY <1>1, <1>4 DEF Sampled, ready, fresh

\* A resent value keeps the item consistent, and it has a value then; a failed read keeps
\* the last one.
LEMMA ResentOK ==
    ASSUME ParamsOK, NEW it, ItemOK(it), NEW cur \in Readings
    PROVE  ItemOK(Resent(it, cur)) /\ Resent(it, cur).has_value
<1> DEFINE value == IF ~cur.good /\ it.has_value THEN it.last.value ELSE cur.value
           read == [good |-> cur.good, value |-> value]
           fresh == [it EXCEPT !.last = read, !.has_value = TRUE]
<1>1. it \in ItemStates /\ RingOK(it)
    BY DEF ItemOK
<1>2. value \in ValueOrNull /\ (cur.good => value \in 0 .. MaxValue)
    BY <1>1, LastValueType, ReadingType
<1>3. cur.good \in BOOLEAN
    BY ReadingType
<1> HIDE DEF value
<1>4. read \in LastRead
    <2>1. CASE value \in 0 .. MaxValue
        BY <1>3, <2>1 DEF LastRead
    <2>2. CASE value \notin 0 .. MaxValue
        <3>1. value = NullValue /\ cur.good = FALSE
            BY <1>2, <1>3, <2>2 DEF ValueOrNull
        <3> QED
            BY <3>1, Zenon DEF LastRead, Readings
    <2> QED
        BY <2>1, <2>2
<1> HIDE DEF read
<1>5. fresh \in ItemStates /\ RingOK(fresh) /\ fresh.has_value
    BY <1>1, <1>4, ReadingFields, Zenon DEF ItemStates
<1> HIDE DEF fresh
<1>6. ItemOK(EnqueueReport(fresh, value)) /\ EnqueueReport(fresh, value).has_value
    BY <1>2, <1>5, EnqueueReportOK, EnqueueEffect
<1> QED
    BY <1>6 DEF Resent, fresh, read, value

\* A partial drain moves the head around the ring; a full one empties it.
LEMMA DrainOK ==
    ASSUME ParamsOK, NEW it, ItemOK(it), NEW k \in Nat, k > 0, k <= it.count
    PROVE  /\ ItemOK(DrainReportedEntries(it, k))
           /\ Wrap(it.head + k - 1) \in Slots
<1>1. /\ Size \in Nat /\ Size >= 1 /\ Size <= Depth /\ it \in ItemStates
      /\ it.head \in Nat /\ it.tail \in Nat /\ it.count \in Nat /\ it.count <= Depth
      /\ it.head < Size /\ it.tail < Size /\ it.count <= Size
      /\ it.tail = it.head + it.count \/ it.tail = it.head + it.count - Size
    BY SizeType DEF ItemOK, RingOK, ItemStates, Slots
<1>2. \A index \in Nat : Wrap(index) = IF index >= Size THEN index - Size ELSE index
    BY DEF Wrap, Size
<1>3. Wrap(it.head + k - 1) \in Slots /\ Wrap(it.head + k) \in Slots
    BY <1>1, <1>2 DEF Slots
<1>4. CASE it.count = k
    <2> DEFINE new == [it EXCEPT !.head = 0, !.tail = 0, !.count = 0,
                                 !.pending = FALSE, !.overflow = FALSE]
    <2>1. 0 \in Slots /\ 0 \in 0 .. Depth
        BY DEF Slots
    <2>2. /\ new \in ItemStates /\ new.head = 0 /\ new.tail = 0 /\ new.count = 0
          /\ ~new.pending /\ ~new.overflow
        BY <1>1, <2>1, Zenon DEF ItemStates
    <2>3. DrainReportedEntries(it, k) = new
        BY <1>4 DEF DrainReportedEntries
    <2> HIDE DEF new
    <2>4. RingOK(new) /\ PendingOK(new)
        BY <1>1, <2>2 DEF RingOK, PendingOK
    <2> QED
        BY <1>3, <2>2, <2>3, <2>4 DEF ItemOK
<1>5. CASE it.count # k
    <2> DEFINE h == Wrap(it.head + k)
               new == [it EXCEPT !.head = h, !.count = it.count - k, !.pending = TRUE]
    <2>1. h = IF it.head + k >= Size THEN it.head + k - Size ELSE it.head + k
        BY <1>1, <1>2
    <2>2. h \in Slots /\ it.count - k \in 0 .. Depth
        BY <1>1, <1>3
    <2>3. DrainReportedEntries(it, k) = new
        BY <1>5 DEF DrainReportedEntries
    <2> HIDE DEF h
    <2>4. /\ new \in ItemStates /\ new.head = h /\ new.tail = it.tail
          /\ new.count = it.count - k /\ new.pending
        BY <1>1, <2>2, Zenon DEF ItemStates
    <2> HIDE DEF new
    <2>5. /\ new.head < Size /\ new.tail < Size /\ new.count <= Size /\ new.count > 0
          /\ new.tail = new.head + new.count \/ new.tail = new.head + new.count - Size
        BY <1>1, <1>5, <2>1, <2>4
    <2>6. RingOK(new) /\ PendingOK(new)
        BY <1>1, <1>5, <2>4, <2>5 DEF RingOK, PendingOK
    <2> QED
        BY <1>3, <2>3, <2>4, <2>6 DEF ItemOK
<1> QED
    BY <1>4, <1>5

(* Mode, interval and timer are independent of the ring. *)

\* SetMonitoringMode's update.
LEMMA ModeOK ==
    ASSUME NEW it, ItemOK(it), NEW mode \in Modes
    PROVE  ItemOK([it EXCEPT !.mode = mode])
BY DEF ItemOK, RingOK, PendingOK, ItemStates

\* ModifyMonitoredItems' update.
LEMMA IntervalOK ==
    ASSUME NEW it, ItemOK(it), NEW interval \in Intervals
    PROVE  ItemOK([it EXCEPT !.interval = interval])
BY DEF ItemOK, RingOK, PendingOK, ItemStates

\* The sample timer's update.
LEMMA NextOK ==
    ASSUME NEW it, ItemOK(it), NEW next \in Int
    PROVE  ItemOK([it EXCEPT !.next = next])
BY DEF ItemOK, RingOK, PendingOK, ItemStates

-----------------------------------------------------------------------------
(* The invariant. *)

IInv == TypeOK /\ RingConsistent /\ PendingHasReport

\* The invariant says of the item what the lemmas above preserve.
LEMMA InvIsItemOK ==
    IInv <=> ParamsOK /\ ItemOK(item) /\ source \in Readings /\ received \in Nat
BY DEF IInv, TypeOK, RingConsistent, PendingHasReport, ParamsOK, ItemOK, RingOK, PendingOK, Size

\* A newly created item is consistent.
LEMMA InitInv == Init => IInv
<1> SUFFICES ASSUME Init PROVE IInv
    OBVIOUS
<1>1. ParamsOK
    <2>1. PICK size \in RequestedSizes, oldest \in BOOLEAN, trigger \in Triggers, d \in Deadbands :
              params = [queue_size |-> Clamp(size), discard_oldest |-> oldest,
                        trigger |-> trigger, deadband |-> d]
        BY DEF Init
    <2>2. Clamp(size) \in 1 .. Depth
        BY DEF Clamp
    <2> QED
        BY <2>1, <2>2 DEF ParamsOK
<1>2. PICK cur \in Readings, mode \in Modes, interval \in Intervals :
          item = NewItem(cur, mode, interval) /\ source = cur
    BY DEF Init
<1>3. item \in ItemStates
    <2>1. cur \in LastRead /\ cur.good \in BOOLEAN
        BY ReadingType
    <2>2. /\ [i \in Slots |-> EmptySlot] \in [Slots -> Entry]
          /\ 0 \in Slots /\ 0 \in 0 .. Depth /\ 0 \in 0 .. MaxValue
          /\ interval \in Int /\ interval \in Nat \ {0}
        BY DEF EmptySlot, Entry, Slots
    <2> QED
        BY <1>2, <2>1, <2>2 DEF NewItem, ItemStates
<1>4. /\ item.head = 0 /\ item.tail = 0 /\ item.count = 0 /\ ~item.overflow
      /\ item.pending = cur.good /\ item.has_value = cur.good /\ ~item.has_reported
    BY <1>2 DEF NewItem
<1>5. RingOK(item) /\ PendingOK(item)
    BY <1>1, <1>4, SizeType DEF RingOK, PendingOK
<1> QED
    BY <1>1, <1>2, <1>3, <1>5, InvIsItemOK DEF ItemOK, Init

\* Preparing the ring for a publishing cycle, with or without ResendData, keeps the item
\* consistent.
LEMMA ReadyToPublishOK ==
    ASSUME ParamsOK, ItemOK(item), source \in Readings, NEW resend
    PROVE  ItemOK(ReadyToPublish(resend))
<1> DEFINE ready == IF item.mode = "disabled" THEN item ELSE PreparePendingQueue(item)
<1>1. ItemOK(ready)
    BY PreparePendingQueueOK
<1> HIDE DEF ready
<1>2. ItemOK(Resent(ready, source))
    BY <1>1, ResentOK
<1> QED
    BY <1>1, <1>2 DEF ReadyToPublish, ready

\* Every step keeps the item consistent.
LEMMA NextInv ==
    ASSUME IInv, [Next]_vars
    PROVE  IInv'
<1>1. ParamsOK /\ ItemOK(item) /\ source \in Readings /\ received \in Nat
    BY InvIsItemOK
<1>2. /\ item \in ItemStates /\ item.next \in Int
    BY <1>1 DEF ItemOK, ItemStates
<1> SUFFICES /\ UNCHANGED params /\ ItemOK(item)'
             /\ source' \in Readings /\ received' \in Nat
    <2>1. (IInv <=> ParamsOK /\ ItemOK(item) /\ source \in Readings /\ received \in Nat)'
        BY InvIsItemOK, PTL
    <2> QED
        BY <1>1, <2>1 DEF ParamsOK
<1>3. ASSUME UNCHANGED params, NEW new, ItemOK(new), item' = new
      PROVE  ItemOK(item)'
    BY <1>3 DEF ItemOK, RingOK, PendingOK, Size
<1>4. CASE Tick
    <2> DEFINE sampled == Sampled(item, source)
               next == sampled.next + ((-sampled.next) \div sampled.interval + 1) * sampled.interval
    <2>1. ItemOK(sampled)
        BY <1>1, SampledOK
    <2> HIDE DEF sampled
    <2>2. sampled.next \in Int /\ sampled.interval \in Nat \ {0}
        BY <2>1 DEF ItemOK, ItemStates
    <2>3. next \in Int
        BY <2>2
    <2>4. item' = [sampled EXCEPT !.next = next]
        BY <1>4 DEF Tick, AdvanceSampleTimer, sampled
    <2> HIDE DEF next
    <2>5. ItemOK([sampled EXCEPT !.next = next])
        BY <2>1, <2>3, NextOK
    <2> QED
        BY <1>1, <1>3, <1>4, <2>4, <2>5 DEF Tick
<1>5. ASSUME NEW resend \in BOOLEAN, NEW k \in 0 .. Depth, PublishCycle(resend, k)
      PROVE  ItemOK(item)' /\ received' \in Nat
    <2> DEFINE ready == ReadyToPublish(resend)
    <2>1. ItemOK(ready)
        BY <1>1, ReadyToPublishOK
    <2>2. /\ k <= ready.count /\ UNCHANGED params
          /\ item' = IF k = 0 THEN ready ELSE DrainReportedEntries(ready, k)
          /\ received' = IF k = 0 THEN received ELSE ready.ring[Wrap(ready.head + k - 1)].n
        BY <1>5 DEF PublishCycle
    <2> HIDE DEF ready
    <2>3. CASE k = 0
        BY <1>1, <1>3, <2>1, <2>2, <2>3
    <2>4. CASE k # 0
        <3>1. ItemOK(DrainReportedEntries(ready, k)) /\ Wrap(ready.head + k - 1) \in Slots
            BY <1>1, <2>1, <2>2, <2>4, DrainOK
        <3>2. ready.ring \in [Slots -> Entry]
            BY <2>1 DEF ItemOK, ItemStates
        <3>3. ready.ring[Wrap(ready.head + k - 1)].n \in Nat
            BY <3>1, <3>2 DEF Entry
        <3> QED
            BY <1>3, <2>2, <2>4, <3>1, <3>3
    <2> QED
        BY <2>3, <2>4
<1>6. ASSUME NEW mode \in Modes, SetMonitoringMode(mode)
      PROVE  ItemOK(item)'
    BY <1>1, <1>3, <1>6, ModeOK DEF SetMonitoringMode
<1>7. ASSUME NEW interval \in Intervals, ModifyMonitoredItem(interval)
      PROVE  ItemOK(item)'
    BY <1>1, <1>3, <1>7, IntervalOK DEF ModifyMonitoredItem
<1>8. ASSUME NEW d \in 1 .. MaxElapsed, Elapse(d)
      PROVE  ItemOK(item)'
    <2> DEFINE left == item.next - d
               next == IF left > 0 THEN left ELSE -((-left) % Period)
    <2>1. next \in Int
        BY <1>2
    <2>2. item' = [item EXCEPT !.next = next] /\ UNCHANGED params
        BY <1>8 DEF Elapse
    <2> HIDE DEF next
    <2> QED
        BY <1>1, <1>3, <2>1, <2>2, NextOK
<1>9. CASE UNCHANGED vars \/ \E cur \in Readings : SourceChanges(cur)
    BY <1>1, <1>3, <1>9 DEF vars, SourceChanges
<1>10. CASE Next
    BY <1>1, <1>4, <1>5, <1>6, <1>7, <1>8, <1>9, <1>10
       DEF Next, Tick, PublishCycle, SetMonitoringMode, ModifyMonitoredItem, SourceChanges, Elapse
<1> QED
    BY <1>1, <1>9, <1>10 DEF vars

\* The invariant holds in every reachable state.
THEOREM Invariant == Spec => []IInv
<1>1. IInv /\ [Next]_vars => IInv'
    BY NextInv
<1> QED
    BY InitInv, <1>1, PTL DEF Spec

\* Every index stays inside the array, for every depth and requested queue size.
THEOREM TypeCorrect == Spec => []TypeOK
<1>1. IInv => TypeOK
    BY DEF IInv
<1> QED
    BY Invariant, <1>1, PTL

\* Head, tail and count of the ring agree, for every depth and requested queue size.
THEOREM RingIsConsistent == Spec => []RingConsistent
<1>1. IInv => RingConsistent
    BY DEF IInv
<1> QED
    BY Invariant, <1>1, PTL

\* A pending item has something to publish.
THEOREM PendingIsReal == Spec => []PendingHasReport
<1>1. IInv => PendingHasReport
    BY DEF IInv
<1> QED
    BY Invariant, <1>1, PTL

-----------------------------------------------------------------------------
(* How many reports an operation makes. *)

\* What the first report of an item adds to the count.
First(it) == IF it.has_reported THEN 0 ELSE 1

\* Only the value of the creation can be reported by preparing the ring: an item that is
\* pending with an empty ring has reported nothing yet.
LEMMA PrepareEffect ==
    ASSUME ParamsOK, NEW it, ItemOK(it)
    PROVE  LET new == PreparePendingQueue(it) IN
           /\ new.produced <= it.produced + First(it)
           /\ new.last = it.last /\ new.has_value = it.has_value
<1>1. /\ it \in ItemStates /\ RingOK(it) /\ it.last.value \in ValueOrNull
      /\ it.produced \in Nat
    BY LastValueType DEF ItemOK, ItemStates
<1>2. CASE it.pending /\ it.count = 0 /\ it.has_value
    <2>1. First(it) = 1
        BY <1>2 DEF ItemOK, PendingOK, First
    <2>2. PreparePendingQueue(it) = EnqueueReport(it, it.last.value)
        BY <1>2 DEF PreparePendingQueue
    <2> QED
        BY <1>1, <2>1, <2>2, EnqueueEffect
<1>3. CASE ~(it.pending /\ it.count = 0 /\ it.has_value)
    <2>1. \/ PreparePendingQueue(it) = it
          \/ PreparePendingQueue(it) = RecordReported(it, it.last.value)
        BY <1>3 DEF PreparePendingQueue
    <2>2. /\ PreparePendingQueue(it).produced = it.produced
          /\ PreparePendingQueue(it).last = it.last
          /\ PreparePendingQueue(it).has_value = it.has_value
        BY <1>1, <2>1, RecordEffect
    <2> QED
        BY <1>1, <2>2 DEF First
<1> QED
    BY <1>2, <1>3

\* A due sample makes a report for the first value and one for a changed one, no other; it
\* leaves the item with a value.
LEMMA SampledEffect ==
    ASSUME ParamsOK, NEW it, ItemOK(it), it.has_reported => it.has_value, NEW cur \in Readings
    PROVE  LET new == Sampled(it, cur) IN
           /\ new.produced <= it.produced + First(it) + (IF cur # it.last THEN 1 ELSE 0)
           /\ new.has_value
<1> DEFINE ready == IF it.has_value THEN PreparePendingQueue(it) ELSE it
           fresh == [ready EXCEPT !.last = cur, !.has_value = TRUE]
           reports == ~it.has_value \/ (SampleChanged(ready, cur) /\ ChangeReportable(ready, cur))
<1>1. /\ ItemOK(ready) /\ ready.last = it.last /\ ready.has_value = it.has_value
      /\ ready.produced <= it.produced + (IF it.has_value THEN First(it) ELSE 0)
    <2>1. it.produced \in Nat
        BY DEF ItemOK, ItemStates
    <2> QED
        BY <2>1, PreparePendingQueueOK, PrepareEffect
<1>2. ready \in ItemStates /\ RingOK(ready) /\ it.produced \in Nat /\ ready.produced \in Nat
    BY <1>1 DEF ItemOK, ItemStates
<1>3. Sampled(it, cur) = IF reports THEN EnqueueReport(fresh, cur.value) ELSE ready
    BY DEF Sampled
<1>4. SampleChanged(ready, cur) => cur # it.last
    BY <1>1 DEF SampleChanged
<1> HIDE DEF ready
<1>5. /\ fresh \in ItemStates /\ RingOK(fresh)
      /\ fresh.produced = ready.produced /\ fresh.has_value
    BY <1>2, ReadingType, ReadingFields, Zenon DEF ItemStates
<1> HIDE DEF fresh
<1>6. CASE reports
    <2>1. /\ Sampled(it, cur).produced = ready.produced + 1
          /\ Sampled(it, cur).has_value
        BY <1>3, <1>5, <1>6, ReadingType, EnqueueEffect
    <2>2. CASE it.has_value
        BY <1>1, <1>2, <1>4, <1>6, <2>1, <2>2 DEF First
    <2>3. CASE ~it.has_value
        BY <1>1, <1>2, <2>1, <2>3 DEF First
    <2> QED
        BY <2>2, <2>3
<1>7. CASE ~reports
    <2>1. it.has_value /\ Sampled(it, cur) = ready
        BY <1>3, <1>7
    <2>2. Sampled(it, cur).has_value
        BY <1>1, <2>1, Zenon
    <2>3. ready.produced <= it.produced + First(it)
        BY <1>1, <2>1
    <2>4. First(it) \in Nat
        BY DEF First
    <2> QED
        BY <1>2, <2>1, <2>2, <2>3, <2>4
<1> QED
    BY <1>6, <1>7

\* Draining an item makes no report.
LEMMA DrainEffect ==
    ASSUME NEW it \in ItemStates, NEW k
    PROVE  LET new == DrainReportedEntries(it, k) IN
           /\ new.produced = it.produced /\ new.has_value = it.has_value
           /\ new.has_reported = it.has_reported
BY Zenon DEF DrainReportedEntries, ItemStates

\* A publishing cycle makes no report beside the first one unless data are resent.
LEMMA CycleEffect ==
    ASSUME IInv, NEW k \in 0 .. Depth, PublishCycle(FALSE, k)
    PROVE  item'.produced <= item.produced + First(item)
<1> DEFINE ready == ReadyToPublish(FALSE)
<1>1. ParamsOK /\ ItemOK(item) /\ source \in Readings
    BY InvIsItemOK
<1>2. item.produced \in Nat
    BY <1>1 DEF ItemOK, ItemStates
<1>3. ready = IF item.mode = "disabled" THEN item ELSE PreparePendingQueue(item)
    BY DEF ReadyToPublish
<1>4. ready.produced <= item.produced + First(item)
    <2>1. PreparePendingQueue(item).produced <= item.produced + First(item)
        BY <1>1, PrepareEffect
    <2>2. item.produced <= item.produced + First(item)
        BY <1>2 DEF First
    <2> QED
        BY <1>3, <2>1, <2>2
<1>5. ready \in ItemStates
    BY <1>1, ReadyToPublishOK DEF ItemOK
<1>6. item' = IF k = 0 THEN ready ELSE DrainReportedEntries(ready, k)
    BY DEF PublishCycle
<1> HIDE DEF ready
<1>7. item'.produced = ready.produced
    BY <1>5, <1>6, DrainEffect
<1> QED
    BY <1>4, <1>7

\* Preparing the ring reports nothing for an item without a value.
LEMMA PrepareShows ==
    ASSUME ParamsOK, NEW it, ItemOK(it), it.has_reported => it.has_value
    PROVE  PreparePendingQueue(it).has_reported => PreparePendingQueue(it).has_value
<1>1. PreparePendingQueue(it).has_value = it.has_value
    BY PrepareEffect
<1>2. ~it.has_value => PreparePendingQueue(it) = it
    BY DEF PreparePendingQueue
<1> QED
    BY <1>1, <1>2, Zenon

\* What SampledEffect needs beside the invariant: a report tells a value that was read.
ReportedHasValue == item.has_reported => item.has_value

\* Every step keeps it.
LEMMA NextReported ==
    ASSUME IInv, ReportedHasValue, [Next]_vars
    PROVE  ReportedHasValue'
<1>1. /\ ParamsOK /\ ItemOK(item) /\ source \in Readings
      /\ item.has_reported => item.has_value
    BY InvIsItemOK DEF ReportedHasValue
<1>2. item \in ItemStates
    BY <1>1 DEF ItemOK
<1> SUFFICES item'.has_reported => item'.has_value
    BY DEF ReportedHasValue
<1>3. CASE Tick
    <2> DEFINE sampled == Sampled(item, source)
    <2>1. sampled \in ItemStates /\ sampled.has_value
        BY <1>1, SampledOK, SampledEffect DEF ItemOK
    <2>2. item' = AdvanceSampleTimer(sampled)
        BY <1>3 DEF Tick
    <2> HIDE DEF sampled
    <2>3. item'.has_value = sampled.has_value
        BY <2>1, <2>2, Zenon DEF AdvanceSampleTimer, ItemStates
    <2> QED
        BY <2>1, <2>3, Zenon
<1>4. ASSUME NEW resend \in BOOLEAN, NEW k \in 0 .. Depth, PublishCycle(resend, k)
      PROVE  item'.has_reported => item'.has_value
    <2> DEFINE prepared == IF item.mode = "disabled" THEN item ELSE PreparePendingQueue(item)
               ready == ReadyToPublish(resend)
    <2>1. ItemOK(prepared) /\ (prepared.has_reported => prepared.has_value)
        BY <1>1, PreparePendingQueueOK, PrepareShows
    <2>2. ready = IF resend /\ item.mode = "reporting" THEN Resent(prepared, source) ELSE prepared
        BY DEF ReadyToPublish
    <2> HIDE DEF prepared
    <2>3. Resent(prepared, source).has_value
        BY <1>1, <2>1, ResentOK
    <2>4. ready.has_reported => ready.has_value
        BY <2>1, <2>2, <2>3, Zenon
    <2>5. ready \in ItemStates
        BY <1>1, ReadyToPublishOK DEF ItemOK
    <2>6. item' = IF k = 0 THEN ready ELSE DrainReportedEntries(ready, k)
        BY <1>4 DEF PublishCycle
    <2> HIDE DEF ready
    <2>7. item'.has_value = ready.has_value /\ item'.has_reported = ready.has_reported
        BY <2>5, <2>6, DrainEffect
    <2> QED
        BY <2>4, <2>7, Zenon
<1>5. ASSUME \/ \E mode \in Modes : SetMonitoringMode(mode)
             \/ \E interval \in Intervals : ModifyMonitoredItem(interval)
             \/ \E d \in 1 .. MaxElapsed : Elapse(d)
             \/ UNCHANGED item
      PROVE  item'.has_reported => item'.has_value
    <2>1. /\ item'.has_value = item.has_value
          /\ item'.has_reported = item.has_reported
        BY <1>2, <1>5, Zenon DEF SetMonitoringMode, ModifyMonitoredItem, Elapse, ItemStates
    <2> QED
        BY <1>1, <2>1, Zenon
<1>6. CASE Next
    BY <1>3, <1>4, <1>5, <1>6 DEF Next, SourceChanges
<1> QED
    BY <1>5, <1>6 DEF vars

\* Reports are made for news only: a sample reports its first value and changes, a
\* publishing cycle only the value of the creation, once.
THEOREM NewsOnly == Spec => OnlyNewsReported
<1> DEFINE news == IF source # item.last THEN 1 ELSE 0
           Step == item'.produced > item.produced + First(item) =>
                      /\ Tick => item'.produced = item.produced + First(item) + news
                      /\ \A k \in 0 .. Depth : ~PublishCycle(FALSE, k)
<1>1. Init => ReportedHasValue
    BY DEF Init, NewItem, ReportedHasValue
<1>2. IInv /\ ReportedHasValue /\ [Next]_vars => ReportedHasValue'
    BY NextReported
<1>3. ASSUME IInv, ReportedHasValue, IInv' PROVE Step
    <2>1. /\ ParamsOK /\ ItemOK(item) /\ source \in Readings
          /\ item.has_reported => item.has_value
        BY <1>3, InvIsItemOK DEF ReportedHasValue
    <2>2. item.produced \in Nat /\ item'.produced \in Nat
        BY <1>3 DEF IInv, TypeOK, ItemStates
    <2>3. ASSUME Tick PROVE item'.produced <= item.produced + First(item) + news
        <3> DEFINE sampled == Sampled(item, source)
        <3>1. /\ sampled \in ItemStates
              /\ sampled.produced <= item.produced + First(item) + news
            BY <2>1, SampledOK, SampledEffect DEF ItemOK
        <3>2. item' = AdvanceSampleTimer(sampled)
            BY <2>3 DEF Tick
        <3> HIDE DEF sampled
        <3>3. item'.produced = sampled.produced
            BY <3>1, <3>2, Zenon DEF AdvanceSampleTimer, ItemStates
        <3> QED
            BY <3>1, <3>3
    <2>4. \A k \in 0 .. Depth : PublishCycle(FALSE, k) =>
              item'.produced <= item.produced + First(item)
        BY <1>3, CycleEffect
    <2>5. First(item) \in {0, 1} /\ news \in {0, 1}
        BY DEF First
    <2> HIDE DEF news
    <2> SUFFICES ASSUME item'.produced > item.produced + First(item)
                 PROVE  /\ Tick => item'.produced = item.produced + First(item) + news
                        /\ \A k \in 0 .. Depth : ~PublishCycle(FALSE, k)
        OBVIOUS
    <2>6. ASSUME Tick PROVE item'.produced = item.produced + First(item) + news
        <3>1. item'.produced <= item.produced + First(item) + news
            BY <2>3, <2>6
        <3> QED
            BY <2>2, <2>5, <3>1
    <2>7. ASSUME NEW k \in 0 .. Depth, PublishCycle(FALSE, k) PROVE FALSE
        <3>1. item'.produced <= item.produced + First(item)
            BY <2>4, <2>7
        <3> QED
            BY <2>2, <2>5, <3>1
    <2> QED
        BY <2>6, <2>7
<1>4. IInv /\ ReportedHasValue /\ IInv' => [Step]_vars
    BY <1>3
<1>5. OnlyNewsReported <=> [][Step]_vars
    BY DEF OnlyNewsReported, First
<1> QED
    BY Invariant, <1>1, <1>2, <1>4, <1>5, PTL DEF Spec
=============================================================================
