------------------------ MODULE Subscription_lemmas ------------------------
(***************************************************************************)
(* Facts about the operators of Subscription: what the engine does to one   *)
(* item, to the rings of chosen items, to the queue of parked requests and  *)
(* to one subscription.  Most updates change a subscription or an item      *)
(* without changing which one it is (SameSub, SameItem).                    *)
(***************************************************************************)
EXTENDS Subscription, FiniteSetTheorems, TLAPS

USE CapacityAssumption, ParameterAssumption DEF CapacityAssumption, ParameterAssumption

IInv == TypeOK /\ IdsUnique /\ NoOrphanItems /\ ActiveCountExact /\ RetainedIsPrevious

AnItem == {FreeItem} \cup LiveItems

ASub == {FreeSub} \cup LiveSubs

ARequest == {FreeRequest} \cup LiveRequests

RetainedOK(sub) == sub.retained # 0 => NextSeq(sub.retained) = sub.seq

\* A step leaves the slot alone, or changes the item in it and not which item it is.
SameItem(old, new) ==
    \/ new = old
    \/ old \in LiveItems /\ new \in LiveItems /\ new.id = old.id /\ new.sub = old.sub

SameSub(old, new) ==
    \/ new = old
    \/ /\ old \in LiveSubs /\ new \in LiveSubs /\ new.id = old.id
       /\ RetainedOK(old) => RetainedOK(new)

-----------------------------------------------------------------------------
(* Slots. *)

\* A slot of the item table is occupied exactly when it holds a live item.
LEMMA ItemInUse ==
    ASSUME NEW it \in AnItem
    PROVE  it.in_use <=> it \in LiveItems
<1>1. ~FreeItem.in_use
    BY DEF FreeItem
<1>2. ASSUME it \in LiveItems PROVE it.in_use
    BY <1>2, Zenon DEF LiveItems
<1> QED
    BY <1>1, <1>2 DEF AnItem

\* The same for subscriptions.
LEMMA SubInUse ==
    ASSUME NEW sub \in ASub
    PROVE  sub.in_use <=> sub \in LiveSubs
<1>1. ~FreeSub.in_use
    BY DEF FreeSub
<1>2. ASSUME sub \in LiveSubs PROVE sub.in_use
    BY <1>2, Zenon DEF LiveSubs
<1> QED
    BY <1>1, <1>2 DEF ASub

\* The same for parked requests.
LEMMA RequestInUse ==
    ASSUME NEW req \in ARequest
    PROVE  req.in_use <=> req \in LiveRequests
<1>1. ~FreeRequest.in_use
    BY DEF FreeRequest
<1>2. ASSUME req \in LiveRequests PROVE req.in_use
    BY <1>2, Zenon DEF LiveRequests
<1> QED
    BY <1>1, <1>2 DEF ARequest

\* The wrap of the id allocators stays within the ids.
LEMMA IdAfterType ==
    ASSUME NEW next \in Ids, NEW k \in Nat
    PROVE  IdAfter(next, k) \in Ids
<1>1. (next - 1 + k) % IdMax \in 0 .. IdMax - 1
    BY DEF Ids
<1> QED
    BY <1>1 DEF IdAfter, Ids

-----------------------------------------------------------------------------
(* What the engine does to one item keeps it the same item. *)

\* Enqueueing a report (monitored_item_enqueue_report) keeps the item.
LEMMA ReportedSame ==
    ASSUME NEW it \in LiveItems
    PROVE  Reported(it) \in LiveItems /\ Reported(it).id = it.id /\ Reported(it).sub = it.sub
<1>1. (IF it.count < it.size THEN it.count + 1 ELSE it.count) \in Nat
    BY DEF LiveItems
<1> QED
    BY <1>1, Zenon DEF Reported, LiveItems

\* Recording that the item has a value keeps the item.
LEMMA ValuedSame ==
    ASSUME NEW it \in LiveItems
    PROVE  LET new == [it EXCEPT !.has_value = TRUE] IN
           new \in LiveItems /\ new.id = it.id /\ new.sub = it.sub
BY Zenon DEF LiveItems

\* Moving the value of the creation into the ring keeps the item.
LEMMA PreparePendingQueueSame ==
    ASSUME NEW it \in LiveItems
    PROVE  LET new == PreparePendingQueue(it) IN
           new \in LiveItems /\ new.id = it.id /\ new.sub = it.sub
BY ReportedSame DEF PreparePendingQueue

\* Sampling an item keeps the item, whatever was read.
LEMMA SampledSame ==
    ASSUME NEW it \in LiveItems, NEW outcome
    PROVE  LET new == Sampled(it, outcome) IN
           new \in LiveItems /\ new.id = it.id /\ new.sub = it.sub
BY ReportedSame, ValuedSame, PreparePendingQueueSame, ZenonT(30) DEF Sampled

-----------------------------------------------------------------------------
(* Counting and draining the rings. *)

\* The number of entries of any slot is a natural number.
LEMMA CountType ==
    ASSUME NEW it \in AnItem
    PROVE  it.count \in Nat
<1>1. FreeItem.count \in Nat
    BY DEF FreeItem
<1>2. ASSUME it \in LiveItems PROVE it.count \in Nat
    BY <1>2 DEF LiveItems
<1> QED
    BY <1>1, <1>2 DEF AnItem

\* The item table is finite.
LEMMA SlotsFinite == IsFiniteSet(ItemSlots) /\ Cardinality(ItemSlots) = NItems
<1>1. 1 \in Int /\ NItems \in Int /\ NItems >= 0
    OBVIOUS
<1> QED
    BY <1>1, FS_Interval DEF ItemSlots

\* The entries waiting in chosen rings can be counted.
LEMMA QueuedType ==
    ASSUME NEW its \in [ItemSlots -> AnItem], NEW chosen \in SUBSET ItemSlots
    PROVE  Queued(its, chosen) \in Nat
<1> DEFINE F == [i \in chosen |-> {i} \X (1 .. its[i].count)]
           R == {{i} \X (1 .. its[i].count) : i \in chosen}
<1>1. IsFiniteSet(chosen)
    BY SlotsFinite, FS_Subset
<1>2. F \in Surjection(chosen, R)
    BY Zenon DEF Surjection
<1>3. IsFiniteSet(R)
    BY <1>1, <1>2, FS_Surjection
<1>4. ASSUME NEW i \in chosen PROVE IsFiniteSet({i} \X (1 .. its[i].count))
    <2>1. its[i].count \in Int
        BY CountType
    <2>2. IsFiniteSet(1 .. its[i].count)
        BY <2>1, FS_Interval
    <2>3. IsFiniteSet({i})
        BY FS_Singleton, Zenon
    <2> QED
        BY <2>2, <2>3, FS_Product, Zenon
<1>5. IsFiniteSet(UNION R)
    <2>1. \A T \in R : IsFiniteSet(T)
        BY <1>4
    <2> QED
        BY <1>3, <2>1, FS_UNION, Zenon
<1> QED
    BY <1>5, FS_CardinalityType DEF Queued

\* What is left of a budget is a natural number.
LEMMA ExcessType ==
    ASSUME NEW m \in Nat, NEW n \in Nat
    PROVE  Excess(m, n) \in Nat
BY DEF Excess

\* No item gives more than it holds.
LEMMA ShareBounded ==
    ASSUME NEW its \in [ItemSlots -> AnItem], NEW chosen \in SUBSET ItemSlots,
           NEW budget \in Nat, NEW i \in ItemSlots
    PROVE  Share(its, chosen, budget)[i] \in 0 .. its[i].count
<1>1. its[i].count \in Nat
    BY CountType
<1>2. Queued(its, {j \in chosen : j < i}) \in Nat
    BY QueuedType
<1>3. Excess(budget, Queued(its, {j \in chosen : j < i})) \in Nat
    BY <1>2, ExcessType, Zenon
<1> QED
    BY <1>1, <1>3 DEF Share, Least

\* Draining at most what the items hold keeps every item the same.
LEMMA DrainedSame ==
    ASSUME NEW its \in [ItemSlots -> AnItem], NEW share,
           \A i \in ItemSlots : share[i] \in 0 .. its[i].count,
           \A i \in ItemSlots : its[i] = FreeItem => share[i] = 0
    PROVE  /\ Drained(its, share) \in [ItemSlots -> AnItem]
           /\ \A i \in ItemSlots : SameItem(its[i], Drained(its, share)[i])
<1> SUFFICES ASSUME NEW i \in ItemSlots
             PROVE  /\ Drained(its, share)[i] \in AnItem
                    /\ SameItem(its[i], Drained(its, share)[i])
    BY Zenon DEF Drained
<1>1. CASE share[i] = 0
    BY <1>1 DEF Drained, SameItem
<1>2. CASE share[i] # 0
    <2>1. its[i] \in LiveItems
        BY <1>2 DEF AnItem
    <2>2. /\ its[i].count - share[i] \in Nat
          /\ (its[i].count > share[i]) \in BOOLEAN
        BY <2>1 DEF LiveItems
    <2> QED
        BY <1>2, <2>1, <2>2, Zenon DEF Drained, SameItem, AnItem, LiveItems
<1> QED
    BY <1>1, <1>2

\* Identity carries over a sequence of updates.
LEMMA SameItemTransitive ==
    ASSUME NEW a, NEW b, NEW c, SameItem(a, b), SameItem(b, c)
    PROVE  SameItem(a, c)
BY DEF SameItem

\* prepare_reportable_queues keeps every item.
LEMMA PreparedSame ==
    ASSUME TypeOK, NEW s \in SubSlots
    PROVE  LET its == PrepareReportableQueues(items, s) IN
           /\ its \in [ItemSlots -> AnItem]
           /\ \A i \in ItemSlots : SameItem(items[i], its[i])
<1> DEFINE its == PrepareReportableQueues(items, s)
<1> SUFFICES ASSUME NEW i \in ItemSlots
             PROVE  its[i] \in AnItem /\ SameItem(items[i], its[i])
    BY DEF PrepareReportableQueues
<1>1. items[i] \in AnItem
    BY DEF TypeOK, AnItem
<1>2. CASE InSub(items, s, i) /\ items[i].mode # "disabled"
    <2>1. items[i] \in LiveItems
        BY <1>1, <1>2, ItemInUse DEF InSub
    <2> QED
        BY <1>2, <2>1, PreparePendingQueueSame DEF PrepareReportableQueues, SameItem, AnItem
<1>3. CASE ~(InSub(items, s, i) /\ items[i].mode # "disabled")
    BY <1>1, <1>3 DEF PrepareReportableQueues, SameItem
<1> QED
    BY <1>2, <1>3

\* enqueue_resend_data keeps every item.
LEMMA ResentSame ==
    ASSUME NEW its \in [ItemSlots -> AnItem], NEW s
    PROVE  LET new == EnqueueResendData(its, s) IN
           /\ new \in [ItemSlots -> AnItem]
           /\ \A i \in ItemSlots : SameItem(its[i], new[i])
<1> DEFINE new == EnqueueResendData(its, s)
<1> SUFFICES ASSUME NEW i \in ItemSlots
             PROVE  new[i] \in AnItem /\ SameItem(its[i], new[i])
    BY DEF EnqueueResendData
<1>1. CASE InSub(its, s, i) /\ its[i].mode = "reporting"
    <2>1. its[i] \in LiveItems
        BY <1>1, ItemInUse DEF InSub
    <2> QED
        BY <1>1, <2>1, ValuedSame, ReportedSame, ZenonT(30) DEF EnqueueResendData, SameItem, AnItem
<1>2. CASE ~(InSub(its, s, i) /\ its[i].mode = "reporting")
    BY <1>2 DEF EnqueueResendData, SameItem
<1> QED
    BY <1>1, <1>2

\* Preparing the rings for a publishing cycle keeps every item the same.
LEMMA ReadyItemsSame ==
    ASSUME TypeOK, NEW s \in SubSlots
    PROVE  /\ ReadyItems(s) \in [ItemSlots -> AnItem]
           /\ \A i \in ItemSlots : SameItem(items[i], ReadyItems(s)[i])
<1>1. /\ items \in [ItemSlots -> AnItem]
      /\ \A i \in ItemSlots : SameItem(items[i], items[i])
    BY DEF TypeOK, AnItem, SameItem
<1>2. LET its == EnqueueResendData(PrepareReportableQueues(items, s), s) IN
      /\ its \in [ItemSlots -> AnItem]
      /\ \A i \in ItemSlots : SameItem(items[i], its[i])
    BY PreparedSame, ResentSame, SameItemTransitive
<1> QED
    BY <1>1, <1>2, PreparedSame DEF ReadyItems

\* Only occupied slots are reported, directly or by a trigger.
LEMMA ChosenAreLive ==
    ASSUME NEW its \in [ItemSlots -> AnItem], NEW s
    PROVE  /\ Reportable(its, s) \in SUBSET ItemSlots
           /\ ReportsByTrigger(its, s) \in SUBSET ItemSlots
           /\ \A i \in Reportable(its, s) \cup ReportsByTrigger(its, s) : its[i] # FreeItem
<1>1. ~FreeItem.in_use
    BY DEF FreeItem
<1> QED
    BY <1>1 DEF Reportable, ReportsByTrigger, InSub

\* count_reportable_items returns a natural number, capped or not.
LEMMA ReportCountType ==
    ASSUME TypeOK, NEW s \in SubSlots, NEW its \in [ItemSlots -> AnItem]
    PROVE  ReportTotal(its, s) \in Nat /\ ReportCount(its, s) \in Nat
<1>1. ReportTotal(its, s) \in Nat
    BY ChosenAreLive, QueuedType DEF ReportTotal
<1>2. subs[s].cap \in Nat
    <2>1. subs[s] \in ASub
        BY DEF TypeOK, ASub
    <2>2. FreeSub.cap \in Nat
        BY DEF FreeSub
    <2>3. ASSUME subs[s] \in LiveSubs PROVE subs[s].cap \in Nat
        BY <2>3, Zenon DEF LiveSubs
    <2> QED
        BY <2>1, <2>2, <2>3 DEF ASub
<1> QED
    BY <1>1, <1>2 DEF ReportCount, Least

\* The number of notifications of a cycle is a natural number.
LEMMA NotificationsType ==
    ASSUME TypeOK, NEW s \in SubSlots
    PROVE  Notifications(s) \in Nat
BY ReadyItemsSame, ReportCountType DEF Notifications

\* An item that was not chosen gives nothing.
LEMMA ShareOfFree ==
    ASSUME NEW its, NEW chosen, NEW budget, NEW i \in ItemSlots, i \notin chosen
    PROVE  Share(its, chosen, budget)[i] = 0
BY DEF Share

\* Clearing what a response carried keeps every item the same.
LEMMA ClearedSame ==
    ASSUME NEW its \in [ItemSlots -> AnItem], NEW s, NEW n \in Nat
    PROVE  LET new == ClearReportedItems(its, s, n) IN
           /\ new \in [ItemSlots -> AnItem]
           /\ \A i \in ItemSlots : SameItem(its[i], new[i])
<1> DEFINE direct    == Reportable(its, s)
           triggered == ReportsByTrigger(its, s)
           first     == Drained(its, Share(its, direct, n))
           budget    == Excess(n, Queued(its, direct))
           new       == Drained(first, Share(first, triggered, budget))
<1>1. /\ direct \in SUBSET ItemSlots /\ triggered \in SUBSET ItemSlots
      /\ \A i \in direct \cup triggered : its[i] # FreeItem
    BY ChosenAreLive
<1>2. budget \in Nat
    BY <1>1, QueuedType, ExcessType, ZenonT(30)
<1>3. /\ first \in [ItemSlots -> AnItem]
      /\ \A i \in ItemSlots : SameItem(its[i], first[i])
    <2>1. \A i \in ItemSlots : Share(its, direct, n)[i] \in 0 .. its[i].count
        BY <1>1, ShareBounded
    <2>2. \A i \in ItemSlots : its[i] = FreeItem => Share(its, direct, n)[i] = 0
        BY <1>1, ShareOfFree
    <2> HIDE DEF direct
    <2> QED
        BY <2>1, <2>2, DrainedSame
<1>4. \A i \in ItemSlots : first[i] = FreeItem => i \notin triggered
    <2>1. FreeItem \notin LiveItems
        BY DEF FreeItem, LiveItems
    <2> QED
        BY <1>1, <1>3, <2>1 DEF SameItem
<1>5. /\ new \in [ItemSlots -> AnItem]
      /\ \A i \in ItemSlots : SameItem(first[i], new[i])
    <2> HIDE DEF first, budget, triggered
    <2>1. \A i \in ItemSlots : Share(first, triggered, budget)[i] \in 0 .. first[i].count
        BY <1>1, <1>2, <1>3, ShareBounded
    <2>2. \A i \in ItemSlots : first[i] = FreeItem => Share(first, triggered, budget)[i] = 0
        BY <1>4, ShareOfFree
    <2> QED
        BY <1>3, <2>1, <2>2, DrainedSame
<1> QED
    BY <1>3, <1>5, SameItemTransitive DEF ClearReportedItems

-----------------------------------------------------------------------------
(* The queue of parked requests. *)

\* A request with another age is still a request.
LEMMA AgeUpdated ==
    ASSUME NEW req \in LiveRequests, NEW n \in Nat
    PROVE  [req EXCEPT !.age = n] \in LiveRequests
BY Zenon DEF LiveRequests

\* Letting time pass keeps the queue well formed.
LEMMA AgedType ==
    ASSUME NEW queue \in [RequestSlots -> ARequest]
    PROVE  Aged(queue) \in [RequestSlots -> ARequest]
<1>1. ASSUME NEW r \in RequestSlots, queue[r].in_use
      PROVE  [queue[r] EXCEPT !.age = queue[r].age + 1] \in ARequest
    <2>1. queue[r] \in LiveRequests
        BY <1>1, RequestInUse
    <2>2. queue[r].age + 1 \in Nat
        BY <2>1 DEF LiveRequests
    <2> QED
        BY <2>1, <2>2, AgeUpdated DEF ARequest
<1> QED
    BY <1>1 DEF Aged

\* Renumbering the ages keeps the queue well formed.
LEMMA CompactType ==
    ASSUME NEW queue \in [RequestSlots -> ARequest]
    PROVE  Compact(queue) \in [RequestSlots -> ARequest]
<1> DEFINE ages == {queue[r].age : r \in {q \in RequestSlots : queue[q].in_use}}
<1>1. ASSUME NEW r \in RequestSlots, queue[r].age # 0
      PROVE  [queue[r] EXCEPT !.age = 1 + Cardinality(ages \cap 1 .. queue[r].age - 1)] \in ARequest
    <2>1. queue[r] \in LiveRequests
        <3>1. FreeRequest.age = 0
            BY DEF FreeRequest
        <3> QED
            BY <1>1, <3>1 DEF ARequest
    <2>2. queue[r].age - 1 \in Int
        BY <2>1 DEF LiveRequests
    <2>3. IsFiniteSet(ages \cap 1 .. queue[r].age - 1)
        <3> HIDE DEF ages
        <3>1. IsFiniteSet(1 .. queue[r].age - 1)
            BY <2>2, FS_Interval
        <3> QED
            BY <3>1, FS_Intersection, Zenon
    <2>4. Cardinality(ages \cap 1 .. queue[r].age - 1) \in Nat
        BY <2>3, FS_CardinalityType
    <2> HIDE DEF ages
    <2>5. 1 + Cardinality(ages \cap 1 .. queue[r].age - 1) \in Nat
        BY <2>4
    <2> QED
        BY <2>1, <2>5, AgeUpdated, ZenonT(30) DEF ARequest
<1> QED
    BY <1>1, Zenon DEF Compact

\* publish_request_dequeue keeps the queue well formed.
LEMMA DequeuedType ==
    ASSUME TypeOK, NEW r \in RequestSlots
    PROVE  Dequeued(r) \in [RequestSlots -> ARequest]
BY CompactType, Zenon DEF Dequeued, TypeOK, ARequest

-----------------------------------------------------------------------------
(* What the engine does to one subscription keeps it the same one. *)

\* The countdown to the next cycle stays an integer.
LEMMA LaterType ==
    ASSUME NEW next \in Int, NEW d \in Int
    PROVE  Later(next, d) \in Int
BY DEF Later

\* The update of the other cycles.
Counted(sub, k) == [sub EXCEPT !.keep_alive = k]

KeepAliveCounts == 0 .. KeepAliveMax

\* Setting the keep-alive counter keeps the subscription.
LEMMA KeepAliveUpdated ==
    ASSUME NEW sub \in LiveSubs, NEW k \in KeepAliveCounts
    PROVE  LET new == Counted(sub, k) IN
           /\ new \in LiveSubs /\ new.id = sub.id /\ new.seq = sub.seq
           /\ new.retained = sub.retained
BY Zenon DEF LiveSubs, Counted, KeepAliveCounts

\* The update of PublishData.
Sent(sub, seq, retained) ==
    [sub EXCEPT !.keep_alive = 0, !.events = 0, !.seq = seq, !.retained = retained]

SlotNumbers == {0} \cup Seqs

\* The update of a data response keeps the subscription and sets both numbers.
LEMMA SentUpdated ==
    ASSUME NEW sub \in LiveSubs, NEW seq \in Seqs, NEW retained \in SlotNumbers
    PROVE  LET new == Sent(sub, seq, retained) IN
           /\ new \in LiveSubs /\ new.id = sub.id /\ new.seq = seq
           /\ new.retained = retained
<1>1. 0 \in 0 .. KeepAliveMax /\ 0 \in 0 .. EventDepth
    OBVIOUS
<1>2. Sent(sub, seq, retained) \in LiveSubs
    BY <1>1, Zenon DEF LiveSubs, Sent, SlotNumbers
<1>3. LET new == Sent(sub, seq, retained) IN
      new.id = sub.id /\ new.seq = seq /\ new.retained = retained
    BY DEF LiveSubs, Sent
<1> QED
    BY <1>2, <1>3

\* The timer and the resend latch leave identity and numbers alone.
LEMMA CycledLive ==
    ASSUME TypeOK, NEW s \in SubSlots, subs[s].in_use
    PROVE  /\ subs[s] \in LiveSubs /\ Cycled(s) \in LiveSubs
           /\ Cycled(s).id = subs[s].id /\ Cycled(s).seq = subs[s].seq
           /\ Cycled(s).retained = subs[s].retained
<1>1. subs[s] \in LiveSubs
    BY SubInUse DEF TypeOK, ASub
<1> DEFINE sub == subs[s]
           timed == AdvancePublishTimer(sub)
<1>2. /\ sub.next \in Int /\ sub.interval \in Nat \ {0}
      /\ (sub.resend /\ ~sub.enabled) \in BOOLEAN
    BY <1>1, Zenon DEF LiveSubs
<1>3. sub.next + ((-sub.next) \div sub.interval + 1) * sub.interval \in Int
    BY <1>2
<1>4. /\ timed \in LiveSubs /\ timed.id = sub.id /\ timed.seq = sub.seq
      /\ timed.retained = sub.retained
    BY <1>1, <1>3, Zenon DEF LiveSubs, AdvancePublishTimer
<1> HIDE DEF timed
<1>5. LET new == [timed EXCEPT !.resend = sub.resend /\ ~sub.enabled] IN
      /\ new \in LiveSubs /\ new.id = sub.id /\ new.seq = sub.seq
      /\ new.retained = sub.retained
    BY <1>2, <1>4, Zenon DEF LiveSubs
<1> QED
    BY <1>1, <1>5 DEF Cycled, timed

\* The keep-alive counter stays within its bound.
LEMMA KeepAliveCountedType ==
    ASSUME TypeOK, NEW s \in SubSlots, subs[s].in_use
    PROVE  /\ KeepAliveCounted(s) \in KeepAliveCounts
           /\ subs[s].keep_alive \in KeepAliveCounts
           /\ 0 \in KeepAliveCounts
<1>1. subs[s].keep_alive \in 0 .. KeepAliveMax
    BY CycledLive, Zenon DEF LiveSubs
<1>2. KeepAliveCounted(s) \in 0 .. KeepAliveMax
    BY <1>1 DEF KeepAliveCounted, Least
<1> QED
    BY <1>1, <1>2 DEF KeepAliveCounts

\* A cycle that sends no data keeps the subscription, its sequence number and its slot.
LEMMA CycledSame ==
    ASSUME TypeOK, NEW s \in SubSlots, subs[s].in_use
    PROVE  /\ SameSub(subs[s], Cycled(s))
           /\ \A k \in KeepAliveCounts : SameSub(subs[s], Counted(Cycled(s), k))
<1>1. ASSUME NEW k \in KeepAliveCounts
      PROVE  SameSub(subs[s], Counted(Cycled(s), k))
    BY CycledLive, KeepAliveUpdated DEF SameSub, RetainedOK
<1> QED
    BY <1>1, CycledLive DEF SameSub, RetainedOK

\* A cycle that sends data keeps the subscription, and its slot holds the number before
\* the next one.
LEMMA SentSame ==
    ASSUME TypeOK, NEW s \in SubSlots, subs[s].in_use
    PROVE  SameSub(subs[s], Sent(Cycled(s), NextSeq(subs[s].seq), Retained(s)))
<1> DEFINE new == Sent(Cycled(s), NextSeq(subs[s].seq), Retained(s))
<1>1. subs[s] \in LiveSubs /\ Cycled(s) \in LiveSubs /\ Cycled(s).id = subs[s].id
    BY CycledLive
<1>2. subs[s].seq \in Seqs
    BY <1>1, Zenon DEF LiveSubs
<1>3. NextSeq(subs[s].seq) \in Seqs
    BY <1>2 DEF NextSeq, Seqs
<1>4. Retained(s) \in {0} \cup {subs[s].seq}
    BY DEF Retained
<1>6. Retained(s) \in SlotNumbers
    BY <1>2, <1>4 DEF SlotNumbers
<1>5. /\ new \in LiveSubs /\ new.id = subs[s].id /\ new.seq = NextSeq(subs[s].seq)
      /\ new.retained = Retained(s)
    BY <1>1, <1>3, <1>6, SentUpdated
<1> QED
    BY <1>1, <1>4, <1>5 DEF SameSub, RetainedOK

-----------------------------------------------------------------------------
(* A publishing cycle takes out of the rings exactly what it sends. *)

\* Draining takes exactly the share.
LEMMA DrainedCount ==
    ASSUME NEW its \in [ItemSlots -> AnItem], NEW share, NEW i \in ItemSlots,
           share[i] \in 0 .. its[i].count, its[i] = FreeItem => share[i] = 0
    PROVE  Drained(its, share)[i].count + share[i] = its[i].count
<1>1. its[i].count \in Nat
    BY CountType
<1>2. CASE share[i] = 0
    BY <1>1, <1>2 DEF Drained
<1>3. CASE share[i] # 0
    <2>1. its[i] \in LiveItems
        BY <1>3 DEF AnItem
    <2>2. Drained(its, share)[i] =
              [its[i] EXCEPT !.count = its[i].count - share[i],
                             !.pending = its[i].count > share[i]]
        BY <1>3 DEF Drained
    <2>3. Drained(its, share)[i].count = its[i].count - share[i]
        BY <2>1, <2>2 DEF LiveItems
    <2> QED
        BY <1>1, <2>3
<1> QED
    BY <1>2, <1>3

\* The reporting items and the triggered ones are disjoint: an item has one mode.
LEMMA DirectNotTriggered ==
    ASSUME NEW its, NEW s
    PROVE  Reportable(its, s) \cap ReportsByTrigger(its, s) = {}
BY DEF Reportable, ReportsByTrigger

\* Shares depend on nothing but the rings of the chosen items.
LEMMA ShareDependsOnChosen ==
    ASSUME NEW a, NEW b, NEW chosen \in SUBSET ItemSlots, NEW budget,
           \A j \in chosen : a[j] = b[j]
    PROVE  Share(a, chosen, budget) = Share(b, chosen, budget)
<1>1. ASSUME NEW i \in ItemSlots
      PROVE  Queued(a, {j \in chosen : j < i}) = Queued(b, {j \in chosen : j < i})
    <2>1. {{k} \X (1 .. a[k].count) : k \in {j \in chosen : j < i}}
            = {{k} \X (1 .. b[k].count) : k \in {j \in chosen : j < i}}
        OBVIOUS
    <2> QED
        BY <2>1, Zenon DEF Queued
<1>2. ASSUME NEW i \in ItemSlots
      PROVE  (IF i \in chosen
                THEN Least(a[i].count, Excess(budget, Queued(a, {j \in chosen : j < i})))
                ELSE 0)
             = (IF i \in chosen
                  THEN Least(b[i].count, Excess(budget, Queued(b, {j \in chosen : j < i})))
                  ELSE 0)
    BY <1>1
<1> QED
    BY <1>2, Zenon DEF Share

\* clear_reported_items takes what write_data_change_notification wrote.
LEMMA ClearedIsWritten ==
    ASSUME NEW its \in [ItemSlots -> AnItem], NEW s, NEW n \in Nat, NEW i \in ItemSlots
    PROVE  ClearReportedItems(its, s, n)[i].count + Written(its, s, n)[i] = its[i].count
<1> DEFINE direct    == Reportable(its, s)
           triggered == ReportsByTrigger(its, s)
           given     == Share(its, direct, n)
           first     == Drained(its, given)
           budget    == Excess(n, Queued(its, direct))
           later     == Share(first, triggered, budget)
<1>1. /\ direct \in SUBSET ItemSlots /\ triggered \in SUBSET ItemSlots
      /\ \A j \in direct \cup triggered : its[j] # FreeItem
    BY ChosenAreLive
<1>2. budget \in Nat
    BY <1>1, QueuedType, ExcessType, ZenonT(30)
<1>3. /\ \A j \in ItemSlots : given[j] \in 0 .. its[j].count
      /\ \A j \in ItemSlots : j \notin direct => given[j] = 0
    BY <1>1, ShareBounded, ShareOfFree
<1>4. \A j \in triggered : first[j] = its[j]
    <2>1. \A j \in triggered : given[j] = 0
        BY <1>1, <1>3, DirectNotTriggered
    <2> HIDE DEF given, triggered
    <2> QED
        BY <1>1, <2>1, Zenon DEF Drained
<1>5. later = Share(its, triggered, budget)
    <2> HIDE DEF first, triggered, budget
    <2> QED
        BY <1>1, <1>4, ShareDependsOnChosen
<1>6. /\ first \in [ItemSlots -> AnItem]
      /\ \A j \in ItemSlots : its[j] # FreeItem => first[j] # FreeItem
    <2>1. \A j \in ItemSlots : its[j] = FreeItem => given[j] = 0
        BY <1>1, <1>3, SMTT(30)
    <2>2. FreeItem \notin LiveItems
        BY DEF FreeItem, LiveItems
    <2> HIDE DEF given
    <2> QED
        BY <1>3, <2>1, <2>2, DrainedSame DEF SameItem
<1>7. first[i].count + given[i] = its[i].count
    <2>1. its[i] = FreeItem => given[i] = 0
        BY <1>1, <1>3
    <2> HIDE DEF given
    <2> QED
        BY <1>3, <2>1, DrainedCount
<1>8. later[i] \in 0 .. first[i].count /\ (first[i] = FreeItem => later[i] = 0)
    <2> HIDE DEF first, triggered, budget
    <2>1. later[i] \in 0 .. first[i].count
        BY <1>1, <1>2, <1>6, ShareBounded
    <2>2. first[i] = FreeItem => later[i] = 0
        BY <1>1, <1>6, ShareOfFree
    <2> QED
        BY <2>1, <2>2
<1>9. Drained(first, later)[i].count + later[i] = first[i].count
    <2> HIDE DEF first, later
    <2> QED
        BY <1>6, <1>8, DrainedCount
<1>10. ClearReportedItems(its, s, n) = Drained(first, later)
    BY DEF ClearReportedItems
<1>11. Written(its, s, n)[i] = given[i] + later[i]
    <2>1. Written(its, s, n)[i] = given[i] + Share(its, triggered, budget)[i]
        BY SMTT(30) DEF Written
    <2> HIDE DEF given, later
    <2> QED
        BY <1>5, <2>1
<1>12. /\ its[i].count \in Nat /\ first[i].count \in Nat
       /\ Drained(first, later)[i].count \in Nat
       /\ given[i] \in Nat /\ later[i] \in Nat
    <2>1. its[i].count \in Nat /\ first[i].count \in Nat
        BY <1>6, CountType
    <2>2. given[i] \in Nat /\ later[i] \in Nat
        <3> HIDE DEF given, later, first
        <3> QED
            BY <1>3, <1>8, <2>1
    <2>3. Drained(first, later)[i].count \in Nat
        <3>1. Drained(first, later) = ClearReportedItems(its, s, n)
            BY <1>10
        <3>2. ClearReportedItems(its, s, n) \in [ItemSlots -> AnItem]
            BY ClearedSame
        <3> QED
            BY <3>1, <3>2, CountType
    <2> QED
        BY <2>1, <2>2, <2>3
<1> HIDE DEF first, given, later
<1> QED
    BY <1>7, <1>9, <1>10, <1>11, <1>12
=============================================================================
