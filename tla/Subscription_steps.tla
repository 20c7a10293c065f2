------------------------- MODULE Subscription_steps -------------------------
(***************************************************************************)
(* The steps of Subscription that create and delete nothing: they satisfy   *)
(* Keeps, from which KeepsInvariant derives the inductive invariant; and    *)
(* the publishing cycle delivers what it takes out of the rings.            *)
(***************************************************************************)
EXTENDS Subscription_lemmas

USE CapacityAssumption, ParameterAssumption DEF CapacityAssumption, ParameterAssumption

-----------------------------------------------------------------------------
(* Steps that create and delete nothing. *)

\* The part of TypeOK that such a step can disturb, and that no identity changes.
Keeps ==
    /\ items' \in [ItemSlots -> AnItem]
    /\ \A i \in ItemSlots : SameItem(items[i], items'[i])
    /\ subs' \in [SubSlots -> ASub]
    /\ \A s \in SubSlots : SameSub(subs[s], subs'[s])
    /\ parked' \in [RequestSlots -> ARequest]
    /\ UNCHANGED <<nextSubId, nextItemId, activeCount>>

\* An item that stays the same keeps its slot occupied, its id and its owner.
LEMMA SameItemFields ==
    ASSUME NEW old \in AnItem, NEW new \in AnItem, SameItem(old, new)
    PROVE  /\ old.in_use <=> new.in_use
           /\ new.id = old.id /\ new.sub = old.sub
BY ItemInUse DEF SameItem

\* A subscription that stays the same keeps its slot, its id and what it retains.
LEMMA SameSubFields ==
    ASSUME NEW old \in ASub, NEW new \in ASub, SameSub(old, new)
    PROVE  /\ old.in_use <=> new.in_use
           /\ new.id = old.id
           /\ RetainedOK(old) => RetainedOK(new)
BY SubInUse DEF SameSub

\* A step that creates and deletes nothing preserves the invariant.
LEMMA KeepsInvariant ==
    ASSUME IInv, Keeps, cursor' \in 0 .. NSubs, link' \in [Sessions -> Links]
    PROVE  IInv'
<1>1. TypeOK'
    BY DEF IInv, TypeOK, Keeps, AnItem, ASub, ARequest
<1>2. ASSUME NEW i \in ItemSlots
      PROVE  /\ items[i].in_use <=> items'[i].in_use
             /\ items'[i].id = items[i].id /\ items'[i].sub = items[i].sub
    <2>1. items[i] \in AnItem /\ items'[i] \in AnItem /\ SameItem(items[i], items'[i])
        BY DEF Keeps, IInv, TypeOK, AnItem
    <2> QED
        BY <2>1, SameItemFields
<1>3. ASSUME NEW s \in SubSlots
      PROVE  /\ subs[s].in_use <=> subs'[s].in_use
             /\ subs'[s].id = subs[s].id
             /\ RetainedOK(subs[s]) => RetainedOK(subs'[s])
    <2>1. subs[s] \in ASub /\ subs'[s] \in ASub /\ SameSub(subs[s], subs'[s])
        BY DEF Keeps, IInv, TypeOK, ASub
    <2> QED
        BY <2>1, SameSubFields
<1>4. IdsUnique'
    BY <1>2, <1>3 DEF IInv, IdsUnique
<1>5. NoOrphanItems'
    BY <1>2, <1>3 DEF IInv, NoOrphanItems
<1>6. ActiveCountExact'
    <2>1. {i \in ItemSlots : items[i].in_use} = {i \in ItemSlots : items'[i].in_use}
        BY <1>2
    <2> QED
        BY <2>1, Zenon DEF IInv, ActiveCountExact, Keeps
<1>7. RetainedIsPrevious'
    BY <1>3 DEF IInv, RetainedIsPrevious, RetainedOK
<1> QED
    BY <1>1, <1>4, <1>5, <1>6, <1>7 DEF IInv

\* A slot left alone holds the same.
LEMMA SameReflexive ==
    /\ \A it : SameItem(it, it)
    /\ \A sub : SameSub(sub, sub)
BY DEF SameItem, SameSub

\* A step that changes one item, to one of the same identity.
LEMMA OneItemKeeps ==
    ASSUME TypeOK, NEW i \in ItemSlots, NEW new, items[i] \in LiveItems, new \in LiveItems,
           new.id = items[i].id, new.sub = items[i].sub,
           items' = [items EXCEPT ![i] = new],
           UNCHANGED <<subs, parked, nextSubId, nextItemId, activeCount>>
    PROVE  Keeps
<1>1. \A j \in ItemSlots : SameItem(items[j], items'[j])
    BY DEF TypeOK, SameItem
<1>2. items' \in [ItemSlots -> AnItem]
    BY DEF TypeOK, AnItem
<1> QED
    BY <1>1, <1>2, SameReflexive DEF Keeps, TypeOK, ASub, ARequest

\* A step that changes one subscription, to one of the same identity.
LEMMA OneSubKeeps ==
    ASSUME TypeOK, NEW s \in SubSlots, NEW new, SameSub(subs[s], new),
           subs' = [subs EXCEPT ![s] = new],
           items' \in [ItemSlots -> AnItem],
           \A i \in ItemSlots : SameItem(items[i], items'[i]),
           parked' \in [RequestSlots -> ARequest],
           UNCHANGED <<nextSubId, nextItemId, activeCount>>
    PROVE  Keeps
<1>1. new \in ASub
    BY DEF TypeOK, SameSub, ASub
<1>2. \A t \in SubSlots : SameSub(subs[t], subs'[t])
    BY SameReflexive DEF TypeOK
<1>3. subs' \in [SubSlots -> ASub]
    BY <1>1 DEF TypeOK, ASub
<1> QED
    BY <1>2, <1>3 DEF Keeps

\* mu_subscription_find returns live subscriptions only.
LEMMA OwnsLive ==
    ASSUME TypeOK, NEW session, NEW s \in SubSlots, Owns(session, s)
    PROVE  subs[s] \in LiveSubs
BY SubInUse DEF Owns, TypeOK, ASub

\* An item found in a subscription is live.
LEMMA InSubLive ==
    ASSUME TypeOK, NEW s \in SubSlots, NEW i \in ItemSlots, InSub(items, s, i)
    PROVE  items[i] \in LiveItems
BY ItemInUse DEF InSub, TypeOK, AnItem

(* Updates of fields that neither IdsUnique nor RetainedIsPrevious speaks of. *)

\* ModifySubscription's update.
LEMMA ParametersSame ==
    ASSUME NEW sub \in LiveSubs, NEW interval \in Intervals, NEW keepAlive \in KeepAlives,
           NEW cap \in NotificationCaps
    PROVE  SameSub(sub, Parameters(sub, interval, keepAlive, cap))
BY Zenon DEF LiveSubs, SameSub, RetainedOK, Parameters

\* SetPublishingMode's update.
LEMMA EnabledSame ==
    ASSUME NEW sub \in LiveSubs, NEW flag \in BOOLEAN
    PROVE  SameSub(sub, [sub EXCEPT !.enabled = flag])
BY Zenon DEF LiveSubs, SameSub, RetainedOK

\* ResendData's update.
LEMMA ResendSame ==
    ASSUME NEW sub \in LiveSubs
    PROVE  SameSub(sub, [sub EXCEPT !.resend = TRUE])
BY Zenon DEF LiveSubs, SameSub, RetainedOK

\* The passing of time.
LEMMA NextSame ==
    ASSUME NEW sub \in LiveSubs, NEW next \in Int
    PROVE  SameSub(sub, [sub EXCEPT !.next = next])
BY Zenon DEF LiveSubs, SameSub, RetainedOK

\* Queueing an event.
LEMMA EventsSame ==
    ASSUME NEW sub \in LiveSubs, NEW events \in 0 .. EventDepth
    PROVE  SameSub(sub, [sub EXCEPT !.events = events])
BY Zenon DEF LiveSubs, SameSub, RetainedOK

\* An acknowledgement empties the retransmission slot.
LEMMA AcknowledgedOneSame ==
    ASSUME NEW sub \in LiveSubs
    PROVE  SameSub(sub, [sub EXCEPT !.retained = 0])
BY Zenon DEF LiveSubs, SameSub, RetainedOK

\* A step that only changes subscriptions and parked requests.
LEMMA SubsKeep ==
    ASSUME TypeOK, subs' \in [SubSlots -> ASub], \A s \in SubSlots : SameSub(subs[s], subs'[s]),
           parked' \in [RequestSlots -> ARequest],
           UNCHANGED <<items, nextSubId, nextItemId, activeCount>>
    PROVE  Keeps
BY SameReflexive DEF Keeps, TypeOK, AnItem

\* A subscription that stays the same stays well formed.
LEMMA SameSubType ==
    ASSUME NEW old \in ASub, NEW new, SameSub(old, new)
    PROVE  new \in ASub
BY DEF SameSub, ASub

\* The acknowledgements of a Publish request keep every subscription.
LEMMA AcknowledgedSame ==
    ASSUME TypeOK, NEW session, NEW acks, subs' = Acknowledged(session, acks)
    PROVE  subs' \in [SubSlots -> ASub] /\ \A s \in SubSlots : SameSub(subs[s], subs'[s])
<1>1. ASSUME NEW s \in SubSlots
      PROVE  SameSub(subs[s], subs'[s])
    <2>1. CASE Owns(session, s) /\ <<subs[s].id, subs[s].retained>> \in acks
        <3>1. subs[s] \in LiveSubs
            BY <2>1, OwnsLive
        <3>2. subs'[s] = [subs[s] EXCEPT !.retained = 0]
            BY <2>1 DEF Acknowledged
        <3> QED
            BY <3>1, <3>2, AcknowledgedOneSame
    <2>2. CASE ~(Owns(session, s) /\ <<subs[s].id, subs[s].retained>> \in acks)
        BY <2>2, SameReflexive DEF Acknowledged
    <2> QED
        BY <2>1, <2>2
<1>2. \A s \in SubSlots : subs'[s] \in ASub
    BY <1>1, SameSubType DEF TypeOK, ASub
<1> QED
    BY <1>1, <1>2 DEF Acknowledged

\* An untouched queue is well formed.
LEMMA ParkedSame ==
    ASSUME TypeOK, UNCHANGED parked
    PROVE  parked' \in [RequestSlots -> ARequest]
BY DEF TypeOK, ARequest

\* Untouched items are the same.
LEMMA ItemsSame ==
    ASSUME TypeOK, UNCHANGED items
    PROVE  items' \in [ItemSlots -> AnItem] /\ \A i \in ItemSlots : SameItem(items[i], items'[i])
BY SameReflexive DEF TypeOK, AnItem

-----------------------------------------------------------------------------
(* One lemma per action that creates and deletes nothing. *)

\* ModifySubscription creates and deletes nothing.
LEMMA ModifySubscriptionKeeps ==
    ASSUME TypeOK, NEW session, NEW s \in SubSlots, NEW interval \in Intervals,
           NEW keepAlive \in KeepAlives, NEW cap \in NotificationCaps,
           ModifySubscription(session, s, interval, keepAlive, cap)
    PROVE  Keeps
<1> USE DEF ModifySubscription
<1>1. subs[s] \in LiveSubs
    BY OwnsLive
<1>2. SameSub(subs[s], Parameters(subs[s], interval, keepAlive, cap))
    BY <1>1, ParametersSame
<1> QED
    BY <1>2, OneSubKeeps, ItemsSame, ParkedSame, Zenon

\* SetPublishingMode creates and deletes nothing.
LEMMA SetPublishingModeKeeps ==
    ASSUME TypeOK, NEW session, NEW s \in SubSlots, NEW enabled \in Enabled,
           SetPublishingMode(session, s, enabled)
    PROVE  Keeps
<1> DEFINE new == [subs[s] EXCEPT !.enabled = enabled]
<1>1. subs[s] \in LiveSubs /\ enabled \in BOOLEAN
    BY OwnsLive DEF SetPublishingMode
<1>2. SameSub(subs[s], new)
    BY <1>1, EnabledSame
<1>3. subs' = [subs EXCEPT ![s] = new]
    BY DEF SetPublishingMode
<1> HIDE DEF new
<1> QED
    BY <1>2, <1>3, OneSubKeeps, ItemsSame, ParkedSame, Zenon DEF SetPublishingMode

\* ResendData creates and deletes nothing.
LEMMA ResendDataKeeps ==
    ASSUME TypeOK, NEW session, NEW s \in SubSlots, ResendData(session, s)
    PROVE  Keeps
<1> DEFINE new == [subs[s] EXCEPT !.resend = TRUE]
<1>1. subs[s] \in LiveSubs
    BY OwnsLive DEF ResendData
<1>2. SameSub(subs[s], new)
    BY <1>1, ResendSame
<1>3. subs' = [subs EXCEPT ![s] = new]
    BY DEF ResendData
<1> HIDE DEF new
<1> QED
    BY <1>2, <1>3, OneSubKeeps, ItemsSame, ParkedSame, Zenon DEF ResendData

\* mu_server_trigger_event creates and deletes nothing.
LEMMA TriggerEventKeeps ==
    ASSUME TypeOK, TriggerEvent
    PROVE  Keeps
<1>1. ASSUME NEW s \in SubSlots
      PROVE  SameSub(subs[s], subs'[s])
    <2>1. CASE subs[s].in_use /\ subs[s].events < EventDepth
        <3>1. subs[s] \in LiveSubs
            BY <2>1, SubInUse DEF TypeOK, ASub
        <3>4. subs[s].events \in 0 .. EventDepth
            BY <3>1, Zenon DEF LiveSubs
        <3>2. subs[s].events + 1 \in 0 .. EventDepth
            BY <2>1, <3>4
        <3>3. subs'[s] = [subs[s] EXCEPT !.events = subs[s].events + 1]
            BY <2>1 DEF TriggerEvent
        <3> QED
            BY <3>1, <3>2, <3>3, EventsSame
    <2>2. CASE ~(subs[s].in_use /\ subs[s].events < EventDepth)
        BY <2>2, SameReflexive DEF TriggerEvent
    <2> QED
        BY <2>1, <2>2
<1>2. \A s \in SubSlots : subs'[s] \in ASub
    BY <1>1, SameSubType DEF TypeOK, ASub
<1>3. subs' \in [SubSlots -> ASub]
    BY <1>2 DEF TriggerEvent
<1> QED
    BY <1>1, <1>3, SubsKeep, ParkedSame DEF TriggerEvent

\* SetMonitoringMode creates and deletes nothing.
LEMMA SetMonitoringModeKeeps ==
    ASSUME TypeOK, NEW session, NEW s \in SubSlots, NEW i \in ItemSlots, NEW mode \in Modes,
           SetMonitoringMode(session, s, i, mode)
    PROVE  Keeps
<1> DEFINE new == [items[i] EXCEPT !.mode = mode]
<1>1. items[i] \in LiveItems
    BY InSubLive DEF SetMonitoringMode
<1>2. new \in LiveItems /\ new.id = items[i].id /\ new.sub = items[i].sub
    BY <1>1, Zenon DEF LiveItems
<1>3. items' = [items EXCEPT ![i] = new]
    BY DEF SetMonitoringMode
<1> HIDE DEF new
<1> QED
    BY <1>1, <1>2, <1>3, OneItemKeeps, Zenon DEF SetMonitoringMode

\* SetTriggering creates and deletes nothing.
LEMMA TriggerLinksKeep ==
    ASSUME TypeOK, NEW session, NEW s \in SubSlots, NEW i \in ItemSlots, NEW j \in ItemSlots,
           AddTriggerLink(session, s, i, j) \/ RemoveTriggerLink(session, s, i, j)
    PROVE  Keeps
<1>1. items[i] \in LiveItems /\ items[j] \in LiveItems
    BY InSubLive DEF AddTriggerLink, RemoveTriggerLink
<1>2. PICK links \in SUBSET Ids : items' = [items EXCEPT ![i] = [items[i] EXCEPT !.links = links]]
    <2>1. items[i].links \in SUBSET Ids /\ items[j].id \in Ids
        BY <1>1, Zenon DEF LiveItems
    <2> QED
        BY <2>1 DEF AddTriggerLink, RemoveTriggerLink
<1> DEFINE new == [items[i] EXCEPT !.links = links]
<1>3. new \in LiveItems /\ new.id = items[i].id /\ new.sub = items[i].sub
    BY <1>1, Zenon DEF LiveItems
<1>4. UNCHANGED <<subs, parked, nextSubId, nextItemId, activeCount>>
    BY DEF AddTriggerLink, RemoveTriggerLink
<1>5. items' = [items EXCEPT ![i] = new]
    BY <1>2
<1> HIDE DEF new
<1> QED
    BY <1>1, <1>3, <1>4, <1>5, OneItemKeeps, Zenon

\* Publish, parked or refused, creates and deletes no item or subscription.
LEMMA PublishKeeps ==
    ASSUME TypeOK, NEW session \in Sessions, NEW acks,
           \/ \E origin \in Origins : Publish(session, origin, acks)
           \/ PublishRefused(session, acks)
    PROVE  Keeps
<1>1. /\ subs' = Acknowledged(session, acks)
      /\ UNCHANGED <<items, nextSubId, nextItemId, activeCount>>
    BY DEF Publish, PublishRefused
<1>2. parked' \in [RequestSlots -> ARequest]
    <2>1. CASE PublishRefused(session, acks)
        BY <2>1, ParkedSame DEF PublishRefused
    <2>2. ASSUME NEW origin \in Origins, Publish(session, origin, acks)
          PROVE  parked' \in [RequestSlots -> ARequest]
        <3> DEFINE new == [in_use |-> TRUE, session |-> session, origin |-> origin, age |-> 0]
        <3>1. new \in ARequest
            BY DEF ARequest, LiveRequests
        <3>2. \E r \in RequestSlots : parked' = [parked EXCEPT ![r] = new]
            BY <2>2, Zenon DEF Publish
        <3> HIDE DEF new
        <3> QED
            BY <3>1, <3>2 DEF TypeOK, ARequest
    <2> QED
        BY <2>1, <2>2
<1> QED
    BY <1>1, <1>2, SubsKeep, AcknowledgedSame

\* The sampling loop of mu_subscriptions_tick creates and deletes nothing.
LEMMA PollKeeps ==
    ASSUME TypeOK, NEW d \in 1 .. MaxElapsed, NEW outcome, Poll(d, outcome)
    PROVE  Keeps
<1>1. ASSUME NEW s \in SubSlots
      PROVE  SameSub(subs[s], subs'[s])
    <2>1. CASE subs[s].in_use
        <3>1. subs[s] \in LiveSubs
            BY <2>1, SubInUse DEF TypeOK, ASub
        <3>4. subs[s].next \in Int
            BY <3>1, Zenon DEF LiveSubs
        <3>5. d \in Int
            OBVIOUS
        <3>2. Later(subs[s].next, d) \in Int
            BY <3>4, <3>5, LaterType, Zenon
        <3>3. subs'[s] = [subs[s] EXCEPT !.next = Later(subs[s].next, d)]
            BY <2>1 DEF Poll
        <3> QED
            BY <3>1, <3>2, <3>3, NextSame
    <2>2. CASE ~subs[s].in_use
        BY <2>2, SameReflexive DEF Poll
    <2> QED
        BY <2>1, <2>2
<1>2. subs' \in [SubSlots -> ASub]
    <2>1. \A s \in SubSlots : subs'[s] \in ASub
        BY <1>1, SameSubType DEF TypeOK, ASub
    <2> QED
        BY <2>1, ZenonT(30) DEF Poll
<1>3. ASSUME NEW i \in ItemSlots
      PROVE  items'[i] \in AnItem /\ SameItem(items[i], items'[i])
    <2>1. items[i] \in AnItem
        BY DEF TypeOK, AnItem
    <2>2. CASE items[i].in_use /\ Scanned(i)
        <3>1. items[i] \in LiveItems
            BY <2>1, <2>2, ItemInUse
        <3> QED
            BY <2>2, <3>1, SampledSame DEF Poll, SameItem, AnItem
    <2>3. CASE ~(items[i].in_use /\ Scanned(i))
        BY <2>1, <2>3, SameReflexive DEF Poll
    <2> QED
        BY <2>2, <2>3
<1>4. items' \in [ItemSlots -> AnItem]
    BY <1>3 DEF Poll
<1>5. parked' \in [RequestSlots -> ARequest]
    BY AgedType DEF Poll, TypeOK, ARequest
<1> QED
    BY <1>1, <1>2, <1>3, <1>4, <1>5 DEF Keeps, Poll

\* Every outcome of a publishing cycle keeps the items and the subscriptions.
LEMMA PublishDueKeeps ==
    ASSUME TypeOK, PublishDue
    PROVE  Keeps
<1> DEFINE s == cursor
<1>1. s \in SubSlots /\ UNCHANGED <<nextSubId, nextItemId, activeCount>>
    BY DEF PublishDue, TypeOK, SubSlots
<1>2. /\ ReadyItems(s) \in [ItemSlots -> AnItem]
      /\ \A i \in ItemSlots : SameItem(items[i], ReadyItems(s)[i])
    BY <1>1, ReadyItemsSame
<1> HIDE DEF s
<1>3. CASE PublishSkipped(s)
    BY <1>1, <1>3, ItemsSame, ParkedSame, SameReflexive DEF Keeps, TypeOK, ASub, PublishSkipped
<1>4. CASE PublishWaits(s)
    <2>1. subs[s].in_use
        BY <1>4 DEF PublishWaits, Due
    <2>2. SameSub(subs[s], Cycled(s))
        BY <1>1, <2>1, CycledSame
    <2> QED
        BY <1>1, <1>2, <1>4, <2>2, OneSubKeeps, ParkedSame, Zenon DEF PublishWaits
<1>5. CASE PublishCounts(s)
    <2>1. subs[s].in_use
        BY <1>5 DEF PublishCounts, Due
    <2>2. SameSub(subs[s], Counted(Cycled(s), KeepAliveCounted(s)))
        BY <1>1, <2>1, KeepAliveCountedType, CycledSame
    <2>3. /\ subs' = [subs EXCEPT ![s] = Counted(Cycled(s), KeepAliveCounted(s))]
          /\ items' = ReadyItems(s) /\ UNCHANGED parked
        BY <1>5 DEF PublishCounts, Counted
    <2> QED
        BY <1>1, <1>2, <2>2, <2>3, OneSubKeeps, ParkedSame, ZenonT(30)
<1>6. ASSUME NEW r \in RequestSlots,
             \/ PublishData(s, r) \/ PublishTooLarge(s, r)
             \/ PublishKeepAlive(s, r) \/ PublishLost(s, r)
      PROVE  Keeps
    <2>1. subs[s].in_use
        BY <1>6 DEF PublishData, PublishTooLarge, PublishKeepAlive, PublishLost, Due
    <2>2. parked' \in [RequestSlots -> ARequest]
        <3>1. Dequeued(r) \in [RequestSlots -> ARequest]
            BY DequeuedType
        <3> QED
            BY <1>6, <3>1 DEF PublishData, PublishTooLarge, PublishKeepAlive, PublishLost
    <2>3. CASE PublishData(s, r)
        <3>1. /\ items' \in [ItemSlots -> AnItem]
              /\ \A i \in ItemSlots : SameItem(items[i], items'[i])
            <4> DEFINE its == ReadyItems(s)
                       n == Notifications(s)
            <4>1. n \in Nat
                BY <1>1, NotificationsType
            <4>2. items' = ClearReportedItems(its, s, n)
                BY <2>3 DEF PublishData
            <4>3. its \in [ItemSlots -> AnItem] /\ \A i \in ItemSlots : SameItem(items[i], its[i])
                BY <1>2
            <4> HIDE DEF its, n
            <4>4. /\ items' \in [ItemSlots -> AnItem]
                  /\ \A i \in ItemSlots : SameItem(its[i], items'[i])
                BY <4>1, <4>2, <4>3, ClearedSame
            <4> QED
                BY <4>3, <4>4, SameItemTransitive
        <3>2. SameSub(subs[s], Sent(Cycled(s), NextSeq(subs[s].seq), Retained(s)))
            BY <1>1, <2>1, SentSame
        <3>3. subs' = [subs EXCEPT ![s] = Sent(Cycled(s), NextSeq(subs[s].seq), Retained(s))]
            BY <2>3 DEF PublishData, Sent
        <3> QED
            BY <1>1, <2>2, <3>1, <3>2, <3>3, OneSubKeeps, ZenonT(30)
    <2>4. CASE PublishTooLarge(s, r)
        <3>1. SameSub(subs[s], Cycled(s))
            BY <1>1, <2>1, CycledSame
        <3> QED
            BY <1>1, <1>2, <2>2, <2>4, <3>1, OneSubKeeps, Zenon DEF PublishTooLarge
    <2>5. ASSUME PublishKeepAlive(s, r) \/ PublishLost(s, r) PROVE Keeps
        <3>1. /\ KeepAliveCounted(s) \in KeepAliveCounts
              /\ subs[s].keep_alive \in KeepAliveCounts
              /\ 0 \in KeepAliveCounts
            BY <1>1, <2>1, KeepAliveCountedType
        <3>2. PICK k \in KeepAliveCounts : subs' = [subs EXCEPT ![s] = Counted(Cycled(s), k)]
            <4>1. CASE PublishKeepAlive(s, r)
                BY <3>1, <4>1, Zenon DEF PublishKeepAlive, Counted
            <4>2. CASE PublishLost(s, r)
                BY <3>1, <4>2, ZenonT(30) DEF PublishLost, Counted
            <4> QED
                BY <2>5, <4>1, <4>2
        <3>3. SameSub(subs[s], Counted(Cycled(s), k))
            BY <1>1, <2>1, CycledSame
        <3>4. items' = ReadyItems(s)
            BY <2>5 DEF PublishKeepAlive, PublishLost
        <3> QED
            BY <1>1, <1>2, <2>2, <3>2, <3>3, <3>4, OneSubKeeps, Zenon
    <2> QED
        BY <1>6, <2>3, <2>4, <2>5
<1> QED
    BY <1>3, <1>4, <1>5, <1>6 DEF PublishDue, s

-----------------------------------------------------------------------------
(* What a publishing cycle delivers. *)

\* The body of DeliveredOnce.
Delivered ==
    \A i \in ItemSlots :
        items'[i].count + wire'.written[i] =
          IF Due(cursor) THEN ReadyItems(cursor)[i].count ELSE items[i].count

\* Every outcome of a publishing cycle delivers what it takes.
LEMMA PublishDueDelivers ==
    ASSUME TypeOK, PublishDue
    PROVE  Delivered
<1> DEFINE s == cursor
<1>1. s \in SubSlots
    BY DEF PublishDue, TypeOK, SubSlots
<1>2. ReadyItems(s) \in [ItemSlots -> AnItem] /\ items \in [ItemSlots -> AnItem]
    BY <1>1, ReadyItemsSame DEF TypeOK, AnItem
<1>3. \A i \in ItemSlots : ReadyItems(s)[i].count \in Nat /\ items[i].count \in Nat
    BY <1>2, CountType
<1>4. \A i \in ItemSlots : Silence.written[i] = 0
    BY DEF Silence
<1>5. ASSUME NEW kind, NEW r
      PROVE  \A i \in ItemSlots : Response(kind, s, r).written[i] = 0
    BY DEF Response, Silence
<1> HIDE DEF s
<1>6. CASE PublishSkipped(s)
    BY <1>3, <1>4, <1>6 DEF PublishSkipped, Delivered, s
<1>7. CASE PublishWaits(s) \/ PublishCounts(s) \/ \E r \in RequestSlots : PublishLost(s, r)
    <2>1. Due(s) /\ items' = ReadyItems(s) /\ wire' = Silence
        BY <1>7 DEF PublishWaits, PublishCounts, PublishLost
    <2> QED
        BY <1>3, <1>4, <2>1 DEF Delivered, s
<1>8. ASSUME NEW r \in RequestSlots, PublishTooLarge(s, r) \/ PublishKeepAlive(s, r)
      PROVE  Delivered
    <2>1. /\ Due(s) /\ items' = ReadyItems(s)
          /\ \E kind \in {"fault", "keep_alive"} : wire' = Response(kind, s, r)
        BY <1>8 DEF PublishTooLarge, PublishKeepAlive
    <2>2. \A i \in ItemSlots : wire'.written[i] = 0
        BY <1>5, <2>1
    <2> QED
        BY <1>3, <2>1, <2>2 DEF Delivered, s
<1>9. ASSUME NEW r \in RequestSlots, PublishData(s, r)
      PROVE  Delivered
    <2> DEFINE its == ReadyItems(s)
               n == Notifications(s)
    <2>1. Due(s) /\ items' = ClearReportedItems(its, s, n)
        BY <1>9 DEF PublishData
    <2>2. wire'.written = Written(its, s, n)
        BY <1>9 DEF PublishData, Response, Silence
    <2>3. n \in Nat /\ its \in [ItemSlots -> AnItem]
        BY <1>1, <1>2, NotificationsType, SMTT(30)
    <2> HIDE DEF its, n
    <2>4. \A i \in ItemSlots : items'[i].count + wire'.written[i] = its[i].count
        BY <2>1, <2>2, <2>3, ClearedIsWritten
    <2> QED
        BY <2>1, <2>4 DEF Delivered, its, s
<1> QED
    BY <1>6, <1>7, <1>8, <1>9, SMTT(30) DEF PublishDue, s
=============================================================================
