------------------------ MODULE Subscription_proofs ------------------------
(***************************************************************************)
(* Proofs about Subscription.  IInv is inductive: the steps that create and *)
(* delete nothing are covered by Subscription_steps, the others are proved  *)
(* here one by one.                                                         *)
(***************************************************************************)
EXTENDS Subscription_steps

USE CapacityAssumption, ParameterAssumption DEF CapacityAssumption, ParameterAssumption

-----------------------------------------------------------------------------
(* Steps that create or delete. *)

\* The occupied item slots, of which ActiveCountExact speaks.
Occupied(its) == {i \in ItemSlots : its[i].in_use}

\* There are at most NItems occupied slots.
LEMMA OccupiedFinite ==
    ASSUME NEW its
    PROVE  /\ IsFiniteSet(Occupied(its))
           /\ Cardinality(Occupied(its)) \in 0 .. NItems
<1>1. Occupied(its) \in SUBSET ItemSlots
    BY DEF Occupied
<1>2. IsFiniteSet(Occupied(its)) /\ Cardinality(Occupied(its)) <= NItems
    BY <1>1, SlotsFinite, FS_Subset
<1>3. Cardinality(Occupied(its)) \in Nat
    BY <1>2, FS_CardinalityType
<1> QED
    BY <1>2, <1>3

\* The records CreateSubscription and CreateMonitoredItem write.
NewSub(id, session, interval, keepAlive, cap, enabled) ==
    [Parameters(FreeSub, interval, keepAlive, cap) EXCEPT
        !.in_use = TRUE, !.id = id, !.session = session,
        !.enabled = enabled, !.next = interval, !.seq = 1]

NewItem(id, sub, attribute, mode, size, read) ==
    [FreeItem EXCEPT
        !.in_use = TRUE, !.id = id, !.sub = sub, !.attribute = attribute, !.mode = mode,
        !.size = size, !.pending = read, !.has_value = read]

\* CreateSubscription writes a well-formed subscription with an empty slot.
LEMMA NewSubLive ==
    ASSUME NEW id \in Ids, NEW session \in Sessions, NEW interval \in Intervals,
           NEW keepAlive \in KeepAlives, NEW cap \in NotificationCaps, NEW enabled \in Enabled
    PROVE  LET new == NewSub(id, session, interval, keepAlive, cap, enabled) IN
           new \in LiveSubs /\ new.id = id /\ new.retained = 0
<1> DEFINE new == NewSub(id, session, interval, keepAlive, cap, enabled)
<1>1. 1 \in Seqs /\ 0 \in 0 .. KeepAliveMax /\ 0 \in 0 .. EventDepth
    BY DEF Seqs
<1>2. interval \in Int /\ enabled \in BOOLEAN
    OBVIOUS
<1>3. new \in LiveSubs
    BY <1>1, <1>2, Zenon DEF NewSub, LiveSubs, FreeSub, Parameters
<1>4. new.id = id /\ new.retained = 0
    BY DEF NewSub, FreeSub, Parameters
<1> QED
    BY <1>3, <1>4

\* CreateMonitoredItems writes a well-formed item.
LEMMA NewItemLive ==
    ASSUME NEW id \in Ids, NEW sub \in Ids, NEW attribute \in Attributes, NEW mode \in Modes,
           NEW size \in QueueSizes, NEW read \in BOOLEAN
    PROVE  LET new == NewItem(id, sub, attribute, mode, size, read) IN
           new \in LiveItems /\ new.id = id /\ new.sub = sub
<1>1. NewItem(id, sub, attribute, mode, size, read) \in LiveItems
    BY ZenonT(30) DEF NewItem, LiveItems, FreeItem
<1>2. LET new == NewItem(id, sub, attribute, mode, size, read) IN new.id = id /\ new.sub = sub
    BY DEF NewItem, FreeItem
<1> QED
    BY <1>1, <1>2

\* The new subscription's id is fresh, so it inherits no item.
LEMMA CreateSubscriptionInv ==
    ASSUME IInv, NEW session \in Sessions, NEW interval \in Intervals, NEW keepAlive \in KeepAlives,
           NEW cap \in NotificationCaps, NEW enabled \in Enabled,
           CreateSubscription(session, interval, keepAlive, cap, enabled), UNCHANGED <<cursor, link>>
    PROVE  IInv'
<1> PICK s \in SubSlots, k \in 0 .. NSubs :
        /\ FirstFree(subs, SubSlots, s)
        /\ Allocates(subs, SubSlots, nextSubId, k)
        /\ subs' = [subs EXCEPT ![s] =
              NewSub(IdAfter(nextSubId, k), session, interval, keepAlive, cap, enabled)]
        /\ nextSubId' = IdAfter(nextSubId, k + 1)
        /\ UNCHANGED <<items, parked, nextItemId, activeCount>>
    BY Zenon DEF CreateSubscription, NewSub
<1> DEFINE new == NewSub(IdAfter(nextSubId, k), session, interval, keepAlive, cap, enabled)
<1>1. nextSubId \in Ids /\ k \in Nat /\ k + 1 \in Nat
    BY DEF IInv, TypeOK
<1>2. IdAfter(nextSubId, k) \in Ids /\ IdAfter(nextSubId, k + 1) \in Ids
    BY <1>1, IdAfterType
<1>3. new \in LiveSubs /\ new.id = IdAfter(nextSubId, k) /\ new.retained = 0
    BY <1>2, NewSubLive
<1>4. subs' = [subs EXCEPT ![s] = new]
    OBVIOUS
<1> HIDE DEF new
<1>5. TypeOK'
    BY <1>2, <1>3, <1>4 DEF IInv, TypeOK
<1>6. ~subs[s].in_use /\ \A t \in SubSlots : subs[t].in_use => subs[t].id # new.id
    BY <1>3 DEF FirstFree, Allocates, InUse
<1>7. \A t \in SubSlots : subs'[t] = IF t = s THEN new ELSE subs[t]
    BY <1>4 DEF IInv, TypeOK
<1>8. IdsUnique'
    <2>1. ASSUME NEW a \in SubSlots, NEW b \in SubSlots,
                 subs'[a].in_use, subs'[b].in_use, subs'[a].id = subs'[b].id
          PROVE  a = b
        <3>1. CASE a # s /\ b # s
            BY <1>7, <2>1, <3>1 DEF IInv, IdsUnique
        <3>2. CASE a = s \/ b = s
            BY <1>6, <1>7, <2>1, <3>2
        <3> QED
            BY <3>1, <3>2
    <2> QED
        BY <2>1 DEF IInv, IdsUnique
<1>9. NoOrphanItems'
    BY <1>6, <1>7 DEF IInv, NoOrphanItems
<1>10. ActiveCountExact'
    BY DEF IInv, ActiveCountExact
<1>11. RetainedIsPrevious'
    BY <1>3, <1>7 DEF IInv, RetainedIsPrevious
<1> QED
    BY <1>5, <1>8, <1>9, <1>10, <1>11, SMTT(30) DEF IInv

\* The new item's id is fresh, its owner is live and it is counted.
LEMMA CreateMonitoredItemInv ==
    ASSUME IInv, NEW session, NEW s \in SubSlots, NEW attribute \in Attributes, NEW mode \in Modes,
           NEW size \in QueueSizes, NEW read \in BOOLEAN,
           CreateMonitoredItem(session, s, attribute, mode, size, read), UNCHANGED <<cursor, link>>
    PROVE  IInv'
<1> PICK i \in ItemSlots, k \in 0 .. NItems :
        /\ Owns(session, s)
        /\ FirstFree(items, ItemSlots, i)
        /\ Allocates(items, ItemSlots, nextItemId, k)
        /\ items' = [items EXCEPT ![i] =
              NewItem(IdAfter(nextItemId, k), subs[s].id, attribute, mode, size, read)]
        /\ nextItemId' = IdAfter(nextItemId, k + 1)
        /\ activeCount' = activeCount + 1
        /\ UNCHANGED <<subs, parked, nextSubId>>
    BY Zenon DEF CreateMonitoredItem, NewItem
<1> DEFINE new == NewItem(IdAfter(nextItemId, k), subs[s].id, attribute, mode, size, read)
<1>1. nextItemId \in Ids /\ k \in Nat /\ k + 1 \in Nat
    BY DEF IInv, TypeOK
<1>2. IdAfter(nextItemId, k) \in Ids /\ IdAfter(nextItemId, k + 1) \in Ids
    BY <1>1, IdAfterType
<1>3. subs[s] \in LiveSubs /\ subs[s].in_use /\ subs[s].id \in Ids
    <2>1. subs[s] \in LiveSubs
        BY OwnsLive DEF IInv
    <2> QED
        BY <2>1, ZenonT(30) DEF LiveSubs
<1>4. new \in LiveItems /\ new.id = IdAfter(nextItemId, k) /\ new.sub = subs[s].id
    BY <1>2, <1>3, NewItemLive
<1>5. new.in_use
    BY <1>4, ItemInUse DEF AnItem
<1>6. items' = [items EXCEPT ![i] = new]
    OBVIOUS
<1> HIDE DEF new
<1>7. ~items[i].in_use /\ \A j \in ItemSlots : items[j].in_use => items[j].id # new.id
    BY <1>4 DEF FirstFree, Allocates, InUse
<1>8. \A j \in ItemSlots : items'[j] = IF j = i THEN new ELSE items[j]
    BY <1>6 DEF IInv, TypeOK
<1>9. activeCount' = Cardinality(Occupied(items'))
    <2>1. Occupied(items') = Occupied(items) \cup {i} /\ i \notin Occupied(items)
        BY <1>5, <1>7, <1>8 DEF Occupied
    <2>2. Cardinality(Occupied(items')) = Cardinality(Occupied(items)) + 1
        BY <2>1, OccupiedFinite, FS_AddElement, ZenonT(30)
    <2> QED
        BY <2>2 DEF IInv, ActiveCountExact, Occupied
<1>10. activeCount' \in 0 .. NItems
    BY <1>9, OccupiedFinite
<1>11. TypeOK'
    <2>1. items' \in [ItemSlots -> {FreeItem} \cup LiveItems]
        BY <1>4, <1>6 DEF IInv, TypeOK
    <2> QED
        BY <1>2, <1>10, <2>1 DEF IInv, TypeOK
<1>12. IdsUnique'
    <2>1. ASSUME NEW a \in ItemSlots, NEW b \in ItemSlots,
                 items'[a].in_use, items'[b].in_use, items'[a].id = items'[b].id
          PROVE  a = b
        <3>1. CASE a # i /\ b # i
            BY <1>8, <2>1, <3>1 DEF IInv, IdsUnique
        <3>2. CASE a = i \/ b = i
            BY <1>7, <1>8, <2>1, <3>2
        <3> QED
            BY <3>1, <3>2
    <2> QED
        BY <2>1 DEF IInv, IdsUnique
<1>13. NoOrphanItems'
    BY <1>3, <1>4, <1>8 DEF IInv, NoOrphanItems
<1>14. ActiveCountExact'
    BY <1>9 DEF ActiveCountExact, Occupied
<1>15. RetainedIsPrevious'
    BY DEF IInv, RetainedIsPrevious
<1> QED
    BY <1>11, <1>12, <1>13, <1>14, <1>15, SMTT(30) DEF IInv

\* The items that go with a subscription are the ones uncounted.
LEMMA DeleteSubscriptionInv ==
    ASSUME IInv, NEW session, NEW s \in SubSlots,
           DeleteSubscription(session, s), UNCHANGED <<cursor, link>>
    PROVE  IInv'
<1> DEFINE gone == {i \in ItemSlots : InSub(items, s, i)}
<1>1. /\ \A i \in ItemSlots : items'[i] = IF i \in gone THEN FreeItem ELSE items[i]
      /\ items' = [i \in ItemSlots |-> items'[i]]
    BY DEF DeleteSubscription
<1>2. ~FreeItem.in_use /\ ~FreeSub.in_use /\ FreeSub.retained = 0
    BY DEF FreeItem, FreeSub
<1>3. \A t \in SubSlots : subs'[t] = IF t = s THEN FreeSub ELSE subs[t]
    BY DEF DeleteSubscription, IInv, TypeOK
<1>4. activeCount' = Cardinality(Occupied(items'))
    <2>1. gone \in SUBSET Occupied(items) /\ Occupied(items') = Occupied(items) \ gone
        BY <1>1, <1>2 DEF Occupied, InSub
    <2>2. activeCount = Cardinality(Occupied(items)) /\ activeCount \in Nat
        BY DEF IInv, TypeOK, ActiveCountExact, Occupied
    <2>3. activeCount' = IF activeCount > Cardinality(gone)
                           THEN activeCount - Cardinality(gone) ELSE 0
        BY DEF DeleteSubscription
    <2> HIDE DEF gone
    <2>4. Cardinality(gone) \in Nat /\ Cardinality(gone) <= activeCount
        <3>1. IsFiniteSet(gone) /\ Cardinality(gone) <= activeCount
            BY <2>1, <2>2, OccupiedFinite, FS_Subset
        <3> QED
            BY <3>1, FS_CardinalityType
    <2>5. Cardinality(Occupied(items) \ gone) = activeCount - Cardinality(gone)
        <3>1. Occupied(items) \cap gone = gone
            BY <2>1
        <3>2. Cardinality(Occupied(items) \ gone) =
                  Cardinality(Occupied(items)) - Cardinality(Occupied(items) \cap gone)
            BY OccupiedFinite, FS_Difference, ZenonT(30)
        <3> QED
            BY <2>2, <3>1, <3>2, Zenon
    <2> QED
        BY <2>1, <2>2, <2>3, <2>4, <2>5
<1>5. activeCount' \in 0 .. NItems
    BY <1>4, OccupiedFinite
<1>6. TypeOK'
    <2>1. items' \in [ItemSlots -> {FreeItem} \cup LiveItems]
        <3>1. \A i \in ItemSlots : items'[i] \in {FreeItem} \cup LiveItems
            BY <1>1 DEF IInv, TypeOK
        <3> QED
            BY <1>1, <3>1
    <2>2. subs' \in [SubSlots -> {FreeSub} \cup LiveSubs]
        BY DEF DeleteSubscription, IInv, TypeOK
    <2> QED
        BY <1>5, <2>1, <2>2 DEF DeleteSubscription, IInv, TypeOK
<1>7. IdsUnique'
    BY <1>1, <1>2, <1>3 DEF IInv, IdsUnique
<1>8. NoOrphanItems'
    <2> SUFFICES ASSUME NEW i \in ItemSlots, items'[i].in_use
                 PROVE  \E t \in SubSlots : subs'[t].in_use /\ subs'[t].id = items'[i].sub
        BY DEF NoOrphanItems
    <2>1. i \notin gone /\ items'[i] = items[i]
        BY <1>1, <1>2
    <2>2. PICK t \in SubSlots : subs[t].in_use /\ subs[t].id = items[i].sub
        BY <2>1 DEF IInv, NoOrphanItems
    <2>3. t # s
        BY <2>1, <2>2 DEF InSub
    <2> QED
        BY <1>3, <2>1, <2>2, <2>3
<1>9. ActiveCountExact'
    BY <1>4 DEF ActiveCountExact, Occupied
<1>10. RetainedIsPrevious'
    BY <1>2, <1>3 DEF IInv, RetainedIsPrevious
<1> QED
    BY <1>6, <1>7, <1>8, <1>9, <1>10 DEF IInv

\* A deleted item is uncounted once.
LEMMA DeleteMonitoredItemInv ==
    ASSUME IInv, NEW session, NEW s \in SubSlots, NEW i \in ItemSlots,
           DeleteMonitoredItem(session, s, i), UNCHANGED <<cursor, link>>
    PROVE  IInv'
<1>1. \A j \in ItemSlots : items'[j] = IF j = i THEN FreeItem ELSE items[j]
    BY DEF DeleteMonitoredItem, IInv, TypeOK
<1>2. ~FreeItem.in_use
    BY DEF FreeItem
<1>3. activeCount' = Cardinality(Occupied(items'))
    <2>1. i \in Occupied(items) /\ Occupied(items') = Occupied(items) \ {i}
        BY <1>1, <1>2 DEF Occupied, DeleteMonitoredItem, InSub
    <2>2. activeCount = Cardinality(Occupied(items)) /\ activeCount \in Nat
        BY DEF IInv, TypeOK, ActiveCountExact, Occupied
    <2>3. Cardinality(Occupied(items')) = activeCount - 1
        <3>1. IsFiniteSet(Occupied(items))
            BY OccupiedFinite
        <3>2. Cardinality(Occupied(items) \ {i}) = Cardinality(Occupied(items)) - 1
            BY <2>1, <3>1, FS_RemoveElement, ZenonT(30)
        <3> QED
            BY <2>1, <2>2, <3>2
    <2>4. activeCount # 0
        <3>1. Occupied(items) # {} /\ IsFiniteSet(Occupied(items))
            BY <2>1, OccupiedFinite
        <3>2. Cardinality(Occupied(items)) # 0
            BY <3>1, FS_EmptySet
        <3> QED
            BY <2>2, <3>2
    <2> QED
        BY <2>2, <2>3, <2>4 DEF DeleteMonitoredItem
<1>4. activeCount' \in 0 .. NItems
    BY <1>3, OccupiedFinite
<1>5. TypeOK'
    BY <1>4 DEF DeleteMonitoredItem, IInv, TypeOK
<1>6. IdsUnique'
    BY <1>1, <1>2 DEF DeleteMonitoredItem, IInv, IdsUnique
<1>7. NoOrphanItems'
    BY <1>1, <1>2 DEF DeleteMonitoredItem, IInv, NoOrphanItems
<1>8. ActiveCountExact'
    BY <1>3 DEF ActiveCountExact, Occupied
<1>9. RetainedIsPrevious'
    BY DEF DeleteMonitoredItem, IInv, RetainedIsPrevious
<1> QED
    BY <1>5, <1>6, <1>7, <1>8, <1>9 DEF IInv

-----------------------------------------------------------------------------
(* The invariant. *)

\* An engine without subscriptions satisfies the invariant.
LEMMA InitInv == Init => IInv
<1> SUFFICES ASSUME Init PROVE IInv
    OBVIOUS
<1>1. ~FreeItem.in_use /\ ~FreeSub.in_use /\ FreeSub.retained = 0
    BY DEF FreeItem, FreeSub
<1>2. TypeOK
    BY DEF Init, TypeOK, Ids
<1>3. IdsUnique /\ NoOrphanItems /\ RetainedIsPrevious
    BY <1>1 DEF Init, IdsUnique, NoOrphanItems, RetainedIsPrevious
<1>4. ActiveCountExact
    <2>1. Occupied(items) = {}
        BY <1>1 DEF Init, Occupied
    <2> QED
        BY <2>1, FS_EmptySet, ZenonT(30) DEF Init, ActiveCountExact, Occupied
<1> QED
    BY <1>2, <1>3, <1>4 DEF IInv

\* Every service preserves the invariant.
LEMMA ServiceInv ==
    ASSUME IInv, NEW session \in Sessions, Service(session), UNCHANGED <<cursor, link>>
    PROVE  IInv'
<1>1. TypeOK /\ cursor' \in 0 .. NSubs /\ link' \in [Sessions -> Links]
    BY DEF IInv, TypeOK
<1>2. CASE SubscriptionService(session)
    <2>1. ASSUME NEW interval \in Intervals, NEW keepAlive \in KeepAlives,
                 NEW cap \in NotificationCaps, NEW enabled \in Enabled,
                 CreateSubscription(session, interval, keepAlive, cap, enabled)
          PROVE  IInv'
        BY <2>1, CreateSubscriptionInv
    <2>2. ASSUME NEW s \in SubSlots, NEW interval \in Intervals, NEW keepAlive \in KeepAlives,
                 NEW cap \in NotificationCaps,
                 ModifySubscription(session, s, interval, keepAlive, cap)
          PROVE  IInv'
        BY <1>1, <2>2, ModifySubscriptionKeeps, KeepsInvariant
    <2>3. ASSUME NEW s \in SubSlots, NEW enabled \in Enabled,
                 SetPublishingMode(session, s, enabled)
          PROVE  IInv'
        BY <1>1, <2>3, SetPublishingModeKeeps, KeepsInvariant
    <2>4. ASSUME NEW s \in SubSlots, DeleteSubscription(session, s)
          PROVE  IInv'
        BY <2>4, DeleteSubscriptionInv
    <2>5. ASSUME NEW s \in SubSlots, ResendData(session, s)
          PROVE  IInv'
        BY <1>1, <2>5, ResendDataKeeps, KeepsInvariant
    <2> QED
        BY <1>2, <2>1, <2>2, <2>3, <2>4, <2>5, SMTT(30) DEF SubscriptionService
<1>3. ASSUME NEW s \in SubSlots, ItemService(session, s)
      PROVE  IInv'
    <2>1. ASSUME NEW attribute \in Attributes, NEW mode \in Modes, NEW size \in QueueSizes,
                 NEW read \in BOOLEAN,
                 CreateMonitoredItem(session, s, attribute, mode, size, read)
          PROVE  IInv'
        BY <2>1, CreateMonitoredItemInv
    <2>2. ASSUME NEW i \in ItemSlots, NEW mode \in Modes, SetMonitoringMode(session, s, i, mode)
          PROVE  IInv'
        BY <1>1, <2>2, SetMonitoringModeKeeps, KeepsInvariant
    <2>3. ASSUME NEW i \in ItemSlots, DeleteMonitoredItem(session, s, i)
          PROVE  IInv'
        BY <2>3, DeleteMonitoredItemInv
    <2>4. ASSUME NEW i \in ItemSlots, NEW j \in ItemSlots,
                 AddTriggerLink(session, s, i, j) \/ RemoveTriggerLink(session, s, i, j)
          PROVE  IInv'
        BY <1>1, <2>4, TriggerLinksKeep, KeepsInvariant
    <2> QED
        BY <1>3, <2>1, <2>2, <2>3, <2>4 DEF ItemService
<1>4. CASE PublishService(session)
    <2>1. PICK acks : \/ \E origin \in Origins : Publish(session, origin, acks)
                      \/ PublishRefused(session, acks)
        BY <1>4 DEF PublishService
    <2> QED
        BY <1>1, <2>1, PublishKeeps, KeepsInvariant
<1> QED
    BY <1>2, <1>3, <1>4 DEF Service

\* Every step preserves the invariant.
LEMMA NextInv ==
    ASSUME IInv, [Next]_vars
    PROVE  IInv'
<1>1. TypeOK
    BY DEF IInv
<1>2. ASSUME NEW session \in Sessions, Service(session), BetweenTicks, UNCHANGED link
      PROVE  IInv'
    BY <1>2, ServiceInv DEF BetweenTicks
<1>3. CASE TriggerEvent /\ BetweenTicks /\ UNCHANGED link
    BY <1>1, <1>3, TriggerEventKeeps, KeepsInvariant DEF BetweenTicks, TypeOK
<1>4. CASE Tick
    <2>1. ASSUME NEW d \in 1 .. MaxElapsed, NEW outcome, Poll(d, outcome), UNCHANGED link
          PROVE  IInv'
        <3>1. cursor' \in 0 .. NSubs /\ link' \in [Sessions -> Links]
            BY <1>1, <2>1 DEF Poll, TypeOK
        <3> QED
            BY <1>1, <2>1, <3>1, PollKeeps, KeepsInvariant
    <2>2. CASE PublishDue /\ Emitted
        <3>1. cursor' \in 0 .. NSubs
            BY <1>1, <2>2 DEF PublishDue, TypeOK
        <3>2. link' \in [Sessions -> Links]
            BY <1>1, <2>2 DEF Emitted, TypeOK
        <3> QED
            BY <1>1, <2>2, <3>1, <3>2, PublishDueKeeps, KeepsInvariant, SMTT(30)
    <2> QED
        BY <1>4, <2>1, <2>2 DEF Tick
<1>5. CASE Connections \/ UNCHANGED vars
    <2>1. /\ cursor' \in 0 .. NSubs /\ link' \in [Sessions -> Links]
          /\ UNCHANGED <<subs, items, parked, nextSubId, nextItemId, activeCount>>
        BY <1>1, <1>5, SMTT(30) DEF Connections, vars, TypeOK
    <2>2. Keeps
        BY <1>1, <2>1, ItemsSame, ParkedSame, SameReflexive DEF Keeps, TypeOK, ASub
    <2> QED
        BY <2>1, <2>2, KeepsInvariant
<1> QED
    BY <1>2, <1>3, <1>4, <1>5 DEF Next

\* IInv holds in every reachable state, for tables and ids of any size.
THEOREM Invariant == Spec => []IInv
<1>1. IInv /\ [Next]_vars => IInv'
    BY NextInv
<1> QED
    BY InitInv, <1>1, PTL DEF Spec

\* Every slot is free or holds a well-formed record, whatever the sizes of the tables.
THEOREM TypeCorrect == Spec => []TypeOK
<1>1. IInv => TypeOK
    BY DEF IInv
<1> QED
    BY Invariant, <1>1, PTL

\* No two live subscriptions, and no two live items, share an id, also after the
\* allocators wrapped.
THEOREM UniqueIds == Spec => []IdsUnique
<1>1. IInv => IdsUnique
    BY DEF IInv
<1> QED
    BY Invariant, <1>1, PTL

\* Every live item belongs to a live subscription.
THEOREM NoOrphans == Spec => []NoOrphanItems
<1>1. IInv => NoOrphanItems
    BY DEF IInv
<1> QED
    BY Invariant, <1>1, PTL

\* active_monitored_items_count is the number of occupied slots.
THEOREM CountExact == Spec => []ActiveCountExact
<1>1. IInv => ActiveCountExact
    BY DEF IInv
<1> QED
    BY Invariant, <1>1, PTL

\* The message in the retransmission slot is the one before the next.
THEOREM RetainedPrevious == Spec => []RetainedIsPrevious
<1>1. IInv => RetainedIsPrevious
    BY DEF IInv
<1> QED
    BY Invariant, <1>1, PTL

\* For any number of items, any links and any cap, what leaves the rings in a publishing
\* cycle is what the response of that cycle carries.
THEOREM Delivery == Spec => DeliveredOnce
<1>1. TypeOK /\ [Next]_vars => [cursor > 0 => Delivered]_vars
    <2> SUFFICES ASSUME TypeOK, Next, cursor > 0 PROVE Delivered
        OBVIOUS
    <2>1. cursor # 0
        BY DEF TypeOK
    <2>2. PublishDue
        BY <2>1 DEF Next, BetweenTicks, Tick, Poll, Connections
    <2> QED
        BY <2>2, PublishDueDelivers
<1>2. Spec => [][cursor > 0 => Delivered]_vars
    BY TypeCorrect, <1>1, PTL DEF Spec
<1> QED
    BY <1>2 DEF DeliveredOnce, Delivered
=============================================================================
