---------------------------- MODULE ReportQueue ----------------------------
(***************************************************************************)
(* What the report queue of a monitored item promises its subscriber, as a  *)
(* bounded FIFO of reports.  A report is the number of the sample it        *)
(* carries (samples are numbered in the order they were reported) and the   *)
(* Overflow info bit of its status.  MonitoredItem refines this module.     *)
(***************************************************************************)
EXTENDS Integers, Sequences

VARIABLES
    size,           \* the revised queueSize, at least one
    discardOldest,  \* the discardOldest flag of CreateMonitoredItems
    queue,          \* the reports waiting for a Publish response
    produced,       \* number of the last sample reported
    received        \* number of the last sample delivered to the subscriber

vars == <<size, discardOldest, queue, produced, received>>

Report(n) == [n |-> n, overflow |-> FALSE]

MarkFirst(q) == [q EXCEPT ![1].overflow = TRUE]

MarkLast(q) == [q EXCEPT ![Len(q)].overflow = TRUE]

AllButLast(q) == SubSeq(q, 1, Len(q) - 1)

Enqueue(q, report) ==
    IF Len(q) < size THEN Append(q, report)
    ELSE IF discardOldest THEN MarkFirst(Append(Tail(q), report))
    ELSE MarkLast(Append(AllButLast(q), report))

EnqueueUpTo(q, n, m) ==
    IF m = 0 THEN q
    ELSE IF m = 1 THEN Enqueue(q, Report(n + 1))
    ELSE Enqueue(Enqueue(q, Report(n + 1)), Report(n + 2))

Init == size \in Nat \ {0} /\ discardOldest \in BOOLEAN /\ queue = <<>> /\ produced = 0 /\ received = 0

(***************************************************************************)
(* One service call or one tick reports at most two samples (the value of   *)
(* the creation and a changed one, or the value of the creation and a       *)
(* resent one) and then delivers the first reports of the queue.            *)
(***************************************************************************)
Step(m, k) ==
    LET filled == EnqueueUpTo(queue, produced, m) IN
    /\ k <= Len(filled)
    /\ queue' = SubSeq(filled, k + 1, Len(filled))
    /\ produced' = produced + m
    /\ UNCHANGED <<size, discardOldest>>
    /\ received' = IF k = 0 THEN received ELSE filled[k].n

Next == \E m \in 0 .. 2, k \in 0 .. size : Step(m, k)

Spec == Init /\ [][Next]_vars
=============================================================================
