----------------------------- MODULE SyncQueue -----------------------------
(* The promise of SchedulerQueue<SynchronizationPoint>: a collection of sync *)
(* points served in order of time and, for equal times, in order of          *)
(* insertion.  It is a set of records; `ticket' is the history of insertion  *)
(* that the source keeps implicitly as the place of an element in an array.  *)
(* SchedulerQueue.tla is the array and is shown to implement this.           *)
EXTENDS Integers

\* std::find_if meets elements in this order, and front() is the first of it.
Before(p, q) == p.time < q.time \/ (p.time = q.time /\ p.ticket < q.ticket)

\* Mutant of IsFront: points served in the order they were registered.
IsOldest(p, Q) == p \in Q /\ \A q \in Q \ {p} : p.ticket < q.ticket

IsFront(p, Q) == p \in Q /\ \A q \in Q \ {p} : Before(p, q)

\* A new element goes after every element with an equal time.
IsNextTicket(k, Q) == /\ \A q \in Q : q.ticket < k
                      /\ k = 1 \/ \E q \in Q : q.ticket = k - 1

PointsOf(d, Q) == {p \in Q : p.device = d}

\* remove() takes away the first match only, remove_all() every match.
WithoutFirstOf(d, Q) == {p \in Q : p.device = d => \E q \in PointsOf(d, Q) : Before(q, p)}
WithoutAllOf(d, Q)   == Q \ PointsOf(d, Q)
=============================================================================
