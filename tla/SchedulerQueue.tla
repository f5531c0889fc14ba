--------------------------- MODULE SchedulerQueue ---------------------------
(* SchedulerQueue<SynchronizationPoint> (src/src/SchedulerQueue.hh): an      *)
(* array with spare room at both ends and one slot more for a sentinel.      *)
(* `ticket' is carried along as the history of insertion; no operation of    *)
(* the array looks at it.                                                    *)
EXTENDS SyncQueue, FiniteSets

CONSTANTS Devices,      \* the Schedulables
          MaxTime,      \* bound: times are 0..MaxTime
          Tickets,      \* bound: insertion numbers of pending elements
          CAPACITY,     \* initial capacity
          MaxCapacity   \* bound: capacity after insertRealloc

ASSUME CapacityAssumption ==
    /\ CAPACITY \in Nat /\ CAPACITY >= 2 /\ MaxCapacity \in Nat /\ MaxCapacity >= CAPACITY
    /\ MaxTime \in Nat /\ Tickets \subseteq Nat

VARIABLES storage,   \* slots 0..storageEnd; the last one is for the sentinel
          useBegin, useEnd

vars == <<storage, useBegin, useEnd>>

SPARE_FRONT == 1
Infinity    == MaxTime + 1
Times       == 0..MaxTime
Elem        == [time : Times, device : Devices, ticket : Tickets]
Raw         == [time |-> Infinity, device |-> "none", ticket |-> 0]
\* Raw is an uninitialised slot and also what setSentinel leaves in one: what
\* is in a slot outside [useBegin, useEnd) is never told apart.

storageEnd == Cardinality(DOMAIN storage) - 1

Live == useBegin..(useEnd - 1)

\* "Invariant: storage.data() <= useBegin <= useEnd <= storageEnd" (line 143),
\* and every slot in use holds an element that was inserted.
TypeOK ==
    /\ DOMAIN storage = 0..storageEnd /\ storageEnd \in CAPACITY..MaxCapacity
    /\ useBegin \in 0..storageEnd /\ useEnd \in useBegin..storageEnd
    /\ \A i \in Live : storage[i] \in Elem

Init ==
    /\ storage = [i \in 0..CAPACITY |-> Raw]
    /\ useBegin = SPARE_FRONT /\ useEnd = SPARE_FRONT

-----------------------------------------------------------------------------
Less(x, y) == x.time < y.time

\* while (!less(t, *it)) ++it;   the sentinel at useEnd ends it
InsertionPoint(t) ==
    CHOOSE it \in useBegin..useEnd :
      /\ it = useEnd \/ Less(t, storage[it])
      /\ \A i \in useBegin..(it - 1) : ~Less(t, storage[i])

\* Elements before `it' move one slot to the front.
InsertFront(it, t) ==
    /\ useBegin' = useBegin - 1 /\ useEnd' = useEnd
    /\ storage' = [i \in DOMAIN storage |->
                     IF i = it - 1 THEN t
                     ELSE IF i \in (useBegin - 1)..(it - 2) THEN storage[i + 1]
                     ELSE storage[i]]

\* Mutant of InsertBack: std::copy where std::copy_backward is needed.
InsertBackForward(it, t) ==
    /\ useBegin' = useBegin /\ useEnd' = useEnd + 1
    /\ storage' = [i \in DOMAIN storage |->
                     IF i = it THEN t
                     ELSE IF i \in (it + 1)..useEnd THEN storage[it]
                     ELSE storage[i]]

\* Elements from `it' on move one slot to the back.
InsertBack(it, t) ==
    /\ useBegin' = useBegin /\ useEnd' = useEnd + 1
    /\ storage' = [i \in DOMAIN storage |->
                     IF i = it THEN t
                     ELSE IF i \in (it + 1)..useEnd THEN storage[i - 1]
                     ELSE storage[i]]

\* Both ends are full: move to an array twice as large, leaving SPARE_FRONT.
InsertRealloc(it, t) ==
    LET oldSize == storageEnd
        place   == SPARE_FRONT + (it - useBegin)
        shift   == SPARE_FRONT - useBegin
    IN /\ 2 * oldSize <= MaxCapacity
       /\ useBegin' = SPARE_FRONT
       /\ useEnd' = SPARE_FRONT + oldSize + 1
       /\ storage' = [i \in 0..(2 * oldSize) |->
                        IF i \in SPARE_FRONT..(place - 1) THEN storage[i - shift]
                        ELSE IF i = place THEN t
                        ELSE IF i \in (place + 1)..(SPARE_FRONT + oldSize) THEN storage[i - shift - 1]
                        ELSE Raw]

\* The shorter side is moved, if it has room.
Insert(t) ==
    LET it == InsertionPoint(t)
        frontShorter == it - useBegin <= useEnd - it
        roomFront == useBegin # 0
        roomBack  == useEnd # storageEnd
    IN /\ IsNextTicket(t.ticket, {storage[i] : i \in Live})
       /\ \/ roomFront /\ (frontShorter \/ ~roomBack) /\ InsertFront(it, t)
          \/ roomBack /\ (~frontShorter \/ ~roomFront) /\ InsertBack(it, t)
          \/ ~roomFront /\ ~roomBack /\ InsertRealloc(it, t)

-----------------------------------------------------------------------------
RemoveFront ==
    /\ useBegin # useEnd
    /\ useBegin' = useBegin + 1 /\ useEnd' = useEnd
    /\ storage' = [storage EXCEPT ![useBegin] = Raw]

\* The first match goes, and the shorter side closes the gap.
Remove(d) ==
    \E it \in Live :
      /\ storage[it].device = d
      /\ \A i \in useBegin..(it - 1) : storage[i].device # d
      /\ \/ /\ it - useBegin < useEnd - it - 1
            /\ useBegin' = useBegin + 1 /\ useEnd' = useEnd
            /\ storage' = [i \in DOMAIN storage |->
                             IF i = useBegin THEN Raw
                             ELSE IF i \in (useBegin + 1)..it THEN storage[i - 1]
                             ELSE storage[i]]
         \/ /\ it - useBegin >= useEnd - it - 1
            /\ useBegin' = useBegin /\ useEnd' = useEnd - 1
            /\ storage' = [i \in DOMAIN storage |->
                             IF i = useEnd - 1 THEN Raw
                             ELSE IF i \in it..(useEnd - 2) THEN storage[i + 1]
                             ELSE storage[i]]

\* std::remove_if keeps the order of what stays and closes towards the front.
RemoveAll(d) ==
    LET Kept == {i \in Live : storage[i].device # d}
        Place(i) == useBegin + Cardinality({j \in Kept : j < i})
    IN /\ useBegin' = useBegin
       /\ useEnd' = useBegin + Cardinality(Kept)
       /\ storage' = [n \in DOMAIN storage |->
                        IF \E i \in Kept : Place(i) = n
                        THEN storage[CHOOSE i \in Kept : Place(i) = n]
                        ELSE IF n \in Live THEN Raw ELSE storage[n]]

Next ==
    \/ \E t \in Elem : Insert(t)
    \/ RemoveFront
    \/ \E d \in Devices : Remove(d)
    \/ \E d \in Devices : RemoveAll(d)

Spec == Init /\ [][Next]_vars

-----------------------------------------------------------------------------
\* The array implements the queue that Scheduler relies on: no operation loses,
\* duplicates or reorders an element, wherever the spare room is; elements with
\* equal times keep the order in which they were inserted ("(Important)", lines
\* 52-54).
Abstract == INSTANCE SortedQueue WITH queue <- {storage[i] : i \in Live}
ImplementsSortedQueue == Abstract!Spec
=============================================================================
