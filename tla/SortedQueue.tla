---------------------------- MODULE SortedQueue ----------------------------
(* SchedulerQueue<T> as its user sees it: the operations of SyncQueue as the *)
(* steps of a specification.                                                 *)
EXTENDS SyncQueue

CONSTANTS Devices, Times, Tickets

VARIABLE queue

Init == queue = {}

Insert(e) == /\ IsNextTicket(e.ticket, queue)
             /\ queue' = queue \cup {e}

RemoveFront  == \E p \in queue : IsFront(p, queue) /\ queue' = queue \ {p}
Remove(d)    == queue' = WithoutFirstOf(d, queue)
RemoveAll(d) == queue' = WithoutAllOf(d, queue)

Next ==
    \/ \E e \in [time : Times, device : Devices, ticket : Tickets] : Insert(e)
    \/ RemoveFront
    \/ \E d \in Devices : Remove(d) \/ RemoveAll(d)

Spec == Init /\ [][Next]_queue
=============================================================================
