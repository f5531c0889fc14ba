-------------------------- MODULE SnapshotPruning --------------------------
(* Which snapshots ReverseManager::dropOldSnapshots<N>(count) erases         *)
(* (src/src/ReverseManager.cc).  The code walks the trailing one bits of     *)
(* (count + N) ^ (count + N + 1); this module states the result by           *)
(* divisibility.  PruningHistory has the loop.                               *)
EXTENDS Integers

\* p is a power of two: no odd number but 1 divides it.
IsPowerOf2(p) == \A r \in 2..p : p % r = 0 => r % 2 = 0

\* The "d" of the round in which "d2" is (2N+1) * 2p.
Distance(N, p) == (2*N + 1) * p - (N + 1)

\* The while loop is still running in that round.
Reached(N, count, p) ==
    (count + N + 1) % (2*p) = 0 /\ Distance(N, p) <= count

\* The indices erased when snapshot "count" is about to be added.
Dropped(N, count) ==
    {count - Distance(N, p) :
        p \in {q \in 1..(count + 1) : Reached(N, count, q) /\ IsPowerOf2(q)}}
=============================================================================
