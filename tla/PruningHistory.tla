--------------------------- MODULE PruningHistory --------------------------
(* A recording that takes one snapshot per period and never goes back in     *)
(* time: what is left of it after every call of dropOldSnapshots<N>, and the *)
(* loop of that function as the code writes it.  Its "y" is the set of its   *)
(* one bits, each as the power of two it stands for.                         *)
EXTENDS SnapshotPruning, FiniteSets

CONSTANTS Ns,       \* template arguments tried (takeSnapshot uses 25)
          MaxCount  \* bound: snapshots taken

ASSUME HistoryAssumption == Ns \subseteq Nat \ {0} /\ MaxCount \in Nat

VARIABLES perDistance,  \* the template argument
          left          \* the keys of history.chunks

historyVars == <<perDistance, left>>

\* The one bits of a number, those of an exclusive or, and those after ">>= 1".
Ones(x)    == {p \in 1..x : IsPowerOf2(p) /\ (x \div p) % 2 = 1}
Xor(y, z)  == (y \ z) \cup (z \ y)
Halved(y)  == {p \div 2 : p \in y \ {1}}

\* Mutant of Round: d2 is not doubled.
RoundLinear(count, s) ==
    LET y == Halved(s.y)
    IN IF y = {} \/ count < s.d THEN s
       ELSE [y |-> y, d |-> s.d + s.d2, d2 |-> s.d2,
             erased |-> s.erased \cup {count - s.d}]

\* One round of the while loop; one that returns changes nothing, and so would
\* the next.
Round(count, s) ==
    LET y == Halved(s.y)
    IN IF y = {} \/ count < s.d THEN s
       ELSE [y |-> y, d |-> s.d + s.d2, d2 |-> 2 * s.d2,
             erased |-> s.erased \cup {count - s.d}]

\* Mutant of FirstRound: d starts one later.
FirstRoundLater(N, count) ==
    [y |-> Xor(Ones(count + N), Ones(count + N + 1)), d |-> N + 1, d2 |-> 2*N + 1,
     erased |-> {}]

\* The locals of dropOldSnapshots<N>(count) before its loop.
FirstRound(N, count) ==
    [y |-> Xor(Ones(count + N), Ones(count + N + 1)), d |-> N, d2 |-> 2*N + 1,
     erased |-> {}]

\* dropOldSnapshots<N>(count): what its rounds erase; d grows by one at least
\* in each, so there are no more than count.
LoopDropped(N, count) ==
    LET after[i \in 0..count] ==
            IF i = 0 THEN FirstRound(N, count) ELSE Round(count, after[i - 1])
    IN after[count].erased

Newest == CHOOSE i \in left : \A j \in left : j <= i

\* start(): an empty history, for which getNextSeqNum answers 0.
HistoryInit == perDistance \in Ns /\ left = {0}

\* takeSnapshot(), one period after the previous one.
TakeNext ==
    /\ Newest < MaxCount
    /\ left' = (left \ LoopDropped(perDistance, Newest + 1)) \cup {Newest + 1}
    /\ UNCHANGED perDistance

HistorySpec == HistoryInit /\ [][TakeNext]_historyVars

---------------------------------------------------------------------------
\* The walk over the bits erases what the divisibility rule of SnapshotPruning
\* says: this is what lets the rest of the project use Dropped.
LoopIsDropped ==
    LoopDropped(perDistance, Newest + 1) = Dropped(perDistance, Newest + 1)

\* Distance from each snapshot to the next older one, and how many snapshots
\* are at one distance; the newest snapshot counts for distance 1 too.
Gap == [i \in left \ {0} |->
          CHOOSE d \in 1..i : i - d \in left /\ \A e \in 1..(d-1) : i - e \notin left]
AtDistance(gap, d) ==
    Cardinality({i \in DOMAIN gap : gap[i] = d}) + (IF d = 1 THEN 1 ELSE 0)

\* "it keeps the N or N+1 most recent snapshots, then N or N+1 with distance
\* 2, then N or N+1 with distance 4": distances are powers of two that never
\* shrink with age, and every distance but the largest is there N or N+1 times.
DistancesAsDocumented ==
    LET gap == Gap
    IN  /\ \A i, j \in DOMAIN gap : i < j => gap[j] <= gap[i]
        /\ \A d \in {gap[i] : i \in DOMAIN gap} :
            /\ IsPowerOf2(d)
            /\ AtDistance(gap, d) <= perDistance + 1
            /\ d > 1 => AtDistance(gap, d \div 2) \in {perDistance, perDistance + 1}
=============================================================================
