------------------------ MODULE ReverseManagerProofs ------------------------
(* For every length of the periods and every number of inputs: the machine   *)
(* and all its snapshots follow the log, the next event and the next         *)
(* snapshot are planned once, and goto lands where it should.  At the end:   *)
(* the loop of dropOldSnapshots, and what is left of a long recording.       *)
EXTENDS ReverseManager, PruningHistory, WellFoundedInduction, FiniteSetTheorems, TLAPS

LOCAL ST == INSTANCE SequenceTheorems

---------------------------------------------------------------------------
\* What dropOldSnapshots promises for every N and every index.

\* "the very oldest snapshot is never deleted" (comment of dropOldSnapshots):
\* index 0, the one start() takes, is never among the erased ones, whatever
\* the number of snapshots kept at each distance.
THEOREM OldestNeverDropped ==
    ASSUME NEW N \in Nat, NEW count \in Nat
    PROVE  0 \notin Dropped(N, count)
<1>1. SUFFICES ASSUME NEW p \in 1..(count + 1),
                      Reached(N, count, p),
                      count - Distance(N, p) = 0
               PROVE  FALSE
  BY DEF Dropped
<1>2. PICK m \in Int : count + N + 1 = m * (2*p)
  <2>1. count + N + 1 \in Nat /\ 2*p \in Nat \ {0}
    OBVIOUS
  <2>2. (count + N + 1) % (2*p) = 0
    BY <1>1 DEF Reached
  <2> QED
    BY <2>1, <2>2, SMT
<1>3. count + N + 1 = (2*N + 1) * p
  BY <1>1 DEF Distance
<1>4. (2*N + 1) * p = (2*m) * p
  <2>1. p \in Int
    OBVIOUS
  <2>2. m * (2*p) = (2*m) * p
    BY <2>1, SMT
  <2> QED
    BY <1>2, <1>3, <2>2
<1>5. 2*N + 1 # 2*m
  OBVIOUS
<1>6. \A a, b \in Int : a * p = b * p => a = b
  <2>1. p \in Int /\ p > 0
    OBVIOUS
  <2> QED
    BY <2>1, SMT
<1> QED
  BY <1>4, <1>5, <1>6

\* The snapshot about to be added, and those that do not exist yet, are not
\* erased either: only older ones are.
THEOREM OnlyOlderDropped ==
    ASSUME NEW N \in Nat \ {0}, NEW count \in Nat
    PROVE  Dropped(N, count) \subseteq 1..(count - 1)
<1>1. SUFFICES ASSUME NEW p \in 1..(count + 1),
                      Reached(N, count, p), IsPowerOf2(p)
               PROVE  count - Distance(N, p) \in 1..(count - 1)
  BY DEF Dropped
<1>2. Distance(N, p) \in Int /\ Distance(N, p) <= count
  BY <1>1 DEF Reached, Distance
<1>3. Distance(N, p) >= 1
  <2>1. (2*N + 1) * p >= 2*N + 1
    OBVIOUS
  <2> QED
    BY <2>1 DEF Distance
<1>4. count - Distance(N, p) # 0
  <2>1. ASSUME count - Distance(N, p) = 0 PROVE 0 \in Dropped(N, count)
    BY <1>1, <2>1 DEF Dropped
  <2> QED
    BY <2>1, OldestNeverDropped
<1> QED
  BY <1>2, <1>3, <1>4

---------------------------------------------------------------------------
\* Minima, maxima and rounded quotients.

LEMMA MinOfNats ==
    ASSUME NEW S, S \subseteq Nat, S # {}
    PROVE  Min(S) \in S /\ \A y \in S : Min(S) <= y
  <1>. DEFINE R == OpToRel(<, Nat)
  <1>1. IsWellFoundedOn(R, Nat)
    BY NatLessThanWellFounded
  <1>2. \A x, y \in Nat : x < y => <<x, y>> \in R
    BY DEF OpToRel
  <1>. HIDE DEF R
  <1>3. \E x \in S : \A y \in S : ~ (<<y, x>> \in R)
    BY <1>1, WFMin
  <1>4. PICK x \in S : \A y \in S : ~ (<<y, x>> \in R)
    BY <1>3
  <1>5. ASSUME NEW y \in S PROVE x <= y
    <2>1. x \in Nat /\ y \in Nat
      OBVIOUS
    <2>2. ~ (y < x)
      BY <1>2, <1>4, <2>1
    <2>. QED  BY <2>1, <2>2
  <1>. QED  BY <1>5 DEF Min

LEMMA MaxOfNats ==
    ASSUME NEW S, S \subseteq Nat, S # {}, NEW bound \in Nat, \A x \in S : x <= bound
    PROVE  Max(S) \in S /\ \A y \in S : y <= Max(S)
  <1>. DEFINE T == {bound - x : x \in S}
  <1>1. T \subseteq Nat /\ T # {}
    <2>1. \A x \in S : x \in Nat /\ bound - x \in Nat
      OBVIOUS
    <2>. QED  BY <2>1
  <1>2. PICK t \in T : \A u \in T : t <= u
    BY <1>1, MinOfNats
  <1>3. PICK x \in S : t = bound - x
    OBVIOUS
  <1>4. ASSUME NEW y \in S PROVE y <= x
    <2>1. t <= bound - y
      BY <1>2
    <2>. QED  BY <1>3, <2>1
  <1>5. \E z \in S : \A y \in S : z >= y
    BY <1>4
  <1>. QED  BY <1>5 DEF Max

LEMMA MinOfTwo ==
    ASSUME NEW a \in Int, NEW b \in Int
    PROVE  Min({a, b}) = IF a <= b THEN a ELSE b
  <1>. DEFINE m == IF a <= b THEN a ELSE b
  <1>1. m \in {a, b} /\ \A y \in {a, b} : m <= y
    OBVIOUS
  <1>2. \A x \in {a, b} : (\A y \in {a, b} : x <= y) => x = m
    OBVIOUS
  <1>. HIDE DEF m
  <1>3. Min({a, b}) = m
    BY <1>1, <1>2 DEF Min
  <1>. QED  BY <1>3 DEF m

LEMMA MaxOfTwo ==
    ASSUME NEW a \in Int, NEW b \in Int
    PROVE  Max({a, b}) = IF a >= b THEN a ELSE b
  <1>. DEFINE m == IF a >= b THEN a ELSE b
  <1>1. m \in {a, b} /\ \A y \in {a, b} : m >= y
    OBVIOUS
  <1>2. \A x \in {a, b} : (\A y \in {a, b} : x >= y) => x = m
    OBVIOUS
  <1>. HIDE DEF m
  <1>3. Max({a, b}) = m
    BY <1>1, <1>2 DEF Max
  <1>. QED  BY <1>3 DEF m

LEMMA DivMod ==
    ASSUME NEW x \in Nat, NEW p \in Nat \ {0}
    PROVE  /\ x \div p \in Nat /\ x % p \in Nat /\ x % p < p
           /\ x = p * (x \div p) + (x % p)
  <1>1. x % p \in 0..(p - 1)
    OBVIOUS
  <1>2. x \div p \in Nat
    OBVIOUS
  <1>3. x = p * (x \div p) + (x % p)
    OBVIOUS
  <1>. QED  BY <1>1, <1>2, <1>3

\* A smaller number has a smaller quotient, or the same and a smaller rest.
LEMMA DivModOrder ==
    ASSUME NEW p \in Nat \ {0}, NEW q \in Nat, NEW r \in Nat, r < p,
           NEW s \in Nat, NEW t \in Nat, t < p, p * q + r <= p * s + t
    PROVE  q < s \/ (q = s /\ r <= t)
  <1>1. CASE q > s
    <2>1. PICK d \in Nat : q = s + 1 + d
      <3>1. q - (s + 1) \in Nat
        BY <1>1
      <3>. QED  BY <3>1
    <2>2. p * q = p * s + p + p * d
      BY <2>1
    <2>3. p * d \in Nat /\ p * s \in Nat
      OBVIOUS
    <2>. QED  BY <2>2, <2>3
  <1>2. CASE q = s
    <2>1. p * q \in Nat
      OBVIOUS
    <2>. QED  BY <1>2, <2>1
  <1>. QED  BY <1>1, <1>2

\* lrint() keeps the order.
LEMMA RoundOrder ==
    ASSUME NEW x \in Nat, NEW y \in Nat, NEW p \in Nat \ {0}, x <= y
    PROVE  RoundHalfEven(x, p) <= RoundHalfEven(y, p)
  <1>1. PICK q \in Nat, r \in Nat : q = x \div p /\ r = x % p /\ r < p /\ x = p * q + r
    BY DivMod
  <1>2. PICK s \in Nat, t \in Nat : s = y \div p /\ t = y % p /\ t < p /\ y = p * s + t
    BY DivMod
  <1>3. q < s \/ (q = s /\ r <= t)
    BY <1>1, <1>2, DivModOrder
  <1>4. /\ RoundHalfEven(x, p) = IF 2 * r > p \/ (2 * r = p /\ q % 2 = 1) THEN q + 1 ELSE q
        /\ RoundHalfEven(y, p) = IF 2 * t > p \/ (2 * t = p /\ s % 2 = 1) THEN s + 1 ELSE s
    BY <1>1, <1>2 DEF RoundHalfEven
  <1>. QED  BY <1>3, <1>4

LEMMA RoundBounds ==
    ASSUME NEW x \in Nat, NEW p \in Nat \ {0}
    PROVE  /\ RoundHalfEven(x, p) \in Nat
           /\ RoundHalfEven(x, p) <= x \div p + 1
           /\ x >= p => RoundHalfEven(x, p) > 0
           /\ RoundHalfEven(0, p) = 0
  <1>1. PICK q \in Nat, r \in Nat : q = x \div p /\ r = x % p /\ r < p /\ x = p * q + r
    BY DivMod
  <1>2. RoundHalfEven(x, p) = IF 2 * r > p \/ (2 * r = p /\ q % 2 = 1) THEN q + 1 ELSE q
    BY <1>1 DEF RoundHalfEven
  <1>3. x >= p => q > 0
    <2>1. q = 0 => p * q = 0
      OBVIOUS
    <2>. QED  BY <1>1, <2>1
  <1>4. 0 \div p = 0 /\ 0 % p = 0
    OBVIOUS
  <1>5. RoundHalfEven(0, p) = 0
    BY <1>4 DEF RoundHalfEven
  <1>. QED  BY <1>1, <1>2, <1>3, <1>5

\* The numbers of snapshots are among SeqNums.
LEMMA RoundInRange ==
    ASSUME NEW x \in Nat, NEW y \in Nat, x <= y, NEW p \in Nat \ {0}
    PROVE  RoundHalfEven(x, p) \in 0..(y \div p + 1)
  <1>1. RoundHalfEven(x, p) \in Nat /\ RoundHalfEven(x, p) <= x \div p + 1
    BY RoundBounds
  <1>2. PICK q \in Nat, r \in Nat : q = x \div p /\ r = x % p /\ r < p /\ x = p * q + r
    BY DivMod
  <1>3. PICK s \in Nat, t \in Nat : s = y \div p /\ t = y % p /\ t < p /\ y = p * s + t
    BY DivMod
  <1>4. q < s \/ (q = s /\ r <= t)
    BY <1>2, <1>3, DivModOrder
  <1>. QED  BY <1>1, <1>2, <1>3, <1>4

---------------------------------------------------------------------------
Entry     == [time : Nat, input : Nat]
Snapshot  == [time : Nat, eventCount : Nat, received : Seq(Nat)]
Snapshots == [SeqNums -> Snapshot \cup {NoChunk}]
BoardType ==
    [now : Nat, insEnd : Nat, received : Seq(Nat), collecting : BOOLEAN,
     pendingTakeSnapshot : BOOLEAN, events : Seq(Entry), replayIndex : Nat,
     chunks : Snapshots, snapSync : Seq(Nat), inputSync : Seq(Nat), held : Nat]

RevTypes ==
    /\ board \in BoardType
    /\ file \in [events : Seq(Entry), chunks : Snapshots]
    /\ trip \in [target : 0..MaxTime, preTarget : Int, last : Int, goal : Int, reused : BOOLEAN]
    /\ nextInput \in Nat \ {0}

InputsOf(events, n) == [i \in 1..n |-> events[i].input]
After(base, events, n) == base \o InputsOf(events, n)

\* The log is in order of time, and ends with the EndLogEvent if it has one.
Log(events) ==
    \A i, j \in 1..Len(events) : /\ i <= j => events[i].time <= events[j].time
                                 /\ i < j => events[i].input # EndLog

\* The snapshot divides the log at its time.
Fits(c, events) ==
    /\ c.eventCount <= Len(events) /\ (HasEnd(events) => c.eventCount < Len(events))
    /\ \A j \in 1..Len(events) : IF j <= c.eventCount THEN events[j].time <= c.time
                                                     ELSE events[j].time >= c.time

\* A saved snapshot is loaded with the count of events it was saved with, so
\* that a machine is where the count says.
Exact == ~SaveAtInputTime

\* The first snapshot was taken before the first event, and every one is
\* numbered by its distance from it.
History(events, chunks) ==
    /\ 0 \in Present(chunks) /\ chunks[0].eventCount = 0 /\ chunks[0].time <= MaxTime
    /\ \A i \in Present(chunks) :
          /\ chunks[0].time <= chunks[i].time
          /\ i = RoundHalfEven(chunks[i].time - chunks[0].time, Period)
          /\ Fits(chunks[i], events)
          /\ Exact => chunks[i].received = After(chunks[0].received, events, chunks[i].eventCount)

Planned(b) ==
    IF Replaying(b)
    THEN /\ b.inputSync = <<b.events[b.replayIndex + 1].time>>
         /\ b.now <= b.events[b.replayIndex + 1].time
         /\ HasEnd(b.events)
    ELSE b.inputSync = <<>> /\ ~HasEnd(b.events)

\* Snapshots after the first are a period away from it at least, so that they
\* are never given its number.
Recording(b) ==
    /\ History(b.events, b.chunks)
    /\ Exact => b.received = After(b.chunks[0].received, b.events, b.replayIndex)
    /\ b.chunks[0].time <= b.now
    /\ ~Replaying(b) => \A i \in Present(b.chunks) : b.chunks[i].time <= b.now
    /\ \A i \in 1..Len(b.snapSync) : b.snapSync[i] >= b.chunks[0].time + Period
    /\ b.pendingTakeSnapshot => b.now >= b.chunks[0].time + Period

BoardInv(b) ==
    /\ Log(b.events) /\ b.replayIndex <= Len(b.events)
    /\ \A i \in 1..b.replayIndex : b.events[i].time <= b.now
    /\ Planned(b)
    /\ b.now <= b.insEnd /\ b.insEnd <= MaxTime + MaxStep
    /\ IF b.collecting THEN Recording(b)
       ELSE b.events = <<>> /\ b.replayIndex = 0 /\ b.chunks = NoChunks

\* No snapshot up to now is ahead in the log: stopReplay() can keep them all.
Past(b) == \A i \in Present(b.chunks) :
              b.chunks[i].time <= b.now => b.chunks[i].eventCount <= b.replayIndex

FileInv == file # NoFile =>
    /\ Log(file.events) /\ HasEnd(file.events) /\ History(file.events, file.chunks)
    /\ Exact => \A i \in Present(file.chunks) : \A j \in 1..file.chunks[i].eventCount :
                   file.events[j].time < file.chunks[i].time

TripInv ==
    /\ pc \in {"main", "warp"} => board.now = board.insEnd /\ Past(board)
    /\ pc \in {"warp", "ff", "show"} =>
          board.collecting /\ board.insEnd < trip.target + MaxStep
    /\ pc \in {"warp", "ff"} =>
          trip.preTarget <= trip.target /\ trip.last >= board.chunks[0].time
    /\ pc = "ff" => trip.goal <= trip.preTarget
    /\ pc = "show" => trip.goal = trip.target

RevInv == RevTypes /\ BoardInv(board) /\ FileInv /\ TripInv /\ OneSnapshotPlanned

\* The situations of README section 4 are left out.
Usual == ~GoToBeforeTake /\ ~GoToWithHeldInput /\ ~HeldInputTies

---------------------------------------------------------------------------
\* Sequences of inputs.

LEMMA ConcatIs ==
    ASSUME NEW S, NEW x \in Seq(S), NEW y \in Seq(S)
    PROVE  /\ x \o y \in Seq(S) /\ Len(x \o y) = Len(x) + Len(y)
           /\ \A i \in 1..Len(x) : (x \o y)[i] = x[i]
           /\ \A i \in (Len(x) + 1)..(Len(x) + Len(y)) :
                 i - Len(x) \in 1..Len(y) /\ (x \o y)[i] = y[i - Len(x)]
  <1>1. /\ x \o y \in Seq(S) /\ Len(x \o y) = Len(x) + Len(y)
        /\ \A i \in 1..Len(x) + Len(y) : (x \o y)[i] = IF i <= Len(x) THEN x[i] ELSE y[i - Len(x)]
    BY ST!ConcatProperties
  <1>2. PICK m \in Nat, n \in Nat : m = Len(x) /\ n = Len(y)
    OBVIOUS
  <1>3. \A i \in 1..m : i \in 1..(m + n)
    OBVIOUS
  <1>4. \A i \in (m + 1)..(m + n) : i - m \in 1..n /\ i \in 1..(m + n) /\ ~(i <= m)
    OBVIOUS
  <1>. QED  BY <1>1, <1>2, <1>3, <1>4

LEMMA NatsConcat ==
    ASSUME NEW x \in Seq(Nat), NEW y \in Seq(Nat)
    PROVE  /\ x \o y \in Seq(Nat) /\ Len(x \o y) = Len(x) + Len(y)
           /\ \A i \in 1..Len(x) : (x \o y)[i] = x[i]
           /\ \A i \in (Len(x) + 1)..(Len(x) + Len(y)) :
                 i - Len(x) \in 1..Len(y) /\ (x \o y)[i] = y[i - Len(x)]
  BY ConcatIs, SMTT(30)

LEMMA EntriesConcat ==
    ASSUME NEW x \in Seq(Entry), NEW y \in Seq(Entry)
    PROVE  /\ x \o y \in Seq(Entry) /\ Len(x \o y) = Len(x) + Len(y)
           /\ \A i \in 1..Len(x) : (x \o y)[i] = x[i]
           /\ \A i \in (Len(x) + 1)..(Len(x) + Len(y)) :
                 i - Len(x) \in 1..Len(y) /\ (x \o y)[i] = y[i - Len(x)]
  BY ConcatIs, SMTT(30)

LEMMA NatsAssociative ==
    ASSUME NEW x \in Seq(Nat), NEW y \in Seq(Nat), NEW z \in Seq(Nat)
    PROVE  (x \o y) \o z = x \o (y \o z)
  BY ST!ConcatAssociative, SMTT(30)

LEMMA NatsEqual ==
    ASSUME NEW x \in Seq(Nat), NEW y \in Seq(Nat), NEW n \in Nat, n = Len(x), n = Len(y),
           \A i \in 1..n : x[i] = y[i]
    PROVE  x = y
  <1>1. Len(x) = Len(y) /\ \A i \in 1..Len(x) : x[i] = y[i]
    OBVIOUS
  <1>. QED  BY <1>1, ST!SeqEqual, SMTT(30)

LEMMA InputsSeq ==
    ASSUME NEW events, NEW n \in Nat, \A i \in 1..n : events[i].input \in Nat
    PROVE  /\ InputsOf(events, n) \in Seq(Nat) /\ Len(InputsOf(events, n)) = n
           /\ \A i \in 1..n : InputsOf(events, n)[i] = events[i].input
  BY DEF InputsOf

LEMMA InputsSame ==
    ASSUME NEW events, NEW after, NEW n \in Nat, \A i \in 1..n : after[i].input = events[i].input
    PROVE  /\ InputsOf(after, n) = InputsOf(events, n)
           /\ \A base : After(base, after, n) = After(base, events, n)
  BY DEF InputsOf, After

\* The first m events of "after" are the first n of "events" and then "inputs".
Continues(base, events, n, after, m, inputs) ==
    /\ base \in Seq(Nat) /\ inputs \in Seq(Nat) /\ n \in Nat /\ m = n + Len(inputs)
    /\ \A i \in 1..n : events[i].input \in Nat /\ after[i].input = events[i].input
    /\ \A i \in 1..Len(inputs) : after[n + i].input = inputs[i]

LEMMA InputsMore ==
    ASSUME NEW base, NEW events, NEW n, NEW after, NEW m, NEW inputs,
           Continues(base, events, n, after, m, inputs)
    PROVE  After(base, after, m) = After(base, events, n) \o inputs
  <1>. DEFINE x == InputsOf(events, n)
              y == InputsOf(after, m)
  <1>1. /\ \A i \in 1..n : events[i].input \in Nat /\ after[i].input = events[i].input
        /\ \A i \in 1..Len(inputs) : after[n + i].input = inputs[i]
    BY DEF Continues
  <1>2. base \in Seq(Nat) /\ inputs \in Seq(Nat) /\ n \in Nat /\ m = n + Len(inputs) /\ m \in Nat
    BY DEF Continues
  <1>3. x \in Seq(Nat) /\ Len(x) = n /\ \A i \in 1..n : x[i] = events[i].input
    BY <1>2, <1>1, InputsSeq
  <1>4. PICK k \in Nat : k = Len(inputs) /\ m = n + k /\ \A i \in 1..k : inputs[i] \in Nat
    BY <1>2
  <1>5. \A i \in 1..(n + k) : after[i].input = IF i <= n THEN x[i] ELSE inputs[i - n]
    <2>1. ASSUME NEW i \in 1..(n + k) PROVE after[i].input = IF i <= n THEN x[i] ELSE inputs[i - n]
      <3>1. CASE i <= n
        <4>1. i \in 1..n
          BY <1>2, <3>1
        <4>. QED  BY <1>2, <1>1, <1>3, <3>1, <4>1
      <3>2. CASE i > n
        <4>1. i - n \in 1..k /\ n + (i - n) = i
          BY <1>2, <3>2
        <4>. QED  BY <1>2, <1>1, <1>4, <3>2, <4>1
      <3>. QED  BY <1>2, <3>1, <3>2
    <2>. QED  BY <1>2, <2>1
  <1>6. \A i \in 1..(n + k) : after[i].input \in Nat
    <2>1. ASSUME NEW i \in 1..(n + k) PROVE after[i].input \in Nat
      <3>1. CASE i <= n
        <4>1. i \in 1..n
          BY <1>2, <3>1
        <4>. QED  BY <1>2, <1>1, <4>1
      <3>2. CASE i > n
        <4>1. i - n \in 1..k
          BY <1>2, <3>2
        <4>. QED  BY <1>2, <1>4, <1>5, <3>2, <4>1
      <3>. QED  BY <1>2, <3>1, <3>2
    <2>. QED  BY <1>2, <2>1
  <1>7. y \in Seq(Nat) /\ Len(y) = n + k /\ \A i \in 1..(n + k) : y[i] = after[i].input
    BY <1>2, <1>4, <1>6, InputsSeq
  <1>. HIDE DEF x, y
  <1>8. /\ x \o inputs \in Seq(Nat) /\ Len(x \o inputs) = m
        /\ \A i \in 1..n : (x \o inputs)[i] = x[i]
        /\ \A i \in (n + 1)..(n + k) : (x \o inputs)[i] = inputs[i - n]
    <2>1. /\ x \o inputs \in Seq(Nat) /\ Len(x \o inputs) = Len(x) + Len(inputs)
          /\ \A i \in 1..Len(x) : (x \o inputs)[i] = x[i]
          /\ \A i \in (Len(x) + 1)..(Len(x) + Len(inputs)) :
                i - Len(x) \in 1..Len(inputs) /\ (x \o inputs)[i] = inputs[i - Len(x)]
      BY <1>2, <1>3, NatsConcat
    <2>. QED  BY <1>2, <1>3, <1>4, <2>1
  <1>9. y = x \o inputs
    <2>1. ASSUME NEW i \in 1..m PROVE y[i] = (x \o inputs)[i]
      <3>1. i \in 1..n \/ (i \in (n + 1)..(n + k) /\ ~(i <= n))
        BY <1>2, <1>4
      <3>2. i \in 1..n => i <= n
        BY <1>2
      <3>3. i \in 1..(n + k)
        BY <1>2, <1>4
      <3>. QED  BY <1>2, <1>5, <1>7, <1>8, <3>1, <3>2, <3>3
    <2>2. m = Len(y) /\ m = Len(x \o inputs)
      BY <1>2, <1>4, <1>7, <1>8
    <2>. QED  BY <1>2, <1>7, <1>8, <2>1, <2>2, NatsEqual
  <1>10. (base \o x) \o inputs = base \o (x \o inputs)
    BY <1>2, <1>3, NatsAssociative
  <1>. QED  BY <1>2, <1>9, <1>10 DEF x, y, After

LEMMA AppendOne ==
    ASSUME NEW s \in Seq(Nat), NEW e \in Nat
    PROVE  Append(s, e) = s \o <<e>> /\ <<e>> \in Seq(Nat) /\ Len(<<e>>) = 1 /\ <<e>>[1] = e
  <1>1. <<e>> \in Seq(Nat) /\ Len(<<e>>) = 1 /\ <<e>>[1] = e
    OBVIOUS
  <1>2. /\ s \o <<e>> \in Seq(Nat) /\ Len(s \o <<e>>) = Len(s) + 1
        /\ \A i \in 1..Len(s) : (s \o <<e>>)[i] = s[i]
        /\ \A i \in (Len(s) + 1)..(Len(s) + 1) : (s \o <<e>>)[i] = e
    <2>1. /\ s \o <<e>> \in Seq(Nat) /\ Len(s \o <<e>>) = Len(s) + Len(<<e>>)
          /\ \A i \in 1..Len(s) : (s \o <<e>>)[i] = s[i]
          /\ \A i \in (Len(s) + 1)..(Len(s) + Len(<<e>>)) :
                i - Len(s) \in 1..Len(<<e>>) /\ (s \o <<e>>)[i] = <<e>>[i - Len(s)]
      BY <1>1, NatsConcat
    <2>. QED  BY <1>1, <2>1
  <1>3. /\ Append(s, e) \in Seq(Nat) /\ Len(Append(s, e)) = Len(s) + 1
        /\ \A i \in 1..Len(s) : Append(s, e)[i] = s[i]
        /\ Append(s, e)[Len(s) + 1] = e
    OBVIOUS
  <1>4. PICK len \in Nat, n \in Nat : len = Len(s) /\ n = len + 1
    OBVIOUS
  <1>5. \A i \in 1..n : Append(s, e)[i] = (s \o <<e>>)[i]
    <2>1. \A i \in 1..n : i \in 1..len \/ i = len + 1
      BY <1>4
    <2>2. len + 1 \in (len + 1)..(len + 1)
      OBVIOUS
    <2>. QED  BY <1>2, <1>3, <1>4, <2>1, <2>2
  <1>6. n = Len(Append(s, e)) /\ n = Len(s \o <<e>>)
    BY <1>2, <1>3, <1>4
  <1>7. Append(s, e) = s \o <<e>>
    BY <1>2, <1>3, <1>5, <1>6, NatsEqual
  <1>. QED  BY <1>1, <1>7

---------------------------------------------------------------------------
\* Snapshots.

LEMMA Bounds ==
    /\ Period \in Nat /\ KeepN \in Nat /\ MaxStep \in Nat /\ PreDelta \in Nat /\ MaxTime \in Nat
    /\ Period > 0 /\ MaxStep > 0 /\ MaxInput \in Nat
  BY BoundsAssumption

LEMMA SeqNumsNat ==
    /\ 0 \in SeqNums /\ SeqNums \subseteq Nat
    /\ \A x \in Nat : x <= MaxTime + MaxStep => RoundHalfEven(x, Period) \in SeqNums
  <1>1. PICK y \in Nat : y = MaxTime + MaxStep
    BY BoundsAssumption
  <1>2. Period \in Nat \ {0}
    BY BoundsAssumption
  <1>3. y \div Period \in Nat
    BY <1>2, DivMod
  <1>4. SeqNums = 0..(y \div Period + 1)
    BY <1>1 DEF SeqNums
  <1>5. ASSUME NEW x \in Nat, x <= y PROVE RoundHalfEven(x, Period) \in SeqNums
    BY <1>2, <1>4, <1>5, RoundInRange
  <1>. QED  BY <1>1, <1>3, <1>4, <1>5

LEMMA PresentIs ==
    ASSUME NEW chunks \in Snapshots, NEW i \in Present(chunks)
    PROVE  /\ i \in SeqNums /\ i \in Nat /\ chunks[i] \in Snapshot
           /\ chunks[i].time \in Nat /\ chunks[i].eventCount \in Nat
           /\ chunks[i].received \in Seq(Nat)
  BY SeqNumsNat DEF Present, Snapshots, Snapshot

LEMMA FirstIsZero ==
    ASSUME NEW chunks, 0 \in Present(chunks)
    PROVE  First(chunks) = 0
  <1>1. Present(chunks) \subseteq Nat
    BY SeqNumsNat DEF Present
  <1>2. \A x \in Present(chunks) : (\A y \in Present(chunks) : x <= y) => x = 0
    BY <1>1
  <1>3. \A y \in Present(chunks) : 0 <= y
    BY <1>1
  <1>. QED  BY <1>2, <1>3 DEF First, Min

\* Two snapshots with different numbers have different times, in that order.
LEMMA NumbersAreTimes ==
    ASSUME NEW events, NEW chunks \in Snapshots, History(events, chunks),
           NEW i \in Present(chunks), NEW k \in Present(chunks), i < k
    PROVE  chunks[i].time < chunks[k].time
  <1>1. PICK a \in Nat, b \in Nat, z \in Nat :
           a = chunks[i].time /\ b = chunks[k].time /\ z = chunks[0].time
    <2>1. 0 \in Present(chunks)
      BY DEF History
    <2>2. chunks[i].time \in Nat /\ chunks[k].time \in Nat /\ chunks[0].time \in Nat
      BY <2>1, PresentIs
    <2>. QED  BY <2>2
  <1>2. /\ i = RoundHalfEven(a - z, Period) /\ k = RoundHalfEven(b - z, Period)
        /\ a - z \in Nat /\ b - z \in Nat
    <2>1. /\ i = RoundHalfEven(chunks[i].time - chunks[0].time, Period)
          /\ k = RoundHalfEven(chunks[k].time - chunks[0].time, Period)
          /\ chunks[0].time <= chunks[i].time /\ chunks[0].time <= chunks[k].time
      BY DEF History
    <2>. QED  BY <1>1, <2>1
  <1>3. b - z <= a - z => k <= i
    BY <1>2, BoundsAssumption, RoundOrder
  <1>4. i \in Nat /\ k \in Nat
    BY PresentIs
  <1>. QED  BY <1>1, <1>3, <1>4

---------------------------------------------------------------------------
\* The log and its snapshots, when the log goes on at time t, and when it is cut.

LEMMA EntryIs ==
    ASSUME NEW events \in Seq(Entry), NEW i \in 1..Len(events)
    PROVE  events[i] \in Entry /\ events[i].time \in Nat /\ events[i].input \in Nat
  <1>1. events[i] \in Entry
    OBVIOUS
  <1>. QED  BY <1>1 DEF Entry

LEMMA EndIsLast ==
    ASSUME NEW events \in Seq(Entry)
    PROVE  /\ HasEnd(events) <=> Len(events) > 0 /\ events[Len(events)].input = EndLog
           /\ Len(events) \in Nat
  <1>1. Len(events) \in Nat /\ (events # <<>> <=> Len(events) > 0)
    OBVIOUS
  <1>. QED  BY <1>1 DEF HasEnd, Last

LEMMA NoEndInside ==
    ASSUME NEW events \in Seq(Entry), Log(events), NEW i \in 1..Len(events),
           i < Len(events) \/ ~HasEnd(events)
    PROVE  events[i].input # EndLog
  <1>1. Len(events) \in Nat /\ (i < Len(events) \/ i = Len(events))
    OBVIOUS
  <1>2. CASE i < Len(events)
    BY <1>1, <1>2 DEF Log
  <1>3. CASE i = Len(events)
    BY <1>1, <1>3, EndIsLast
  <1>. QED  BY <1>1, <1>2, <1>3

\* The log "after" goes on from "events" at time t.
Extends(events, after, t) ==
    /\ Len(after) >= Len(events)
    /\ \A i \in 1..Len(events) : after[i] = events[i]
    /\ \A i \in (Len(events) + 1)..Len(after) : after[i].time = t

LEMMA LogGrows ==
    ASSUME NEW events \in Seq(Entry), NEW after \in Seq(Entry), NEW t \in Nat,
           Extends(events, after, t), Log(events), ~HasEnd(events),
           \A i \in 1..Len(events) : events[i].time <= t,
           \A i \in (Len(events) + 1)..Len(after) : i < Len(after) => after[i].input # EndLog
    PROVE  Log(after)
  <1>1. PICK len \in Nat, all \in Nat : len = Len(events) /\ all = Len(after)
    OBVIOUS
  <1>2. PICK more \in Nat : all = len + more
    <2>1. all >= len /\ all = len + (all - len)
      BY <1>1 DEF Extends
    <2>. QED  BY <2>1
  <1>3. /\ \A i \in 1..len : after[i] = events[i] /\ events[i].time <= t
        /\ \A i \in (len + 1)..(len + more) : after[i].time = t
        /\ \A i \in (len + 1)..(len + more) : i < len + more => after[i].input # EndLog
    BY <1>1, <1>2 DEF Extends
  <1>4. ASSUME NEW i \in 1..(len + more), NEW j \in 1..(len + more), i <= j
        PROVE  after[i].time <= after[j].time
    <2>1. CASE j <= len
      <3>1. i \in 1..len /\ j \in 1..len
        BY <1>1, <1>2, <1>3, <1>4, <2>1
      <3>2. events[i].time <= events[j].time
        BY <1>1, <1>2, <1>3, <1>4, <3>1 DEF Log
      <3>. QED  BY <1>1, <1>2, <1>3, <3>1, <3>2
    <2>2. CASE j > len
      <3>1. after[j].time = t
        BY <1>1, <1>2, <1>3, <2>2
      <3>2. CASE i <= len
        BY <1>1, <1>2, <1>3, <3>1, <3>2
      <3>3. CASE i > len
        BY <1>1, <1>2, <1>3, <3>1, <3>3
      <3>. QED  BY <1>1, <1>2, <1>3, <3>2, <3>3
    <2>. QED  BY <1>1, <1>2, <1>3, <2>1, <2>2
  <1>5. ASSUME NEW i \in 1..(len + more), i < len + more
        PROVE  after[i].input # EndLog
    <2>1. CASE i <= len
      <3>1. i \in 1..len
        BY <1>1, <1>2, <1>3, <2>1
      <3>2. events[i].input # EndLog
        BY <1>1, <1>2, <1>3, <3>1, NoEndInside
      <3>. QED  BY <1>1, <1>2, <1>3, <3>1, <3>2
    <2>2. CASE i > len
      BY <1>1, <1>2, <1>3, <1>5, <2>2
    <2>. QED  BY <1>1, <1>2, <1>3, <2>1, <2>2
  <1>. QED  BY <1>1, <1>2, <1>3, <1>4, <1>5 DEF Log

LEMMA HistoryGrows ==
    ASSUME NEW events \in Seq(Entry), NEW after \in Seq(Entry), NEW chunks \in Snapshots,
           NEW t \in Nat, Extends(events, after, t), History(events, chunks),
           HasEnd(after) => HasEnd(events) \/ Len(after) > Len(events),
           \A i \in Present(chunks) : chunks[i].time <= t
    PROVE  History(after, chunks)
  <1>1. PICK len \in Nat, all \in Nat : len = Len(events) /\ all = Len(after)
    OBVIOUS
  <1>2. PICK more \in Nat : all = len + more
    <2>1. all >= len /\ all = len + (all - len)
      BY <1>1 DEF Extends
    <2>. QED  BY <2>1
  <1>3. /\ \A i \in 1..len : after[i] = events[i]
        /\ \A i \in (len + 1)..(len + more) : after[i].time = t
        /\ HasEnd(after) => HasEnd(events) \/ more > 0
    BY <1>1, <1>2 DEF Extends
  <1>4. ASSUME NEW i \in Present(chunks) PROVE Fits(chunks[i], after)
    <2>1. PICK n \in Nat, s \in Nat : n = chunks[i].eventCount /\ s = chunks[i].time
      BY <1>1, <1>2, <1>3, PresentIs
    <2>2. Fits(chunks[i], events)
      BY <1>1, <1>2, <1>3 DEF History
    <2>3. n <= len /\ (HasEnd(events) => n < len)
      BY <1>1, <1>2, <1>3, <2>1, <2>2 DEF Fits
    <2>4. n <= len + more /\ (HasEnd(after) => n < len + more)
      BY <1>1, <1>2, <1>3, <2>3
    <2>5. ASSUME NEW j \in 1..(len + more)
          PROVE  IF j <= n THEN after[j].time <= s ELSE after[j].time >= s
      <3>1. CASE j <= len
        <4>1. j \in 1..len /\ after[j] = events[j]
          BY <1>1, <1>2, <1>3, <3>1
        <4>2. IF j <= n THEN events[j].time <= s ELSE events[j].time >= s
          BY <1>1, <1>2, <1>3, <2>1, <2>2, <4>1 DEF Fits
        <4>. QED  BY <1>1, <1>2, <1>3, <4>1, <4>2
      <3>2. CASE j > len
        <4>1. after[j].time = t /\ s <= t /\ ~(j <= n)
          BY <1>1, <1>2, <1>3, <2>1, <2>3, <3>2
        <4>. QED  BY <1>1, <1>2, <1>3, <4>1
      <3>. QED  BY <1>1, <1>2, <1>3, <3>1, <3>2
    <2>. QED  BY <1>1, <1>2, <1>3, <2>1, <2>4, <2>5 DEF Fits
  <1>5. ASSUME NEW i \in Present(chunks)
        PROVE  \A base : After(base, after, chunks[i].eventCount) = After(base, events, chunks[i].eventCount)
    <2>1. PICK n \in Nat : n = chunks[i].eventCount
      BY <1>1, <1>2, <1>3, PresentIs
    <2>2. n <= len
      BY <1>1, <1>2, <1>3, <2>1 DEF History, Fits
    <2>3. \A k \in 1..n : after[k].input = events[k].input
      BY <1>1, <1>2, <1>3, <2>2
    <2>4. \A base : After(base, after, n) = After(base, events, n)
      BY <2>3, InputsSame, Zenon
    <2>. QED  BY <2>1, <2>4, Zenon
  <1>. QED  BY <1>1, <1>2, <1>3, <1>4, <1>5 DEF History

\* stopReplay() cuts off the future.
LEMMA LogCut ==
    ASSUME NEW events \in Seq(Entry), Log(events), NEW n \in Nat, n < Len(events)
    PROVE  LET after == SubSeq(events, 1, n)
           IN  /\ after \in Seq(Entry) /\ Len(after) = n
               /\ \A i \in 1..n : after[i] = events[i]
               /\ Log(after) /\ ~HasEnd(after)
  <1>. DEFINE after == SubSeq(events, 1, n)
  <1>1. after \in Seq(Entry) /\ Len(after) = n /\ \A i \in 1..n : after[i] = events[i]
    OBVIOUS
  <1>. HIDE DEF after
  <1>2. \A i \in 1..n : i \in 1..Len(events) /\ i < Len(events)
    OBVIOUS
  <1>3. Log(after)
    BY <1>1, <1>2 DEF Log
  <1>4. ~HasEnd(after)
    <2>1. \A i \in 1..n : events[i].input # EndLog
      BY <1>2, NoEndInside
    <2>. QED  BY <1>1, <2>1, EndIsLast
  <1>. QED  BY <1>1, <1>3, <1>4 DEF after

LEMMA OnlyPresent ==
    ASSUME NEW chunks \in Snapshots, NEW S
    PROVE  /\ Only(chunks, S) \in Snapshots
           /\ Present(Only(chunks, S)) = Present(chunks) \cap S
           /\ \A i \in Present(chunks) \cap S : Only(chunks, S)[i] = chunks[i]
  BY DEF Only, Present, Snapshots

\* "after" is the log up to its event n, "kept" are snapshots of those events.
CutTo(events, chunks, n, after, kept) ==
    /\ events \in Seq(Entry) /\ after \in Seq(Entry) /\ chunks \in Snapshots /\ kept \in Snapshots
    /\ History(events, chunks) /\ n \in Nat /\ n <= Len(events) /\ Len(after) = n
    /\ \A i \in 1..n : after[i] = events[i]
    /\ ~HasEnd(after)
    /\ Present(kept) \subseteq Present(chunks) /\ 0 \in Present(kept)
    /\ \A i \in Present(kept) : kept[i] = chunks[i] /\ kept[i].eventCount <= n

LEMMA HistoryCut ==
    ASSUME NEW events, NEW chunks, NEW n, NEW after, NEW kept,
           CutTo(events, chunks, n, after, kept)
    PROVE  History(after, kept)
  <1>1. /\ events \in Seq(Entry) /\ after \in Seq(Entry) /\ chunks \in Snapshots /\ kept \in Snapshots
        /\ History(events, chunks) /\ n \in Nat /\ n <= Len(events) /\ Len(after) = n
        /\ \A i \in 1..n : after[i] = events[i]
        /\ ~HasEnd(after)
        /\ Present(kept) \subseteq Present(chunks) /\ 0 \in Present(kept)
        /\ \A i \in Present(kept) : kept[i] = chunks[i] /\ kept[i].eventCount <= n
    BY DEF CutTo
  <1>2. ASSUME NEW i \in Present(kept) PROVE Fits(kept[i], after)
    <2>1. Fits(chunks[i], events) /\ kept[i] = chunks[i]
      BY <1>1 DEF History
    <2>2. \A j \in 1..n : j \in 1..Len(events)
      BY <1>1
    <2>. QED  BY <1>1, <2>1, <2>2 DEF Fits
  <1>3. ASSUME NEW i \in Present(kept)
        PROVE  \A base : After(base, after, kept[i].eventCount) = After(base, events, kept[i].eventCount)
    <2>1. PICK m \in Nat : m = kept[i].eventCount
      BY <1>1, PresentIs
    <2>2. \A k \in 1..m : after[k].input = events[k].input
      BY <1>1, <2>1
    <2>3. \A base : After(base, after, m) = After(base, events, m)
      BY <2>2, InputsSame, Zenon
    <2>. QED  BY <2>1, <2>3, Zenon
  <1>4. ASSUME NEW i \in Present(kept)
        PROVE  /\ kept[0].time <= kept[i].time
               /\ i = RoundHalfEven(kept[i].time - kept[0].time, Period)
               /\ Exact => kept[i].received = After(kept[0].received, after, kept[i].eventCount)
    <2>1. kept[i] = chunks[i] /\ kept[0] = chunks[0] /\ i \in Present(chunks)
      BY <1>1
    <2>2. /\ chunks[0].time <= chunks[i].time
          /\ i = RoundHalfEven(chunks[i].time - chunks[0].time, Period)
          /\ Exact => chunks[i].received = After(chunks[0].received, events, chunks[i].eventCount)
      BY <1>1, <2>1 DEF History
    <2>3. After(kept[0].received, after, kept[i].eventCount) = After(kept[0].received, events, kept[i].eventCount)
      BY <1>3
    <2>. QED  BY <2>1, <2>2, <2>3
  <1>5. kept[0] = chunks[0] /\ chunks[0].eventCount = 0 /\ chunks[0].time <= MaxTime
    BY <1>1 DEF History
  <1>. QED  BY <1>1, <1>2, <1>4, <1>5 DEF History

---------------------------------------------------------------------------
\* Recording.

LEMMA BoardIs ==
    ASSUME NEW b \in BoardType
    PROVE  /\ b.now \in Nat /\ b.insEnd \in Nat /\ b.received \in Seq(Nat)
           /\ b.collecting \in BOOLEAN /\ b.pendingTakeSnapshot \in BOOLEAN
           /\ b.events \in Seq(Entry) /\ Len(b.events) \in Nat /\ b.replayIndex \in Nat
           /\ b.chunks \in Snapshots /\ b.snapSync \in Seq(Nat) /\ b.inputSync \in Seq(Nat)
           /\ b.held \in Nat
  BY DEF BoardType

Entries(inputs, t) == [i \in DOMAIN inputs |-> [time |-> t, input |-> inputs[i]]]

LEMMA NewEntries ==
    ASSUME NEW inputs \in Seq(Nat), NEW t \in Nat
    PROVE  /\ Entries(inputs, t) \in Seq(Entry) /\ Len(Entries(inputs, t)) = Len(inputs)
           /\ \A i \in 1..Len(inputs) : /\ Entries(inputs, t)[i].time = t
                                        /\ Entries(inputs, t)[i].input = inputs[i]
  <1>1. DOMAIN inputs = 1..Len(inputs) /\ \A i \in 1..Len(inputs) : inputs[i] \in Nat
    OBVIOUS
  <1>. QED  BY <1>1 DEF Entry, Entries

\* What Record does to the board: r is b with the inputs at the end of its log.
Recorded(b, inputs, r) ==
    /\ r.now = b.now /\ r.insEnd = b.insEnd /\ r.collecting = b.collecting
    /\ r.pendingTakeSnapshot = b.pendingTakeSnapshot /\ r.chunks = b.chunks
    /\ r.snapSync = b.snapSync /\ r.inputSync = b.inputSync /\ r.held = b.held
    /\ r.replayIndex = b.replayIndex + Len(inputs)
    /\ r.received = b.received \o inputs
    /\ Len(r.events) = Len(b.events) + Len(inputs)
    /\ \A i \in 1..Len(b.events) : r.events[i] = b.events[i]
    /\ \A i \in (Len(b.events) + 1)..(Len(b.events) + Len(inputs)) :
          /\ i - Len(b.events) \in 1..Len(inputs) /\ r.events[i].time = b.now
          /\ r.events[i].input = inputs[i - Len(b.events)]

LEMMA RecordEffect ==
    ASSUME NEW b \in BoardType, NEW inputs \in Seq(Nat), NEW r, r = Record(b, inputs)
    PROVE  r \in BoardType /\ Recorded(b, inputs, r)
  <1>1. PICK len \in Nat, more \in Nat : len = Len(b.events) /\ more = Len(inputs)
    BY BoardIs
  <1>2. PICK ev \in Seq(Entry), t \in Nat, index \in Nat :
           /\ ev = b.events /\ len = Len(ev) /\ more = Len(inputs)
           /\ t = b.now /\ index = b.replayIndex + more
    <2>1. b.replayIndex + more \in Nat
      BY BoardIs
    <2>. QED  BY <1>1, <2>1, BoardIs
  <1>3. PICK new \in Seq(Entry) :
           /\ new = Entries(inputs, t) /\ Len(new) = more
           /\ \A i \in 1..more : new[i].time = t /\ new[i].input = inputs[i]
    <2>1. /\ Entries(inputs, t) \in Seq(Entry) /\ Len(Entries(inputs, t)) = Len(inputs)
          /\ \A i \in 1..Len(inputs) : /\ Entries(inputs, t)[i].time = t
                                       /\ Entries(inputs, t)[i].input = inputs[i]
      BY NewEntries
    <2>. QED  BY <1>2, <2>1
  <1>. DEFINE after == ev \o new
  <1>4. /\ after \in Seq(Entry) /\ Len(after) = len + more
        /\ \A i \in 1..len : after[i] = ev[i]
        /\ \A i \in (len + 1)..(len + more) :
              i - len \in 1..more /\ after[i].time = t /\ after[i].input = inputs[i - len]
    <2>1. /\ ev \o new \in Seq(Entry) /\ Len(ev \o new) = Len(ev) + Len(new)
          /\ \A i \in 1..Len(ev) : (ev \o new)[i] = ev[i]
          /\ \A i \in (Len(ev) + 1)..(Len(ev) + Len(new)) :
                i - Len(ev) \in 1..Len(new) /\ (ev \o new)[i] = new[i - Len(ev)]
      BY EntriesConcat
    <2>2. Len(ev) = len /\ Len(new) = more
      BY <1>2, <1>3
    <2>3. /\ after \in Seq(Entry) /\ Len(after) = len + more
          /\ \A i \in 1..len : after[i] = ev[i]
          /\ \A i \in (len + 1)..(len + more) : i - len \in 1..more /\ after[i] = new[i - len]
      BY <2>1, <2>2
    <2>. QED  BY <1>3, <2>3
  <1>5. PICK received \in Seq(Nat) : received = b.received \o inputs
    <2>1. b.received \in Seq(Nat)
      BY BoardIs
    <2>. QED  BY <2>1, NatsConcat
  <1>6. r = [b EXCEPT !.events = after, !.replayIndex = index, !.received = received]
    BY <1>2, <1>3, <1>5 DEF Record, Entries
  <1>. HIDE DEF after
  <1>7. r \in BoardType
    BY <1>4, <1>6 DEF BoardType
  <1>8. /\ r.events = after /\ r.received = received /\ r.replayIndex = index
        /\ r.now = b.now /\ r.insEnd = b.insEnd /\ r.collecting = b.collecting
        /\ r.pendingTakeSnapshot = b.pendingTakeSnapshot /\ r.chunks = b.chunks
        /\ r.snapSync = b.snapSync /\ r.inputSync = b.inputSync /\ r.held = b.held
    BY <1>6 DEF BoardType
  <1>. QED  BY <1>1, <1>2, <1>4, <1>5, <1>7, <1>8 DEF Recorded

\* A machine that records, up to date with its log.
Live(b) == BoardInv(b) /\ b.collecting /\ ~Replaying(b)

LEMMA RecordLive ==
    ASSUME NEW b \in BoardType, Live(b), NEW inputs \in Seq(Nat),
           \A i \in 1..Len(inputs) : inputs[i] # EndLog, NEW r, r = Record(b, inputs)
    PROVE  r \in BoardType /\ Live(r)
  <1>1. PICK ev \in Seq(Entry), chunks \in Snapshots, t \in Nat :
           ev = b.events /\ chunks = b.chunks /\ t = b.now
    BY BoardIs
  <1>2. PICK len \in Nat, more \in Nat : len = Len(ev) /\ more = Len(inputs)
    OBVIOUS
  <1>3. \A i \in 1..more : inputs[i] # EndLog
    BY <1>2
  <1>4. r \in BoardType /\ Recorded(b, inputs, r)
    BY RecordEffect
  <1>5. /\ r.now = b.now /\ r.insEnd = b.insEnd /\ r.collecting = b.collecting
        /\ r.pendingTakeSnapshot = b.pendingTakeSnapshot /\ r.chunks = b.chunks
        /\ r.snapSync = b.snapSync /\ r.inputSync = b.inputSync
        /\ r.replayIndex = b.replayIndex + more
        /\ r.received = b.received \o inputs
        /\ Len(r.events) = len + more
        /\ \A i \in 1..len : r.events[i] = ev[i]
        /\ \A i \in (len + 1)..(len + more) :
              /\ i - len \in 1..more /\ r.events[i].time = t
              /\ r.events[i].input = inputs[i - len]
    BY <1>1, <1>2, <1>4 DEF Recorded
  <1>6. PICK after \in Seq(Entry) : after = r.events
    BY <1>4, BoardIs
  <1>7. /\ Len(after) = len + more
        /\ \A i \in 1..len : after[i] = ev[i]
        /\ \A i \in (len + 1)..(len + more) : after[i].time = t /\ after[i].input # EndLog
        /\ \A i \in (len + 1)..(len + more) : i - len \in 1..more /\ after[i].input = inputs[i - len]
    <2>1. \A i \in (len + 1)..(len + more) : inputs[i - len] # EndLog
      BY <1>3, <1>5
    <2>. QED  BY <1>5, <1>6, <2>1
  <1>8. /\ Log(ev) /\ b.replayIndex = len /\ ~HasEnd(ev) /\ b.inputSync = <<>>
        /\ b.now <= b.insEnd /\ b.insEnd <= MaxTime + MaxStep /\ Recording(b)
        /\ \A i \in 1..len : ev[i].time <= t
    BY <1>1, <1>2 DEF Live, BoardInv, Planned, Replaying
  <1>9. Extends(ev, after, t)
    BY <1>2, <1>7 DEF Extends
  <1>10. Log(after)
    <2>1. \A i \in 1..Len(ev) : ev[i].time <= t
      BY <1>2, <1>8
    <2>2. \A i \in (Len(ev) + 1)..Len(after) : i < Len(after) => after[i].input # EndLog
      BY <1>2, <1>7
    <2>. QED  BY <1>8, <1>9, <2>1, <2>2, LogGrows
  <1>11. ~HasEnd(after)
    <2>1. CASE more = 0
      <3>1. len > 0 => after[len] = ev[len]
        <4>1. len > 0 => len \in 1..len
          OBVIOUS
        <4>. QED  BY <1>7, <4>1
      <3>2. Len(after) = len
        BY <1>7, <2>1
      <3>. QED  BY <1>2, <1>8, <3>1, <3>2, EndIsLast
    <2>2. CASE more > 0
      <3>1. len + more \in (len + 1)..(len + more)
        BY <2>2
      <3>. QED  BY <1>7, <3>1, EndIsLast
    <2>. QED  BY <2>1, <2>2
  <1>12. /\ History(ev, chunks)
         /\ Exact => b.received = After(chunks[0].received, ev, len)
         /\ chunks[0].time <= t /\ \A i \in Present(chunks) : chunks[i].time <= t
         /\ \A i \in 1..Len(b.snapSync) : b.snapSync[i] >= chunks[0].time + Period
         /\ b.pendingTakeSnapshot => t >= chunks[0].time + Period
    BY <1>1, <1>8 DEF Live, Recording
  <1>13. History(after, chunks)
    <2>1. \A i \in Present(chunks) : chunks[i].time <= t
      BY <1>12
    <2>. QED  BY <1>11, <1>12, <1>9, <2>1, HistoryGrows
  <1>14. Exact => r.received = After(chunks[0].received, after, len + more)
    <2>1. \A i \in 1..len : ev[i].input \in Nat /\ after[i].input = ev[i].input
      BY <1>2, <1>7, EntryIs
    <2>2. PICK base \in Seq(Nat) : base = chunks[0].received
      BY <1>12, PresentIs DEF History
    <2>3. \A i \in 1..Len(inputs) : after[len + i].input = inputs[i]
      <3>1. \A i \in 1..more : len + i \in (len + 1)..(len + more) /\ (len + i) - len = i
        OBVIOUS
      <3>. QED  BY <1>2, <1>7, <3>1
    <2>4. PICK m \in Nat : m = len + Len(inputs) /\ m = len + more
      BY <1>2
    <2>5. After(base, after, m) = After(base, ev, len) \o inputs
      <3>1. Continues(base, ev, len, after, m, inputs)
        BY <2>1, <2>3, <2>4 DEF Continues
      <3>. QED  BY <3>1, InputsMore
    <2>. QED  BY <1>2, <1>5, <1>12, <2>2, <2>4, <2>5
  <1>15. r.replayIndex = Len(after) /\ ~Replaying(r)
    BY <1>2, <1>5, <1>6, <1>7, <1>8 DEF Replaying
  <1>16. Recording(r)
    <2>1. Exact => r.received = After(r.chunks[0].received, r.events, r.replayIndex)
      BY <1>1, <1>5, <1>6, <1>7, <1>14, <1>15
    <2>. QED  BY <1>1, <1>5, <1>6, <1>12, <1>13, <2>1 DEF Recording
  <1>17. \A i \in 1..r.replayIndex : r.events[i].time <= r.now
    <2>1. ASSUME NEW i \in 1..(len + more) PROVE after[i].time <= t
      <3>1. CASE i <= len
        <4>1. i \in 1..len
          BY <3>1
        <4>. QED  BY <1>7, <1>8, <4>1
      <3>2. CASE i > len
        <4>1. i \in (len + 1)..(len + more)
          BY <3>2
        <4>. QED  BY <1>7, <4>1
      <3>. QED  BY <3>1, <3>2
    <2>. QED  BY <1>1, <1>5, <1>6, <1>7, <1>15, <2>1
  <1>18. Planned(r)
    BY <1>5, <1>6, <1>8, <1>11, <1>15 DEF Planned
  <1>. QED  BY <1>1, <1>4, <1>5, <1>6, <1>7, <1>8, <1>10, <1>15, <1>16, <1>17, <1>18 DEF Live, BoardInv

\* What StopReplay needs: the point of the replay that ends may be gone already.
Stoppable(b) ==
    /\ b.collecting /\ Log(b.events) /\ b.replayIndex <= Len(b.events) /\ Recording(b)
    /\ \A i \in 1..b.replayIndex : b.events[i].time <= b.now
    /\ b.now <= b.insEnd /\ b.insEnd <= MaxTime + MaxStep
    /\ IF Replaying(b) THEN Len(b.inputSync) <= 1 /\ Past(b)
       ELSE b.inputSync = <<>> /\ ~HasEnd(b.events)

LEMMA StopReplayLive ==
    ASSUME NEW b \in BoardType, Stoppable(b), NEW keys \in Seq(Nat),
           \A i \in 1..Len(keys) : keys[i] # EndLog, NEW r, r = StopReplay(b, keys)
    PROVE  r \in BoardType /\ Live(r)
  <1>1. CASE ~Replaying(b)
    <2>1. r = b
      BY <1>1 DEF StopReplay
    <2>. QED  BY <1>1, <2>1 DEF Live, BoardInv, Planned, Stoppable
  <1>2. CASE Replaying(b)
    <2>1. PICK ev \in Seq(Entry), chunks \in Snapshots, t \in Nat, n \in Nat :
             ev = b.events /\ chunks = b.chunks /\ t = b.now /\ n = b.replayIndex
      BY BoardIs
    <2>2. n < Len(ev)
      <3>1. n <= Len(ev) /\ n # Len(ev) /\ Len(ev) \in Nat
        BY <1>2, <2>1 DEF Stoppable, Replaying
      <3>. QED  BY <3>1
    <2>3. PICK after \in Seq(Entry) :
             /\ after = SubSeq(ev, 1, n) /\ Len(after) = n /\ \A i \in 1..n : after[i] = ev[i]
             /\ Log(after) /\ ~HasEnd(after)
      <3>1. Log(ev)
        BY <2>1 DEF Stoppable
      <3>. QED  BY <2>2, <3>1, LogCut
    <2>4. PICK kept \in Snapshots :
             /\ kept = Only(chunks, {i \in SeqNums : chunks[i].time <= t})
             /\ Present(kept) = {i \in Present(chunks) : chunks[i].time <= t}
             /\ \A i \in Present(kept) : kept[i] = chunks[i]
      <3>1. PICK S : S = {i \in SeqNums : chunks[i].time <= t}
        OBVIOUS
      <3>2. /\ Only(chunks, S) \in Snapshots /\ Present(Only(chunks, S)) = Present(chunks) \cap S
            /\ \A i \in Present(chunks) \cap S : Only(chunks, S)[i] = chunks[i]
        BY OnlyPresent
      <3>3. Present(chunks) \cap S = {i \in Present(chunks) : chunks[i].time <= t}
        BY <3>1 DEF Present
      <3>. QED  BY <3>1, <3>2, <3>3
    <2>5. PICK s : s = [b EXCEPT !.inputSync = <<>>, !.events = after, !.chunks = kept]
      OBVIOUS
    <2>6. r = Record(s, keys)
      <3>1. Unscheduled(b.inputSync) = <<>>
        <4>1. b.inputSync \in Seq(Nat) /\ Len(b.inputSync) <= 1
          BY <1>2, BoardIs DEF Stoppable
        <4>. QED  BY <4>1 DEF Unscheduled
      <3>. QED  BY <1>2, <2>1, <2>3, <2>4, <2>5, <3>1 DEF StopReplay
    <2>7. s \in BoardType
      <3>1. PICK none \in Seq(Nat) : none = <<>>
        <4>1. <<>> \in Seq(Nat)
          OBVIOUS
        <4>. QED  BY <4>1, Zenon
      <3>2. s = [b EXCEPT !.inputSync = none, !.events = after, !.chunks = kept]
        BY <2>5, <3>1
      <3>. QED  BY <3>2 DEF BoardType
    <2>8. /\ s.events = after /\ s.chunks = kept /\ s.inputSync = <<>>
          /\ s.now = b.now /\ s.insEnd = b.insEnd /\ s.collecting = b.collecting
          /\ s.pendingTakeSnapshot = b.pendingTakeSnapshot /\ s.replayIndex = b.replayIndex
          /\ s.received = b.received /\ s.snapSync = b.snapSync
      BY <2>5 DEF BoardType
    <2>9. /\ History(ev, chunks) /\ (Exact => b.received = After(chunks[0].received, ev, n))
          /\ chunks[0].time <= t
          /\ \A i \in 1..Len(b.snapSync) : b.snapSync[i] >= chunks[0].time + Period
          /\ b.pendingTakeSnapshot => b.now >= chunks[0].time + Period
      BY <2>1 DEF Stoppable, Recording
    <2>10. 0 \in Present(kept) /\ Present(kept) \subseteq Present(chunks)
      BY <2>4, <2>9 DEF History
    <2>11. \A i \in Present(kept) : chunks[i].time <= t /\ kept[i].eventCount <= n
      BY <1>2, <2>1, <2>4 DEF Stoppable, Past
    <2>12. History(after, kept)
      <3>1. CutTo(ev, chunks, n, after, kept)
        BY <2>2, <2>3, <2>4, <2>9, <2>10, <2>11 DEF CutTo
      <3>. QED  BY <3>1, HistoryCut
    <2>13. kept[0] = chunks[0] /\ \A i \in Present(kept) : kept[i].time <= t
      BY <2>4, <2>10, <2>11
    <2>14. Exact => s.received = After(kept[0].received, after, n)
      <3>1. \A i \in 1..n : after[i].input = ev[i].input
        BY <2>3
      <3>2. \A base : After(base, after, n) = After(base, ev, n)
        BY <3>1, InputsSame
      <3>. QED  BY <2>8, <2>9, <2>13, <3>2
    <2>15. Recording(s)
      BY <2>1, <2>8, <2>9, <2>12, <2>13, <2>14 DEF Recording
    <2>16. ~Replaying(s)
      BY <2>1, <2>3, <2>8 DEF Replaying
    <2>17. \A i \in 1..n : after[i].time <= t
      BY <2>1, <2>3 DEF Stoppable
    <2>18. Live(s)
      <3>1. Planned(s)
        BY <2>3, <2>8, <2>16 DEF Planned
      <3>2. Log(s.events) /\ s.replayIndex <= Len(s.events) /\ s.collecting
            /\ s.now <= s.insEnd /\ s.insEnd <= MaxTime + MaxStep
        BY <2>1, <2>3, <2>8 DEF Stoppable
      <3>. QED  BY <2>1, <2>8, <2>15, <2>16, <2>17, <3>1, <3>2 DEF Live, BoardInv
    <2>. QED  BY <2>6, <2>7, <2>18, RecordLive
  <1>. QED  BY <1>1, <1>2

\* What inputs never touch.
Same(b, r) ==
    /\ r.now = b.now /\ r.insEnd = b.insEnd /\ r.collecting = b.collecting
    /\ r.pendingTakeSnapshot = b.pendingTakeSnapshot /\ r.snapSync = b.snapSync
    /\ r.chunks[0] = b.chunks[0]

LEMMA RecordSame ==
    ASSUME NEW b \in BoardType, NEW inputs \in Seq(Nat), NEW r, r = Record(b, inputs)
    PROVE  Same(b, r)
  <1>1. Recorded(b, inputs, r)
    BY RecordEffect
  <1>. QED  BY <1>1 DEF Recorded, Same

LEMMA StopReplaySame ==
    ASSUME NEW b \in BoardType, b.chunks[0].time <= b.now, NEW keys, NEW r, r = StopReplay(b, keys)
    PROVE  Same(b, r)
  <1>1. CASE ~Replaying(b)
    BY <1>1 DEF StopReplay, Same
  <1>2. CASE Replaying(b)
    <2>1. PICK chunks : chunks = Only(b.chunks, {i \in SeqNums : b.chunks[i].time <= b.now})
      OBVIOUS
    <2>2. PICK s : s = [b EXCEPT !.inputSync = Unscheduled(b.inputSync),
                                 !.events = SubSeq(b.events, 1, b.replayIndex), !.chunks = chunks]
      OBVIOUS
    <2>3. r = Record(s, keys)
      BY <1>2, <2>1, <2>2 DEF StopReplay
    <2>4. PICK events, index, received :
             r = [s EXCEPT !.events = events, !.replayIndex = index, !.received = received]
      BY <2>3 DEF Record
    <2>5. chunks[0] = b.chunks[0]
      BY <2>1, SeqNumsNat DEF Only
    <2>6. Same(b, s)
      BY <2>2, <2>5 DEF Same, BoardType
    <2>7. Same(s, r)
      BY <2>2, <2>4 DEF Same, BoardType
    <2>. QED  BY <2>6, <2>7 DEF Same
  <1>. QED  BY <1>1, <1>2

\* A machine that records has no snapshot ahead in its log.
LEMMA LivePast ==
    ASSUME NEW b \in BoardType, Live(b)
    PROVE  Past(b)
  BY DEF Live, BoardInv, Recording, History, Fits, Past, Replaying

\* Nor has one whose next event is still to come, or is the last.
LEMMA NextLater ==
    ASSUME NEW b \in BoardType, BoardInv(b), b.collecting, Replaying(b),
           \/ b.events[b.replayIndex + 1].time > b.now
           \/ b.events[b.replayIndex + 1].input = EndLog
    PROVE  Past(b)
  <1>1. PICK ev \in Seq(Entry), chunks \in Snapshots, t \in Nat, n \in Nat, len \in Nat, next \in Nat :
           /\ ev = b.events /\ chunks = b.chunks /\ t = b.now /\ n = b.replayIndex
           /\ len = Len(ev) /\ next = n + 1
    <2>1. b.replayIndex + 1 \in Nat
      BY BoardIs
    <2>. QED  BY <2>1, BoardIs
  <1>2. History(ev, chunks) /\ Log(ev) /\ n <= len /\ n # len /\ HasEnd(ev)
    BY <1>1 DEF BoardInv, Recording, Planned, Replaying
  <1>3. next \in 1..len
    BY <1>1, <1>2
  <1>4. ASSUME NEW i \in Present(chunks), chunks[i].time <= t PROVE chunks[i].eventCount <= n
    <2>1. PICK s \in Nat, c \in Nat : s = chunks[i].time /\ c = chunks[i].eventCount
      BY PresentIs
    <2>2. c < len /\ \A j \in 1..len : IF j <= c THEN ev[j].time <= s ELSE ev[j].time >= s
      BY <1>1, <1>2, <2>1 DEF History, Fits
    <2>3. CASE ev[next].time > t
      <3>1. ev[next].time \in Nat
        BY <1>1, <1>3, EntryIs
      <3>2. ~(next <= c)
        BY <1>3, <1>4, <2>1, <2>2, <2>3, <3>1
      <3>. QED  BY <1>1, <2>1, <3>2
    <2>4. CASE ev[next].input = EndLog
      <3>1. ~(next < len)
        BY <1>1, <1>2, <1>3, <2>4, NoEndInside
      <3>. QED  BY <1>1, <1>3, <2>1, <2>2, <3>1
    <2>. QED  BY <1>1, <2>3, <2>4
  <1>. QED  BY <1>1, <1>4 DEF Past

LEMMA StoppableIs ==
    ASSUME NEW b \in BoardType, BoardInv(b), b.collecting, Past(b)
    PROVE  Stoppable(b)
  <1>1. CASE Replaying(b)
    <2>1. PICK t : b.inputSync = <<t>>
      BY <1>1 DEF BoardInv, Planned
    <2>2. Len(b.inputSync) <= 1
      BY <2>1
    <2>. QED  BY <1>1, <2>2 DEF BoardInv, Planned, Stoppable
  <1>2. CASE ~Replaying(b)
    BY <1>2 DEF BoardInv, Planned, Stoppable
  <1>. QED  BY <1>1, <1>2

LEMMA NewInputInv ==
    ASSUME NEW b \in BoardType, BoardInv(b), Past(b),
           NEW keys \in Seq(Nat), \A i \in 1..Len(keys) : keys[i] # EndLog,
           NEW input \in Nat, input # EndLog, NEW r, r = DistributeNew(b, keys, input)
    PROVE  r \in BoardType /\ BoardInv(r) /\ Past(r) /\ Same(b, r)
  <1>1. CASE ~b.collecting
    <2>1. PICK received \in Seq(Nat) : received = Append(b.received, input)
      <3>1. Append(b.received, input) \in Seq(Nat)
        BY BoardIs
      <3>. QED  BY <3>1, Zenon
    <2>2. r = [b EXCEPT !.received = received]
      BY <1>1, <2>1 DEF DistributeNew, Receive
    <2>3. r \in BoardType
      BY <2>2 DEF BoardType
    <2>4. /\ r.events = b.events /\ r.chunks = b.chunks /\ r.inputSync = b.inputSync
          /\ r.now = b.now /\ r.insEnd = b.insEnd /\ r.collecting = b.collecting
          /\ r.pendingTakeSnapshot = b.pendingTakeSnapshot /\ r.replayIndex = b.replayIndex
          /\ r.snapSync = b.snapSync
      BY <2>2 DEF BoardType
    <2>. QED  BY <1>1, <2>3, <2>4 DEF BoardInv, Planned, Replaying, Past, Same
  <1>2. CASE b.collecting /\ Replaying(b) /\ viewOnly
    <2>1. r = b
      BY <1>2 DEF DistributeNew
    <2>. QED  BY <2>1 DEF Same
  <1>3. CASE b.collecting /\ ~(Replaying(b) /\ viewOnly)
    <2>1. PICK s : s = StopReplay(b, keys)
      OBVIOUS
    <2>2. s \in BoardType /\ Live(s)
      <3>1. Stoppable(b)
        BY <1>3, StoppableIs
      <3>. QED  BY <2>1, <3>1, StopReplayLive
    <2>3. Same(b, s)
      <3>1. b.chunks[0].time <= b.now
        BY <1>3 DEF BoardInv, Recording
      <3>. QED  BY <2>1, <3>1, StopReplaySame
    <2>4. PICK one \in Seq(Nat) : one = <<input>> /\ \A i \in 1..Len(one) : one[i] # EndLog
      <3>1. <<input>> \in Seq(Nat) /\ \A i \in 1..Len(<<input>>) : <<input>>[i] # EndLog
        OBVIOUS
      <3>. QED  BY <3>1
    <2>5. r = Record(s, one)
      BY <1>3, <2>1, <2>4 DEF DistributeNew
    <2>6. r \in BoardType /\ Live(r)
      BY <2>2, <2>4, <2>5, RecordLive
    <2>7. Same(s, r)
      BY <2>2, <2>5, RecordSame
    <2>8. Same(b, r)
      BY <2>3, <2>7 DEF Same
    <2>9. Past(r)
      BY <2>6, LivePast
    <2>. QED  BY <2>6, <2>8, <2>9 DEF Live
  <1>. QED  BY <1>1, <1>2, <1>3

---------------------------------------------------------------------------
\* Time travel: the log gets its end, a board is made of a snapshot.

LEMMA WithEndInv ==
    ASSUME NEW b \in BoardType, BoardInv(b), b.collecting
    PROVE  /\ WithEnd(b) \in Seq(Entry) /\ Log(WithEnd(b)) /\ HasEnd(WithEnd(b))
           /\ History(WithEnd(b), b.chunks)
  <1>1. CASE HasEnd(b.events)
    <2>1. WithEnd(b) = b.events
      BY <1>1 DEF WithEnd
    <2>. QED  BY <1>1, <2>1, BoardIs DEF BoardInv, Recording
  <1>2. CASE ~HasEnd(b.events)
    <2>1. PICK ev \in Seq(Entry), chunks \in Snapshots, t \in Nat, len \in Nat :
             ev = b.events /\ chunks = b.chunks /\ t = b.now /\ len = Len(ev)
      BY BoardIs
    <2>2. PICK e \in Entry : e = [time |-> t, input |-> EndLog]
      BY DEF Entry, EndLog
    <2>3. PICK after \in Seq(Entry) :
             /\ after = Append(ev, e) /\ Len(after) = len + 1
             /\ \A i \in 1..len : after[i] = ev[i]
             /\ after[len + 1] = e
      <3>1. /\ Append(ev, e) \in Seq(Entry) /\ Len(Append(ev, e)) = len + 1
            /\ \A i \in 1..len : Append(ev, e)[i] = ev[i]
            /\ Append(ev, e)[len + 1] = e
        BY <2>1
      <3>. QED  BY <3>1
    <2>4. WithEnd(b) = after
      <3>1. after = Append(b.events, [time |-> b.now, input |-> EndLog])
        BY <2>1, <2>2, <2>3
      <3>. QED  BY <1>2, <3>1, Zenon DEF WithEnd
    <2>5. HasEnd(after)
      <3>1. Len(after) > 0 /\ after[Len(after)].input = EndLog
        BY <2>2, <2>3
      <3>. QED  BY <3>1, EndIsLast
    <2>6. Extends(ev, after, t)
      BY <2>1, <2>2, <2>3 DEF Extends
    <2>7. /\ Log(ev) /\ History(ev, chunks) /\ ~HasEnd(ev) /\ b.replayIndex = len
          /\ \A i \in 1..len : ev[i].time <= t
          /\ \A i \in Present(chunks) : chunks[i].time <= t
      BY <1>2, <2>1 DEF BoardInv, Planned, Replaying, Recording
    <2>8. Log(after)
      <3>1. /\ \A i \in 1..Len(ev) : ev[i].time <= t
            /\ \A i \in (Len(ev) + 1)..Len(after) : i < Len(after) => after[i].input # EndLog
        BY <2>1, <2>3, <2>7
      <3>. QED  BY <2>6, <2>7, <3>1, LogGrows
    <2>9. History(after, chunks)
      <3>1. HasEnd(after) => HasEnd(ev) \/ Len(after) > Len(ev)
        BY <2>1, <2>3
      <3>. QED  BY <2>6, <2>7, <3>1, HistoryGrows
    <2>. QED  BY <2>1, <2>4, <2>5, <2>8, <2>9
  <1>. QED  BY <1>1, <1>2

LEMMA SnapshotOrder ==
    ASSUME NEW events \in Seq(Entry), NEW chunks \in Snapshots, History(events, chunks),
           NEW i \in Present(chunks), NEW j \in Present(chunks), chunks[j].time <= chunks[i].time
    PROVE  chunks[j].eventCount <= chunks[i].eventCount
  <1>1. PICK c \in Nat, d \in Nat, s \in Nat, t \in Nat :
           c = chunks[i].eventCount /\ d = chunks[j].eventCount /\ s = chunks[i].time /\ t = chunks[j].time
    <2>1. /\ chunks[i].time \in Nat /\ chunks[i].eventCount \in Nat
          /\ chunks[j].time \in Nat /\ chunks[j].eventCount \in Nat
      BY PresentIs
    <2>. QED  BY <2>1
  <1>2. CASE i = j
    BY <1>1, <1>2
  <1>3. CASE i < j
    BY <1>1, <1>3, NumbersAreTimes
  <1>4. CASE j < i
    <2>1. t < s
      BY <1>1, <1>4, NumbersAreTimes
    <2>2. /\ d <= Len(events)
          /\ \A k \in 1..Len(events) : IF k <= d THEN events[k].time <= t ELSE events[k].time >= t
          /\ \A k \in 1..Len(events) : IF k <= c THEN events[k].time <= s ELSE events[k].time >= s
      BY <1>1 DEF History, Fits
    <2>3. SUFFICES ASSUME c < d PROVE FALSE
      BY <1>1
    <2>4. PICK k \in 1..Len(events) : k = d
      BY <2>2, <2>3
    <2>5. events[k].time \in Nat
      BY EntryIs
    <2>6. events[k].time <= t /\ events[k].time >= s
      BY <2>2, <2>3, <2>4
    <2>. QED  BY <2>1, <2>5, <2>6
  <1>5. i \in Nat /\ j \in Nat
    BY PresentIs
  <1>. QED  BY <1>2, <1>3, <1>4, <1>5

\* A history that a board can be restored from, at its snapshot i.
Restorable(events, chunks, i) ==
    /\ events \in Seq(Entry) /\ chunks \in Snapshots /\ i \in Present(chunks)
    /\ Log(events) /\ HasEnd(events) /\ History(events, chunks)
    /\ chunks[i].time <= MaxTime

LEMMA RestoredInv ==
    ASSUME NEW events, NEW chunks, NEW i, Restorable(events, chunks, i),
           NEW r, r = Restored(chunks[i], events, chunks)
    PROVE  /\ r \in BoardType /\ BoardInv(r) /\ Past(r)
           /\ r.collecting /\ ~r.pendingTakeSnapshot /\ Len(r.snapSync) = 1
           /\ r.now = chunks[i].time /\ r.insEnd = chunks[i].time /\ r.chunks = chunks
           /\ r.replayIndex < Len(r.events)
  <1>1. /\ events \in Seq(Entry) /\ chunks \in Snapshots /\ i \in Present(chunks)
        /\ Log(events) /\ HasEnd(events) /\ History(events, chunks) /\ chunks[i].time <= MaxTime
    BY DEF Restorable
  <1>2. PICK t \in Nat, c \in Nat, rec \in Seq(Nat), len \in Nat :
           t = chunks[i].time /\ c = chunks[i].eventCount /\ rec = chunks[i].received /\ len = Len(events)
    <2>1. chunks[i].time \in Nat /\ chunks[i].eventCount \in Nat /\ chunks[i].received \in Seq(Nat)
      BY <1>1, PresentIs
    <2>2. Len(events) \in Nat
      BY <1>1
    <2>. QED  BY <2>1, <2>2
  <1>3. /\ c < len /\ \A j \in 1..len : IF j <= c THEN events[j].time <= t ELSE events[j].time >= t
        /\ chunks[0].time <= t /\ (Exact => rec = After(chunks[0].received, events, c))
    BY <1>1, <1>2 DEF History, Fits
  <1>4. PICK next \in Nat, due \in Nat :
           next = events[c + 1].time /\ due = t + Period /\ t <= next
    <2>1. c + 1 \in 1..len /\ ~(c + 1 <= c)
      BY <1>3
    <2>2. events[c + 1].time \in Nat /\ t <= events[c + 1].time
      BY <1>1, <1>2, <1>3, <2>1, EntryIs
    <2>3. t + Period \in Nat
      BY BoundsAssumption
    <2>. QED  BY <2>2, <2>3
  <1>5. PICK snaps \in Seq(Nat), nexts \in Seq(Nat) :
           /\ snaps = <<due>> /\ nexts = <<next>> /\ Len(snaps) = 1 /\ snaps[1] = due
    <2>1. /\ <<due>> \in Seq(Nat) /\ <<next>> \in Seq(Nat) /\ Len(<<due>>) = 1 /\ <<due>>[1] = due
      OBVIOUS
    <2>. QED  BY <2>1
  <1>6. r = [now |-> t, insEnd |-> t, received |-> rec, collecting |-> TRUE,
             pendingTakeSnapshot |-> FALSE, events |-> events, replayIndex |-> c,
             chunks |-> chunks, snapSync |-> snaps, inputSync |-> nexts, held |-> 0]
    <2>1. PICK s : s = [now |-> t, insEnd |-> t, received |-> rec, collecting |-> TRUE,
             pendingTakeSnapshot |-> FALSE, events |-> events, replayIndex |-> c,
             chunks |-> chunks, snapSync |-> <<>>, inputSync |-> <<>>, held |-> 0]
      OBVIOUS
    <2>2. PICK u : u = [now |-> t, insEnd |-> t, received |-> rec, collecting |-> TRUE,
             pendingTakeSnapshot |-> FALSE, events |-> events, replayIndex |-> c,
             chunks |-> chunks, snapSync |-> snaps, inputSync |-> <<>>, held |-> 0]
      OBVIOUS
    <2>3. Append(<<>>, due) = <<due>> /\ Append(<<>>, next) = <<next>>
      OBVIOUS
    <2>4. Schedule(s) = u
      <3>1. s.snapSync = <<>> /\ s.now + Period = due
        BY <1>4, <2>1
      <3>2. Append(s.snapSync, s.now + Period) = snaps
        BY <1>5, <2>3, <3>1
      <3>3. Schedule(s) = [s EXCEPT !.snapSync = snaps]
        BY <3>2, Zenon DEF Schedule
      <3>. QED  BY <2>1, <2>2, <3>3
    <2>5. r = ReplayNextEvent(u)
      BY <1>2, <2>1, <2>4 DEF Restored
    <2>6. u.replayIndex = c /\ u.events = events /\ u.inputSync = <<>> /\ ~(c >= len)
      BY <1>3, <2>2
    <2>7. r = [u EXCEPT !.inputSync = nexts]
      BY <1>2, <1>4, <1>5, <2>3, <2>5, <2>6 DEF ReplayNextEvent
    <2>. QED  BY <2>2, <2>7
  <1>7. r \in BoardType
    BY <1>1, <1>6 DEF BoardType
  <1>8. /\ r.now = t /\ r.insEnd = t /\ r.received = rec /\ r.collecting /\ ~r.pendingTakeSnapshot
        /\ r.events = events /\ r.replayIndex = c /\ r.chunks = chunks /\ r.snapSync = snaps
        /\ r.inputSync = <<events[c + 1].time>>
    BY <1>4, <1>5, <1>6
  <1>9. Replaying(r)
    BY <1>2, <1>3, <1>8 DEF Replaying
  <1>10. Planned(r)
    BY <1>1, <1>4, <1>8, <1>9 DEF Planned
  <1>11. Recording(r)
    <2>1. \A j \in 1..Len(snaps) : snaps[j] >= chunks[0].time + Period
      <3>1. PICK first \in Nat : first = chunks[0].time /\ first <= t
        BY <1>1, <1>3, PresentIs DEF History
      <3>2. due >= first + Period
        BY <1>4, <3>1, Bounds
      <3>3. \A j \in 1..Len(snaps) : j = 1
        BY <1>5
      <3>. QED  BY <1>5, <3>1, <3>2, <3>3
    <2>. QED  BY <1>1, <1>3, <1>8, <1>9, <2>1 DEF Recording
  <1>12. BoardInv(r)
    <2>1. t <= MaxTime + MaxStep
      BY <1>1, <1>2, BoundsAssumption
    <2>2. \A j \in 1..c : events[j].time <= t
      BY <1>3
    <2>. QED  BY <1>1, <1>2, <1>3, <1>8, <1>10, <1>11, <2>1, <2>2 DEF BoardInv
  <1>13. Past(r)
    BY <1>1, <1>2, <1>8, SnapshotOrder DEF Past
  <1>. QED  BY <1>2, <1>3, <1>5, <1>7, <1>8, <1>12, <1>13

---------------------------------------------------------------------------
\* Snapshots.

\* Two boards that differ in what is planned only.
Alike(b, r) ==
    /\ r.events = b.events /\ r.chunks = b.chunks /\ r.replayIndex = b.replayIndex
    /\ r.inputSync = b.inputSync /\ r.received = b.received
    /\ r.now = b.now /\ r.insEnd = b.insEnd /\ r.collecting = b.collecting

\* The snapshots planned leave the first one alone.
PlannedLater(b, r) ==
    /\ \A i \in 1..Len(r.snapSync) : r.snapSync[i] >= b.chunks[0].time + Period
    /\ r.pendingTakeSnapshot => b.now >= b.chunks[0].time + Period

LEMMA AlikeInv ==
    ASSUME NEW b, NEW r, BoardInv(b), Alike(b, r), b.collecting => PlannedLater(b, r)
    PROVE  BoardInv(r) /\ (Past(b) => Past(r))
  <1>1. BoardInv(r)
    <2>1. Replaying(r) <=> Replaying(b)
      BY DEF Alike, Replaying
    <2>2. Planned(r)
      BY <2>1 DEF BoardInv, Planned, Alike
    <2>3. b.collecting => Recording(r)
      BY <2>1 DEF BoardInv, Recording, Alike, PlannedLater
    <2>. QED  BY <2>2, <2>3 DEF BoardInv, Alike
  <1>. QED  BY <1>1 DEF Alike, Past

LEMMA ScheduleInv ==
    ASSUME NEW b \in BoardType, BoardInv(b), b.collecting, NEW r, r = Schedule(b)
    PROVE  /\ r \in BoardType /\ BoardInv(r) /\ Alike(b, r)
           /\ r.pendingTakeSnapshot = b.pendingTakeSnapshot
           /\ Len(r.snapSync) = Len(b.snapSync) + 1
  <1>1. PICK len \in Nat, t \in Nat, first \in Nat, due \in Nat :
           len = Len(b.snapSync) /\ t = b.now /\ first = b.chunks[0].time /\ due = t + Period
    <2>1. b.now + Period \in Nat /\ Len(b.snapSync) \in Nat /\ b.now \in Nat
      BY BoardIs, BoundsAssumption
    <2>2. b.chunks[0].time \in Nat
      BY BoardIs, PresentIs DEF BoardInv, Recording, History
    <2>. QED  BY <2>1, <2>2
  <1>2. PICK snaps \in Seq(Nat) :
           /\ snaps = Append(b.snapSync, due) /\ Len(snaps) = len + 1
           /\ \A i \in 1..len : snaps[i] = b.snapSync[i]
           /\ snaps[len + 1] = due
    <2>1. b.snapSync \in Seq(Nat)
      BY BoardIs
    <2>2. /\ Append(b.snapSync, due) \in Seq(Nat) /\ Len(Append(b.snapSync, due)) = len + 1
          /\ \A i \in 1..len : Append(b.snapSync, due)[i] = b.snapSync[i]
          /\ Append(b.snapSync, due)[len + 1] = due
      BY <1>1, <2>1
    <2>. QED  BY <2>2
  <1>3. r = [b EXCEPT !.snapSync = snaps]
    BY <1>1, <1>2 DEF Schedule
  <1>4. r \in BoardType
    BY <1>3 DEF BoardType
  <1>5. Alike(b, r) /\ r.snapSync = snaps /\ r.pendingTakeSnapshot = b.pendingTakeSnapshot
    BY <1>3 DEF BoardType, Alike
  <1>6. PlannedLater(b, r)
    <2>1. /\ \A i \in 1..len : b.snapSync[i] >= first + Period
          /\ b.pendingTakeSnapshot => b.now >= first + Period
          /\ first <= t
      BY <1>1 DEF BoardInv, Recording
    <2>2. due >= first + Period
      BY <1>1, <2>1, Bounds
    <2>3. \A i \in 1..Len(snaps) : snaps[i] >= first + Period
      <3>1. \A i \in 1..(len + 1) : i \in 1..len \/ i = len + 1
        OBVIOUS
      <3>. QED  BY <1>2, <2>1, <2>2, <3>1
    <2>. QED  BY <1>1, <1>5, <2>1, <2>3 DEF PlannedLater
  <1>7. BoardInv(r)
    BY <1>5, <1>6, AlikeInv
  <1>. QED  BY <1>1, <1>2, <1>4, <1>5, <1>7

\* The events still to be replayed are not in the past.
LEMMA NextAhead ==
    ASSUME NEW b \in BoardType, BoardInv(b), NEW j \in 1..Len(b.events), j > b.replayIndex
    PROVE  b.events[j].time >= b.now
  <1>1. PICK ev \in Seq(Entry), t \in Nat, n \in Nat, len \in Nat, next \in Nat :
           /\ ev = b.events /\ t = b.now /\ n = b.replayIndex
           /\ len = Len(ev) /\ next = n + 1
    <2>1. b.replayIndex + 1 \in Nat
      BY BoardIs
    <2>. QED  BY <2>1, BoardIs
  <1>2. j \in 1..len /\ j > n
    BY <1>1
  <1>3. next \in 1..len /\ next <= j /\ n # len
    BY <1>1, <1>2
  <1>4. t <= ev[next].time /\ Log(ev)
    BY <1>1, <1>3 DEF BoardInv, Planned, Replaying
  <1>5. ev[next].time <= ev[j].time
    BY <1>1, <1>2, <1>3, <1>4 DEF Log
  <1>6. ev[next].time \in Nat /\ ev[j].time \in Nat
    BY <1>1, <1>2, <1>3, EntryIs
  <1>. QED  BY <1>1, <1>4, <1>5, <1>6

\* A snapshot made now divides the log.
LEMMA NowFits ==
    ASSUME NEW b \in BoardType, BoardInv(b), NEW c,
           c = [time |-> b.now, eventCount |-> b.replayIndex, received |-> b.received]
    PROVE  Fits(c, b.events) /\ c \in Snapshot
  <1>1. c.time = b.now /\ c.eventCount = b.replayIndex
    OBVIOUS
  <1>2. c \in Snapshot
    BY BoardIs DEF Snapshot
  <1>3. HasEnd(b.events) => b.replayIndex < Len(b.events)
    BY BoardIs DEF BoardInv, Planned, Replaying
  <1>4. ASSUME NEW j \in 1..Len(b.events)
        PROVE  IF j <= c.eventCount THEN b.events[j].time <= c.time ELSE b.events[j].time >= c.time
    <2>1. CASE j <= b.replayIndex
      <3>1. j \in 1..b.replayIndex
        BY <2>1, BoardIs
      <3>. QED  BY <1>1, <2>1, <3>1 DEF BoardInv
    <2>2. CASE ~(j <= b.replayIndex)
      <3>1. j > b.replayIndex
        BY <2>2, BoardIs
      <3>. QED  BY <1>1, <2>2, <3>1, NextAhead
    <2>. QED  BY <2>1, <2>2
  <1>. QED  BY <1>1, <1>2, <1>3, <1>4 DEF Fits, BoardInv

Added(chunks, n, c, after) ==
    /\ chunks \in Snapshots /\ n \in SeqNums /\ c \in Snapshot
    /\ after = [chunks EXCEPT ![n] = c]

LEMMA AddPresent ==
    ASSUME NEW chunks, NEW n, NEW c, NEW after, Added(chunks, n, c, after)
    PROVE  /\ after \in Snapshots /\ after[n] = c
           /\ \A i \in SeqNums : i # n => after[i] = chunks[i]
           /\ Present(after) = Present(chunks) \cup {n}
  <1>1. c # NoChunk
    BY DEF Added, Snapshot, NoChunk
  <1>2. after \in Snapshots /\ after[n] = c /\ \A i \in SeqNums : i # n => after[i] = chunks[i]
    BY DEF Added, Snapshots
  <1>. QED  BY <1>1, <1>2 DEF Added, Present

LEMMA TakenInv ==
    ASSUME NEW b \in BoardType, BoardInv(b), Past(b), b.collecting,
           b.now >= b.chunks[0].time + Period, NEW r, r = TakeSnapshot(b)
    PROVE  /\ r \in BoardType /\ BoardInv(r) /\ Past(r) /\ Same(b, r)
           /\ \A i \in Present(b.chunks) : i = 0 => i \in Present(r.chunks)
  <1>1. PICK ev \in Seq(Entry), chunks \in Snapshots, t \in Nat, first \in Nat, index \in Nat :
           /\ ev = b.events /\ chunks = b.chunks /\ t = b.now /\ first = chunks[0].time
           /\ index = b.replayIndex
    <2>1. b.chunks[0].time \in Nat
      BY BoardIs, PresentIs DEF BoardInv, Recording, History
    <2>. QED  BY <2>1, BoardIs
  <1>2. /\ History(ev, chunks) /\ t <= MaxTime + MaxStep /\ t >= first + Period /\ 0 \in Present(chunks)
        /\ Exact => b.received = After(chunks[0].received, ev, index)
    <2>1. b.insEnd \in Nat
      BY BoardIs
    <2>2. t <= b.insEnd /\ b.insEnd <= MaxTime + MaxStep
      BY <1>1 DEF BoardInv
    <2>3. t <= MaxTime + MaxStep
      BY <2>1, <2>2, Bounds
    <2>. QED  BY <1>1, <2>3 DEF BoardInv, Recording, History
  <1>3. PICK x \in Nat : x = t - first /\ x >= Period /\ x <= MaxTime + MaxStep
    BY <1>2, Bounds
  <1>4. PICK n \in SeqNums : n = RoundHalfEven(x, Period) /\ n > 0 /\ n \in Nat
    <2>1. RoundHalfEven(x, Period) \in SeqNums
      BY <1>3, SeqNumsNat
    <2>2. RoundHalfEven(x, Period) \in Nat /\ RoundHalfEven(x, Period) > 0
      BY <1>3, BoundsAssumption, RoundBounds
    <2>. QED  BY <2>1, <2>2
  <1>5. SeqNum(chunks, t) = n
    <2>1. chunks # NoChunks
      BY <1>2 DEF Present, NoChunks
    <2>2. First(chunks) = 0
      BY <1>2, FirstIsZero
    <2>. QED  BY <1>1, <1>3, <1>4, <2>1, <2>2 DEF SeqNum
  <1>6. PICK kept \in Snapshots :
           /\ kept = Only(chunks, SeqNums \ Dropped(KeepN, n))
           /\ Present(kept) \subseteq Present(chunks) /\ 0 \in Present(kept)
           /\ \A i \in Present(kept) : kept[i] = chunks[i]
    <2>1. PICK S : S = SeqNums \ Dropped(KeepN, n)
      OBVIOUS
    <2>2. 0 \in S
      BY <1>4, <2>1, Bounds, SeqNumsNat, OldestNeverDropped
    <2>3. /\ Only(chunks, S) \in Snapshots
          /\ Present(Only(chunks, S)) = Present(chunks) \cap S
          /\ \A i \in Present(chunks) \cap S : Only(chunks, S)[i] = chunks[i]
      BY OnlyPresent
    <2>. QED  BY <1>2, <2>1, <2>2, <2>3
  <1>7. PICK c : c = [time |-> b.now, eventCount |-> b.replayIndex, received |-> b.received]
    OBVIOUS
  <1>8. c \in Snapshot /\ Fits(c, ev) /\ c.time = t /\ c.eventCount = index /\ c.received = b.received
    BY <1>1, <1>7, NowFits
  <1>9. PICK after : after = [kept EXCEPT ![n] = c]
    OBVIOUS
  <1>10. /\ after \in Snapshots /\ after[n] = c
         /\ \A i \in SeqNums : i # n => after[i] = kept[i]
         /\ Present(after) = Present(kept) \cup {n}
    <2>1. Added(kept, n, c, after)
      BY <1>8, <1>9 DEF Added
    <2>. QED  BY <2>1, AddPresent
  <1>11. \A i \in Present(after) : i # n => i \in Present(chunks) /\ after[i] = chunks[i]
    <2>1. Present(kept) \subseteq SeqNums
      BY DEF Present
    <2>. QED  BY <1>6, <1>10, <2>1
  <1>12. after[0] = chunks[0] /\ 0 \in Present(after)
    <2>1. 0 \in Present(after) /\ 0 # n
      BY <1>4, <1>6, <1>10
    <2>. QED  BY <1>11, <2>1
  <1>13. History(ev, after)
    <2>1. ASSUME NEW i \in Present(after)
          PROVE  /\ after[0].time <= after[i].time
                 /\ i = RoundHalfEven(after[i].time - after[0].time, Period)
                 /\ Fits(after[i], ev)
                 /\ Exact => after[i].received = After(after[0].received, ev, after[i].eventCount)
      <3>1. CASE i = n
        <4>1. after[i] = c
          BY <1>10, <3>1
        <4>2. first <= t
          BY <1>2, Bounds
        <4>. QED  BY <1>1, <1>2, <1>3, <1>4, <1>8, <1>12, <3>1, <4>1, <4>2
      <3>2. CASE i # n
        BY <1>2, <1>11, <1>12, <3>2 DEF History
      <3>. QED  BY <3>1, <3>2
    <2>. QED  BY <1>2, <1>12, <2>1 DEF History
  <1>14. r = [b EXCEPT !.chunks = after]
    BY <1>1, <1>5, <1>6, <1>7, <1>9 DEF TakeSnapshot
  <1>15. r \in BoardType
    BY <1>10, <1>14 DEF BoardType
  <1>16. /\ r.chunks = after /\ r.events = b.events /\ r.inputSync = b.inputSync
         /\ r.now = b.now /\ r.insEnd = b.insEnd /\ r.collecting = b.collecting
         /\ r.pendingTakeSnapshot = b.pendingTakeSnapshot /\ r.replayIndex = b.replayIndex
         /\ r.received = b.received /\ r.snapSync = b.snapSync
    BY <1>14 DEF BoardType
  <1>17. Replaying(r) <=> Replaying(b)
    BY <1>16 DEF Replaying
  <1>18. Recording(r)
    <2>1. ASSUME ~Replaying(b), NEW i \in Present(after) PROVE after[i].time <= t
      <3>1. CASE i = n
        BY <1>8, <1>10, <3>1
      <3>2. CASE i # n
        BY <1>1, <1>11, <2>1, <3>2 DEF BoardInv, Recording
      <3>. QED  BY <3>1, <3>2
    <2>2. Recording(b)
      BY DEF BoardInv
    <2>. QED  BY <1>1, <1>2, <1>12, <1>13, <1>16, <1>17, <2>1, <2>2 DEF Recording
  <1>19. BoardInv(r)
    <2>1. Planned(r)
      BY <1>16, <1>17 DEF BoardInv, Planned
    <2>. QED  BY <1>16, <1>18, <2>1 DEF BoardInv
  <1>20. Past(r)
    <2>1. ASSUME NEW i \in Present(after), after[i].time <= t PROVE after[i].eventCount <= index
      <3>1. CASE i = n
        BY <1>8, <1>10, <3>1
      <3>2. CASE i # n
        BY <1>1, <1>11, <2>1, <3>2 DEF Past
      <3>. QED  BY <3>1, <3>2
    <2>. QED  BY <1>1, <1>16, <2>1 DEF Past
  <1>21. Same(b, r)
    BY <1>1, <1>12, <1>16 DEF Same
  <1>. QED  BY <1>12, <1>15, <1>16, <1>19, <1>20, <1>21

\* start(): the first snapshot.
LEMMA StartedInv ==
    ASSUME NEW b \in BoardType, BoardInv(b), ~b.collecting, b.now <= MaxTime, b.snapSync = <<>>,
           NEW s, s = TakeSnapshot([b EXCEPT !.collecting = TRUE])
    PROVE  /\ s \in BoardType /\ s.collecting
           /\ s.now = b.now /\ s.insEnd = b.insEnd /\ s.snapSync = b.snapSync
           /\ s.pendingTakeSnapshot = b.pendingTakeSnapshot
           /\ ~b.pendingTakeSnapshot => BoardInv(s) /\ Past(s)
  <1>1. /\ b.events = <<>> /\ b.chunks = NoChunks /\ b.replayIndex = 0 /\ b.inputSync = <<>>
        /\ b.now <= b.insEnd /\ b.insEnd <= MaxTime + MaxStep
    <2>1. Len(b.events) = 0
      BY DEF BoardInv
    <2>. QED  BY <2>1 DEF BoardInv, Planned, Replaying
  <1>2. PICK c : c = [time |-> b.now, eventCount |-> 0, received |-> b.received]
    OBVIOUS
  <1>3. c \in Snapshot /\ c.time = b.now /\ c.eventCount = 0 /\ c.received = b.received
    BY <1>2, BoardIs DEF Snapshot
  <1>4. PICK after : after = [NoChunks EXCEPT ![0] = c]
    OBVIOUS
  <1>5. after \in Snapshots /\ Present(after) = {0} /\ after[0] = c
    <2>1. NoChunks \in Snapshots /\ Present(NoChunks) = {}
      BY DEF NoChunks, Snapshots, Present
    <2>2. Added(NoChunks, 0, c, after)
      BY <1>3, <1>4, <2>1, SeqNumsNat DEF Added
    <2>. QED  BY <2>1, <2>2, AddPresent
  <1>6. s = [b EXCEPT !.collecting = TRUE, !.chunks = after]
    <2>1. PICK u : u = [b EXCEPT !.collecting = TRUE]
      OBVIOUS
    <2>2. u.chunks = NoChunks /\ u.now = b.now /\ u.replayIndex = 0 /\ u.received = b.received
      BY <1>1, <2>1 DEF BoardType
    <2>3. SeqNum(u.chunks, u.now) = 0
      BY <2>2 DEF SeqNum
    <2>4. Only(NoChunks, SeqNums \ Dropped(KeepN, 0)) = NoChunks
      BY DEF Only, NoChunks
    <2>5. s = TakeSnapshot(u)
      BY <2>1
    <2>6. s = [u EXCEPT !.chunks = after]
      BY <1>2, <1>4, <2>2, <2>3, <2>4, <2>5 DEF TakeSnapshot
    <2>. QED  BY <2>1, <2>6 DEF BoardType
  <1>7. s \in BoardType
    BY <1>5, <1>6 DEF BoardType
  <1>8. /\ s.chunks = after /\ s.events = <<>> /\ s.inputSync = <<>>
        /\ s.now = b.now /\ s.insEnd = b.insEnd /\ s.collecting
        /\ s.pendingTakeSnapshot = b.pendingTakeSnapshot /\ s.replayIndex = 0
        /\ s.received = b.received /\ s.snapSync = <<>>
    BY <1>1, <1>6 DEF BoardType
  <1>9. Len(s.events) = 0 /\ ~Replaying(s) /\ ~HasEnd(s.events)
    BY <1>8 DEF Replaying, HasEnd
  <1>10. After(b.received, <<>>, 0) = b.received
    <2>1. b.received \in Seq(Nat)
      BY BoardIs
    <2>2. InputsOf(<<>>, 0) = <<>>
      BY DEF InputsOf
    <2>. QED  BY <2>1, <2>2 DEF After
  <1>11. History(s.events, after)
    <2>1. RoundHalfEven(c.time - c.time, Period) = 0
      <3>1. c.time - c.time = 0
        BY <1>3, BoardIs
      <3>. QED  BY <3>1, BoundsAssumption, RoundBounds
    <2>2. Fits(c, s.events)
      <3>1. \A j \in 1..Len(s.events) : FALSE
        BY <1>9
      <3>2. c.eventCount <= Len(s.events)
        BY <1>3, <1>9
      <3>. QED  BY <1>9, <3>1, <3>2 DEF Fits
    <2>3. c.time <= MaxTime /\ c.time <= c.time
      BY <1>3, BoardIs
    <2>. QED  BY <1>3, <1>5, <1>8, <1>10, <2>1, <2>2, <2>3 DEF History
  <1>12. ASSUME ~b.pendingTakeSnapshot PROVE BoardInv(s) /\ Past(s)
    <2>1. Recording(s)
      <3>1. \A i \in 1..Len(s.snapSync) : FALSE
        BY <1>8
      <3>2. /\ s.received = After(after[0].received, s.events, s.replayIndex)
            /\ after[0].time <= s.now /\ \A i \in Present(after) : after[i].time <= s.now
        BY <1>3, <1>5, <1>8, <1>10, BoardIs
      <3>. QED  BY <1>8, <1>11, <1>12, <3>1, <3>2 DEF Recording
    <2>2. Log(s.events)
      BY <1>9 DEF Log
    <2>3. BoardInv(s)
      <3>1. \A i \in 1..s.replayIndex : FALSE
        BY <1>8
      <3>. QED  BY <1>1, <1>8, <1>9, <2>1, <2>2, <3>1 DEF BoardInv, Planned
    <2>4. Past(s)
      BY <1>3, <1>5, <1>8 DEF Past
    <2>. QED  BY <2>3, <2>4
  <1>. QED  BY <1>1, <1>7, <1>8, <1>12

---------------------------------------------------------------------------
\* The invariant holds at first.

LEMMA NothingInv ==
    ASSUME NEW b \in BoardType, b.events = <<>>, b.replayIndex = 0, b.chunks = NoChunks,
           b.inputSync = <<>>, ~b.collecting, b.now <= b.insEnd, b.insEnd <= MaxTime + MaxStep
    PROVE  BoardInv(b) /\ Past(b)
  <1>1. Len(b.events) = 0 /\ ~HasEnd(b.events)
    BY DEF HasEnd
  <1>2. Present(NoChunks) = {}
    BY DEF Present, NoChunks
  <1>3. Log(b.events)
    BY <1>1 DEF Log
  <1>4. Planned(b)
    BY <1>1 DEF Planned, Replaying
  <1>. QED  BY <1>1, <1>2, <1>3, <1>4 DEF BoardInv, Past

LEMMA InitInv == Init => RevInv
  <1>. SUFFICES ASSUME Init PROVE RevInv
    OBVIOUS
  <1>1. NoChunks \in Snapshots
    BY DEF NoChunks, Snapshots
  <1>2. PICK none \in Seq(Nat) : none = <<>>
    <2>1. <<>> \in Seq(Nat)
      OBVIOUS
    <2>. QED  BY <2>1, Zenon
  <1>3. PICK noEntry \in Seq(Entry) : noEntry = <<>>
    <2>1. <<>> \in Seq(Entry)
      OBVIOUS
    <2>. QED  BY <2>1, Zenon
  <1>4. board = [now |-> 0, insEnd |-> 0, received |-> none, collecting |-> FALSE,
                 pendingTakeSnapshot |-> FALSE, events |-> noEntry, replayIndex |-> 0,
                 chunks |-> NoChunks, snapSync |-> none, inputSync |-> none, held |-> 0]
    BY <1>2, <1>3 DEF Init
  <1>5. board \in BoardType
    BY <1>1, <1>4 DEF BoardType
  <1>6. /\ board.now = 0 /\ board.insEnd = 0 /\ ~board.collecting /\ ~board.pendingTakeSnapshot
        /\ board.events = <<>> /\ board.replayIndex = 0 /\ board.chunks = NoChunks
        /\ board.snapSync = <<>> /\ board.inputSync = <<>>
    BY <1>2, <1>3, <1>4
  <1>7. BoardInv(board) /\ Past(board)
    <2>1. 0 <= MaxTime + MaxStep
      BY Bounds
    <2>. QED  BY <1>5, <1>6, <2>1, NothingInv
  <1>8. RevTypes
    <2>1. file \in [events : Seq(Entry), chunks : Snapshots]
      BY <1>1, <1>3 DEF Init, NoFile
    <2>2. trip \in [target : 0..MaxTime, preTarget : Int, last : Int, goal : Int, reused : BOOLEAN]
      BY Bounds DEF Init, NoTrip
    <2>. QED  BY <1>5, <2>1, <2>2 DEF Init, RevTypes
  <1>9. FileInv /\ TripInv
    BY <1>6, <1>7 DEF Init, FileInv, TripInv
  <1>10. OneSnapshotPlanned
    BY <1>6 DEF OneSnapshotPlanned
  <1>. QED  BY <1>7, <1>8, <1>9, <1>10 DEF RevInv

---------------------------------------------------------------------------
\* Time passes.

LEMMA SyncsAreNats ==
    ASSUME NEW b \in BoardType
    PROVE  /\ \A i \in DOMAIN b.snapSync : b.snapSync[i] \in Nat
           /\ \A i \in DOMAIN b.inputSync : b.inputSync[i] \in Nat
  <1>1. b.snapSync \in Seq(Nat) /\ b.inputSync \in Seq(Nat)
    BY BoardIs
  <1>. QED  BY <1>1

\* The next event of a replay is a sync point.
LEMMA NextIsSync ==
    ASSUME board \in BoardType, BoardInv(board), Replaying(board)
    PROVE  board.events[board.replayIndex + 1].time \in NextSync
  <1>1. PICK x : x = board.events[board.replayIndex + 1].time /\ board.inputSync = <<x>>
    BY DEF BoardInv, Planned
  <1>2. 1 \in DOMAIN board.inputSync /\ board.inputSync[1] = x
    BY <1>1
  <1>. QED  BY <1>1, <1>2 DEF NextSync

\* Where no sync point is due, no snapshot is ahead in the log.
LEMMA RestPast ==
    ASSUME board \in BoardType, BoardInv(board), NoneDue
    PROVE  Past(board)
  <1>1. CASE ~board.collecting
    <2>1. Present(NoChunks) = {}
      BY DEF Present, NoChunks
    <2>. QED  BY <1>1, <2>1 DEF BoardInv, Past
  <1>2. CASE board.collecting /\ ~Replaying(board)
    BY <1>2, LivePast DEF Live
  <1>3. CASE board.collecting /\ Replaying(board)
    <2>1. board.events[board.replayIndex + 1].time > board.now
      BY <1>3, NextIsSync DEF NoneDue
    <2>. QED  BY <1>3, <2>1, NextLater
  <1>. QED  BY <1>1, <1>2, <1>3

LEMMA AdvanceInv ==
    ASSUME board \in BoardType, BoardInv(board), NoneDue,
           NEW end \in Nat, end >= board.now, end <= MaxTime + MaxStep, Advance(end)
    PROVE  /\ board' \in BoardType /\ BoardInv(board')
           /\ board'.insEnd = end /\ board'.now >= board.now /\ board'.now <= end
           /\ board'.collecting = board.collecting /\ board'.chunks = board.chunks
           /\ board'.snapSync = board.snapSync
           /\ board'.pendingTakeSnapshot = board.pendingTakeSnapshot
  <1>1. PICK now \in Nat : now = board.now
    BY BoardIs
  <1>2. PICK S : S = {end} \cup {t \in NextSync : t < end}
    OBVIOUS
  <1>3. S \subseteq Nat /\ end \in S /\ \A t \in S : t >= now
    <2>1. NextSync \subseteq Nat
      BY SyncsAreNats DEF NextSync
    <2>2. \A t \in NextSync : t > now
      BY <1>1 DEF NoneDue
    <2>3. end >= now
      BY <1>1
    <2>4. ASSUME NEW t \in S PROVE t \in Nat /\ t >= now
      <3>1. CASE t = end
        BY <2>3, <3>1
      <3>2. CASE t \in NextSync
        <4>1. t \in Nat /\ t > now
          BY <2>1, <2>2, <3>2
        <4>. QED  BY <4>1
      <3>. QED  BY <1>2, <3>1, <3>2
    <2>. QED  BY <1>2, <2>4
  <1>4. PICK stop \in Nat : stop = Min(S) /\ stop \in S /\ \A t \in S : stop <= t
    BY <1>3, MinOfNats
  <1>5. PICK t \in Nat : /\ t >= now /\ t <= stop
                         /\ board' = [board EXCEPT !.insEnd = end, !.now = t]
    <2>1. PICK t \in {stop} \cup (IF board.held > 0 THEN (board.now + 1)..stop ELSE {}) :
             board' = [board EXCEPT !.insEnd = end, !.now = t]
      BY <1>2, <1>4 DEF Advance
    <2>2. t \in Nat /\ t >= now /\ t <= stop
      <3>1. stop >= now
        BY <1>3, <1>4
      <3>2. CASE t = stop
        BY <3>1, <3>2
      <3>3. CASE t # stop
        <4>1. t \in (now + 1)..stop
          BY <1>1, <2>1, <3>3
        <4>. QED  BY <4>1
      <3>. QED  BY <3>2, <3>3
    <2>. QED  BY <2>1, <2>2
  <1>6. board' \in BoardType
    BY <1>5 DEF BoardType
  <1>7. /\ board'.insEnd = end /\ board'.now = t
        /\ board'.events = board.events /\ board'.chunks = board.chunks
        /\ board'.replayIndex = board.replayIndex /\ board'.inputSync = board.inputSync
        /\ board'.received = board.received /\ board'.collecting = board.collecting
        /\ board'.snapSync = board.snapSync
        /\ board'.pendingTakeSnapshot = board.pendingTakeSnapshot
    BY <1>5 DEF BoardType
  <1>8. t <= end
    BY <1>3, <1>4, <1>5
  <1>9. Replaying(board') <=> Replaying(board)
    BY <1>7 DEF Replaying
  <1>10. Planned(board')
    <2>1. CASE Replaying(board)
      <3>1. PICK next \in Nat : /\ next = board.events[board.replayIndex + 1].time
                               /\ next \in NextSync
        <4>1. NextSync \subseteq Nat
          BY SyncsAreNats DEF NextSync
        <4>. QED  BY <2>1, <4>1, NextIsSync
      <3>2. t <= next
        <4>1. CASE next < end
          <5>1. stop <= next
            BY <1>2, <1>4, <3>1, <4>1
          <5>. QED  BY <1>5, <5>1
        <4>2. CASE ~(next < end)
          BY <1>8, <4>2
        <4>. QED  BY <4>1, <4>2
      <3>. QED  BY <1>7, <1>9, <2>1, <3>1, <3>2 DEF BoardInv, Planned
    <2>2. CASE ~Replaying(board)
      BY <1>7, <1>9, <2>2 DEF BoardInv, Planned
    <2>. QED  BY <2>1, <2>2
  <1>11. \A i \in 1..board.replayIndex : board.events[i].time <= t
    <2>1. ASSUME NEW i \in 1..board.replayIndex PROVE board.events[i].time <= t
      <3>1. i \in 1..Len(board.events) /\ board.events \in Seq(Entry)
        BY BoardIs DEF BoardInv
      <3>2. board.events[i].time \in Nat
        BY <3>1, EntryIs
      <3>3. board.events[i].time <= now
        BY <1>1 DEF BoardInv
      <3>. QED  BY <1>5, <3>2, <3>3
    <2>. QED  BY <2>1
  <1>12. board.collecting => Recording(board')
    <2>1. SUFFICES ASSUME board.collecting PROVE Recording(board')
      OBVIOUS
    <2>2. PICK chunks \in Snapshots : chunks = board.chunks
      BY BoardIs
    <2>3. PICK first \in Nat : first = chunks[0].time
      BY <2>1, <2>2, PresentIs DEF BoardInv, Recording, History
    <2>4. first <= t
      BY <1>1, <1>5, <2>1, <2>2, <2>3 DEF BoardInv, Recording
    <2>5. ASSUME ~Replaying(board), NEW i \in Present(chunks) PROVE chunks[i].time <= t
      <3>1. chunks[i].time \in Nat
        BY PresentIs
      <3>2. chunks[i].time <= now
        BY <1>1, <2>1, <2>2, <2>5 DEF BoardInv, Recording
      <3>. QED  BY <1>5, <3>1, <3>2
    <2>6. board.pendingTakeSnapshot => t >= first + Period
      <3>1. board.pendingTakeSnapshot => now >= first + Period
        BY <1>1, <2>1, <2>2, <2>3 DEF BoardInv, Recording
      <3>. QED  BY <1>5, <3>1, Bounds
    <2>7. Recording(board)
      BY <2>1 DEF BoardInv
    <2>. QED  BY <1>7, <1>9, <2>2, <2>3, <2>4, <2>5, <2>6, <2>7 DEF Recording
  <1>13. BoardInv(board')
    BY <1>7, <1>8, <1>10, <1>11, <1>12 DEF BoardInv
  <1>. QED  BY <1>1, <1>5, <1>6, <1>7, <1>8, <1>13

LEMMA TimePasses ==
    ASSUME RevInv, Running, NoneDue, NEW end \in Nat, end >= board.now, end <= MaxTime + MaxStep,
           pc \in {"ff", "show"} => end < trip.target + MaxStep,
           Advance(end), UNCHANGED <<viewOnly, takeQueued, file, trip, nextInput, pc>>
    PROVE  RevInv'
  <1>1. board \in BoardType /\ BoardInv(board)
    BY DEF RevInv, RevTypes
  <1>2. /\ board' \in BoardType /\ BoardInv(board')
        /\ board'.insEnd = end /\ board'.now >= board.now /\ board'.now <= end
        /\ board'.collecting = board.collecting /\ board'.chunks = board.chunks
        /\ board'.snapSync = board.snapSync
        /\ board'.pendingTakeSnapshot = board.pendingTakeSnapshot
    BY <1>1, AdvanceInv
  <1>3. RevTypes' /\ FileInv'
    BY <1>2 DEF RevInv, RevTypes, FileInv
  <1>4. TripInv'
    BY <1>2 DEF RevInv, TripInv, Running
  <1>5. OneSnapshotPlanned'
    BY <1>2 DEF RevInv, OneSnapshotPlanned
  <1>. QED  BY <1>2, <1>3, <1>4, <1>5 DEF RevInv

LEMMA StartInstructionInv ==
    ASSUME RevInv, StartInstruction
    PROVE  RevInv'
  <1>1. PICK d \in 1..MaxStep : Advance(board.now + d)
    BY DEF StartInstruction
  <1>2. PICK now \in Nat, end \in Nat : now = board.now /\ end = now + d
    <2>1. board.now \in Nat
      BY BoardIs DEF RevInv, RevTypes
    <2>2. board.now + d \in Nat
      BY <2>1, Bounds
    <2>. QED  BY <2>1, <2>2
  <1>3. Running /\ NoneDue /\ now < (IF pc = "run" THEN MaxTime ELSE trip.goal)
    BY <1>2 DEF StartInstruction, AtInstruction
  <1>4. end <= now + MaxStep
    BY <1>2, Bounds
  <1>5. end <= MaxTime + MaxStep /\ (pc \in {"ff", "show"} => end < trip.target + MaxStep)
    <2>1. /\ trip.target \in 0..MaxTime /\ trip.goal \in Int /\ trip.preTarget \in Int
          /\ pc = "ff" => trip.goal <= trip.preTarget /\ trip.preTarget <= trip.target
          /\ pc = "show" => trip.goal = trip.target
      BY DEF RevInv, RevTypes, TripInv
    <2>2. CASE pc = "run"
      BY <1>3, <1>4, <2>2, Bounds
    <2>3. CASE pc = "ff" \/ pc = "show"
      <3>1. now < trip.target
        BY <1>3, <2>1, <2>3, Bounds
      <3>. QED  BY <1>4, <2>1, <3>1, Bounds
    <2>. QED  BY <1>3, <2>2, <2>3 DEF Running
  <1>6. end >= board.now /\ Advance(end)
    BY <1>1, <1>2
  <1>. QED  BY <1>3, <1>5, <1>6, TimePasses DEF StartInstruction

LEMMA ResumeInstructionInv ==
    ASSUME RevInv, ResumeInstruction
    PROVE  RevInv'
  <1>1. PICK end \in Nat : end = board.insEnd /\ board.now \in Nat
    BY BoardIs DEF RevInv, RevTypes
  <1>2. Running /\ NoneDue /\ Advance(end) /\ board.now < end
    BY <1>1 DEF ResumeInstruction
  <1>3. end <= MaxTime + MaxStep /\ (pc \in {"ff", "show"} => end < trip.target + MaxStep)
    BY <1>1 DEF RevInv, BoardInv, TripInv
  <1>4. end >= board.now
    BY <1>1, <1>2
  <1>. QED  BY <1>2, <1>3, <1>4, TimePasses DEF ResumeInstruction

\* The board changes while it runs, and time does not.
LEMMA BoardStep ==
    ASSUME RevInv, Running, UNCHANGED <<viewOnly, file, trip, pc>>, nextInput' \in Nat \ {0},
           board' \in BoardType, BoardInv(board'),
           board'.insEnd = board.insEnd, board'.collecting = board.collecting,
           board.collecting => board'.chunks[0] = board.chunks[0],
           OneSnapshotPlanned'
    PROVE  RevInv'
  <1>1. RevTypes' /\ FileInv'
    BY DEF RevInv, RevTypes, FileInv
  <1>2. TripInv'
    BY DEF RevInv, TripInv, Running
  <1>. QED  BY <1>1, <1>2 DEF RevInv

LEMMA PlannedOnce ==
    ASSUME OneSnapshotPlanned, UNCHANGED <<trip, pc>>, Same(board, board')
    PROVE  OneSnapshotPlanned'
  BY DEF OneSnapshotPlanned, Same

LEMMA ExecNewSnapshotInv ==
    ASSUME RevInv, ExecNewSnapshot
    PROVE  RevInv'
  <1>1. board \in BoardType /\ BoardInv(board) /\ OneSnapshotPlanned /\ nextInput \in Nat \ {0}
    BY DEF RevInv, RevTypes
  <1>2. PICK len \in Nat, now \in Nat, snaps \in Seq(Nat) :
           snaps = board.snapSync /\ len = Len(snaps) /\ now = board.now
    BY <1>1, BoardIs
  <1>3. snaps # <<>> /\ Head(snaps) <= now
    BY <1>2 DEF ExecNewSnapshot
  <1>4. len > 0 /\ Head(snaps) = snaps[1]
    BY <1>2, <1>3
  <1>5. PICK rest \in Seq(Nat) :
           rest = Tail(snaps) /\ Len(rest) = len - 1 /\ \A i \in 1..Len(rest) : rest[i] = snaps[i + 1]
    <2>1. Tail(snaps) \in Seq(Nat) /\ Len(Tail(snaps)) = len - 1
          /\ \A i \in 1..Len(Tail(snaps)) : Tail(snaps)[i] = snaps[i + 1]
      BY <1>2, <1>3
    <2>. QED  BY <2>1
  <1>6. board' = [board EXCEPT !.snapSync = rest, !.pendingTakeSnapshot = TRUE]
    BY <1>2, <1>5 DEF ExecNewSnapshot
  <1>7. board' \in BoardType
    BY <1>1, <1>6 DEF BoardType
  <1>8. Alike(board, board') /\ board'.snapSync = rest /\ board'.pendingTakeSnapshot
    BY <1>1, <1>6 DEF BoardType, Alike
  <1>9. board.collecting => PlannedLater(board, board')
    <2>1. SUFFICES ASSUME board.collecting PROVE PlannedLater(board, board')
      OBVIOUS
    <2>2. PICK first \in Nat : first = board.chunks[0].time
      BY <1>1, <2>1, BoardIs, PresentIs DEF BoardInv, Recording, History
    <2>3. \A i \in 1..len : snaps[i] >= first + Period
      BY <1>1, <1>2, <2>1, <2>2 DEF BoardInv, Recording
    <2>4. now >= first + Period
      <3>1. snaps[1] \in Nat /\ snaps[1] >= first + Period
        BY <1>2, <1>4, <2>3
      <3>. QED  BY <1>3, <1>4, <3>1, Bounds
    <2>5. \A i \in 1..Len(rest) : rest[i] >= first + Period
      <3>1. \A i \in 1..Len(rest) : i + 1 \in 1..len
        BY <1>5
      <3>. QED  BY <1>5, <2>3, <3>1
    <2>. QED  BY <1>2, <1>8, <2>2, <2>4, <2>5 DEF PlannedLater
  <1>10. BoardInv(board')
    BY <1>1, <1>8, <1>9, AlikeInv
  <1>11. OneSnapshotPlanned'
    <2>1. trip' = trip /\ pc' = pc
      BY DEF ExecNewSnapshot
    <2>2. board'.collecting = board.collecting
      BY <1>8 DEF Alike
    <2>3. len = 1 /\ ~board.pendingTakeSnapshot
      <3>1. Len(board.snapSync) + (IF board.pendingTakeSnapshot THEN 1 ELSE 0) \in {0, 1}
        BY <1>1 DEF OneSnapshotPlanned
      <3>2. len + (IF board.pendingTakeSnapshot THEN 1 ELSE 0) \in {0, 1}
        BY <1>2, <3>1
      <3>. QED  BY <1>4, <3>2
    <2>4. Len(board'.snapSync) = 0
      BY <1>5, <1>8, <2>3
    <2>. QED  BY <1>1, <1>2, <1>8, <2>1, <2>2, <2>3, <2>4 DEF OneSnapshotPlanned
  <1>. QED  BY <1>1, <1>7, <1>8, <1>10, <1>11, BoardStep DEF ExecNewSnapshot, Alike

---------------------------------------------------------------------------
\* Inputs, live and replayed.

LEMMA FreshIs ==
    ASSUME nextInput \in Nat \ {0}, NEW n \in 0..1
    PROVE  Fresh(n) \in Seq(Nat) /\ \A i \in 1..Len(Fresh(n)) : Fresh(n)[i] # EndLog
  <1>1. \A i \in 1..n : nextInput + i - 1 \in Nat /\ nextInput + i - 1 # 0
    OBVIOUS
  <1>2. Fresh(n) \in Seq(Nat) /\ Len(Fresh(n)) = n /\ \A i \in 1..n : Fresh(n)[i] = nextInput + i - 1
    BY <1>1 DEF Fresh
  <1>. QED  BY <1>1, <1>2 DEF EndLog

LEMMA NewInputStep ==
    ASSUME nextInput \in Nat \ {0}, NEW b \in BoardType, BoardInv(b), Past(b), NewInput(b)
    PROVE  /\ board' \in BoardType /\ BoardInv(board') /\ Past(board') /\ Same(b, board')
           /\ nextInput' \in Nat \ {0}
  <1>1. PICK k \in 0..1 : Use(k + 1) /\ board' = DistributeNew(b, Fresh(k), nextInput + k)
    BY DEF NewInput
  <1>2. PICK keys \in Seq(Nat) : keys = Fresh(k) /\ \A i \in 1..Len(keys) : keys[i] # EndLog
    BY FreshIs
  <1>3. PICK input \in Nat : input = nextInput + k /\ input # EndLog
    <2>1. nextInput + k \in Nat /\ nextInput + k # 0
      OBVIOUS
    <2>. QED  BY <2>1 DEF EndLog
  <1>4. board' = DistributeNew(b, keys, input)
    BY <1>1, <1>2, <1>3
  <1>5. nextInput' \in Nat \ {0}
    BY <1>1 DEF Use
  <1>. QED  BY <1>2, <1>3, <1>4, <1>5, NewInputInv

LEMMA DeliverHeldInv ==
    ASSUME Usual, RevInv, DeliverHeld
    PROVE  RevInv'
  <1>1. board \in BoardType /\ BoardInv(board) /\ OneSnapshotPlanned /\ nextInput \in Nat \ {0}
    BY DEF RevInv, RevTypes
  <1>2. PICK b : b = [board EXCEPT !.held = 0]
    OBVIOUS
  <1>3. b \in BoardType
    BY <1>1, <1>2 DEF BoardType
  <1>4. /\ Alike(board, b) /\ b.snapSync = board.snapSync
        /\ b.pendingTakeSnapshot = board.pendingTakeSnapshot
    BY <1>1, <1>2 DEF BoardType, Alike
  <1>5. board.collecting => PlannedLater(board, b)
    BY <1>1, <1>4 DEF PlannedLater, BoardInv, Recording
  <1>6. Past(board)
    <2>1. CASE Replaying(board) /\ board.collecting
      <3>1. PICK x \in Nat : x = board.events[board.replayIndex + 1].time /\ board.inputSync = <<x>>
        <4>1. board.inputSync = <<board.events[board.replayIndex + 1].time>>
          BY <1>1, <2>1 DEF BoardInv, Planned
        <4>2. board.inputSync \in Seq(Nat) /\ Len(board.inputSync) = 1
          BY <1>1, <4>1, BoardIs
        <4>3. board.inputSync[1] \in Nat /\ board.inputSync[1] = board.events[board.replayIndex + 1].time
          BY <4>1, <4>2
        <4>. QED  BY <4>1, <4>3
      <3>2. \A i \in DOMAIN board.inputSync : board.inputSync[i] > board.now
        BY DEF DeliverHeld, Usual
      <3>3. x > board.now
        <4>1. 1 \in DOMAIN board.inputSync /\ board.inputSync[1] = x
          BY <3>1
        <4>. QED  BY <3>2, <4>1
      <3>. QED  BY <1>1, <2>1, <3>1, <3>3, NextLater
    <2>2. CASE ~Replaying(board) /\ board.collecting
      BY <1>1, <2>2, LivePast DEF Live
    <2>3. CASE ~board.collecting
      <3>1. Present(NoChunks) = {}
        BY DEF Present, NoChunks
      <3>. QED  BY <1>1, <2>3, <3>1 DEF BoardInv, Past
    <2>. QED  BY <2>1, <2>2, <2>3
  <1>7. BoardInv(b) /\ Past(b)
    BY <1>1, <1>4, <1>5, <1>6, AlikeInv
  <1>8. NewInput(b)
    BY <1>2 DEF DeliverHeld
  <1>9. /\ board' \in BoardType /\ BoardInv(board') /\ Same(b, board')
        /\ nextInput' \in Nat \ {0}
    BY <1>1, <1>3, <1>7, <1>8, NewInputStep
  <1>10. Same(board, board')
    BY <1>4, <1>9 DEF Same, Alike
  <1>11. UNCHANGED <<viewOnly, file, trip, pc>> /\ Running
    BY DEF DeliverHeld
  <1>12. OneSnapshotPlanned'
    BY <1>1, <1>10, <1>11, PlannedOnce
  <1>. QED  BY <1>9, <1>10, <1>11, <1>12, BoardStep DEF Same

\* The EndLogEvent: replay stops.
LEMMA ReplayEnds ==
    ASSUME NEW b \in BoardType, BoardInv(b), b.inputSync # <<>>,
           b.events[b.replayIndex + 1].input = EndLog,
           NEW keys \in Seq(Nat), \A i \in 1..Len(keys) : keys[i] # EndLog,
           NEW r, r = StopReplay([b EXCEPT !.inputSync = Tail(@)], keys)
    PROVE  r \in BoardType /\ BoardInv(r) /\ Same(b, r)
  <1>1. Replaying(b)
    BY DEF BoardInv, Planned
  <1>2. PICK x : b.inputSync = <<x>>
    BY <1>1 DEF BoardInv, Planned
  <1>3. PICK none \in Seq(Nat) : none = Tail(b.inputSync) /\ Len(none) = 0
    <2>1. b.inputSync \in Seq(Nat) /\ Len(b.inputSync) = 1 /\ b.inputSync # <<>>
      BY <1>2, BoardIs
    <2>2. Tail(b.inputSync) \in Seq(Nat) /\ Len(Tail(b.inputSync)) = 0
      BY <2>1
    <2>. QED  BY <2>2
  <1>4. PICK s : s = [b EXCEPT !.inputSync = none]
    OBVIOUS
  <1>5. r = StopReplay(s, keys)
    BY <1>3, <1>4
  <1>6. s \in BoardType
    BY <1>4 DEF BoardType
  <1>7. /\ s.events = b.events /\ s.chunks = b.chunks /\ s.replayIndex = b.replayIndex
        /\ s.inputSync = none /\ s.received = b.received
        /\ s.now = b.now /\ s.insEnd = b.insEnd /\ s.collecting = b.collecting
        /\ s.snapSync = b.snapSync /\ s.pendingTakeSnapshot = b.pendingTakeSnapshot
    BY <1>4 DEF BoardType
  <1>8. b.collecting
    BY <1>1 DEF BoardInv, Replaying
  <1>9. Past(b)
    BY <1>1, <1>8, NextLater
  <1>10. Replaying(s) /\ Past(s)
    BY <1>1, <1>7, <1>9 DEF Replaying, Past
  <1>11. Recording(s)
    <2>1. Recording(b)
      BY <1>8 DEF BoardInv
    <2>. QED  BY <1>1, <1>7, <1>10, <2>1 DEF Recording
  <1>12. Stoppable(s)
    BY <1>3, <1>7, <1>8, <1>10, <1>11 DEF BoardInv, Stoppable
  <1>13. r \in BoardType /\ Live(r)
    BY <1>5, <1>6, <1>12, StopReplayLive
  <1>14. s.chunks[0].time <= s.now
    BY <1>11 DEF Recording
  <1>15. Same(s, r)
    BY <1>5, <1>6, <1>14, StopReplaySame
  <1>16. Same(b, r)
    BY <1>7, <1>15 DEF Same
  <1>. QED  BY <1>13, <1>16 DEF Live

\* The machine "b" has received the event "next" of the log, and the one after
\* it is planned for "due".
GoneOn(b, r, next, received, due) ==
    /\ b \in BoardType /\ BoardInv(b) /\ b.collecting
    /\ r.events = b.events /\ r.chunks = b.chunks /\ r.replayIndex = next
    /\ r.inputSync = <<due>> /\ r.received = received
    /\ r.now = b.now /\ r.insEnd = b.insEnd /\ r.collecting = b.collecting
    /\ r.snapSync = b.snapSync /\ r.pendingTakeSnapshot = b.pendingTakeSnapshot
    /\ next \in Nat /\ next < Len(b.events) /\ HasEnd(b.events)
    /\ due = b.events[next + 1].time /\ b.now <= due
    /\ Exact => received = After(b.chunks[0].received, b.events, next)
    /\ \A i \in 1..next : b.events[i].time <= b.now

LEMMA GoneOnInv ==
    ASSUME NEW b, NEW r, NEW next, NEW received, NEW due, GoneOn(b, r, next, received, due)
    PROVE  BoardInv(r) /\ Same(b, r)
  <1>1. /\ b \in BoardType /\ BoardInv(b) /\ b.collecting
        /\ r.events = b.events /\ r.chunks = b.chunks /\ r.replayIndex = next
        /\ r.inputSync = <<due>> /\ r.received = received
        /\ r.now = b.now /\ r.insEnd = b.insEnd /\ r.collecting
        /\ r.snapSync = b.snapSync /\ r.pendingTakeSnapshot = b.pendingTakeSnapshot
        /\ Exact => received = After(b.chunks[0].received, b.events, next)
    BY DEF GoneOn
  <1>2. /\ next \in Nat /\ next < Len(b.events) /\ HasEnd(b.events)
        /\ due = b.events[next + 1].time /\ b.now <= due
        /\ \A i \in 1..next : b.events[i].time <= b.now
    BY DEF GoneOn
  <1>3. PICK len \in Nat : len = Len(b.events)
    BY <1>1, BoardIs
  <1>4. Replaying(r) /\ next <= len
    BY <1>1, <1>2, <1>3 DEF Replaying
  <1>5. Planned(r)
    BY <1>1, <1>2, <1>4 DEF Planned
  <1>6. Recording(b)
    BY <1>1 DEF BoardInv
  <1>7. Recording(r)
    BY <1>1, <1>4, <1>6 DEF Recording
  <1>8. /\ Log(b.events) /\ b.now <= b.insEnd /\ b.insEnd <= MaxTime + MaxStep
    BY <1>1 DEF BoardInv
  <1>9. BoardInv(r)
    BY <1>1, <1>2, <1>3, <1>4, <1>5, <1>7, <1>8 DEF BoardInv
  <1>10. Same(b, r)
    BY <1>1 DEF Same
  <1>. QED  BY <1>9, <1>10

\* Any other event: the machine receives it, and the next one is planned.
LEMMA ReplayGoesOn ==
    ASSUME NEW b \in BoardType, BoardInv(b), b.inputSync # <<>>, Head(b.inputSync) <= b.now,
           NEW input, input = b.events[b.replayIndex + 1].input, input # EndLog,
           NEW a, a = [b EXCEPT !.inputSync = Tail(@)],
           NEW r, r = ReplayNextEvent(Receive([a EXCEPT !.replayIndex = @ + 1], input))
    PROVE  r \in BoardType /\ BoardInv(r) /\ Same(b, r)
  <1>1. Replaying(b) /\ b.collecting
    BY DEF BoardInv, Planned, Replaying
  <1>2. PICK ev \in Seq(Entry), chunks \in Snapshots, t \in Nat, n \in Nat, len \in Nat, next \in Nat :
           /\ ev = b.events /\ chunks = b.chunks /\ t = b.now /\ n = b.replayIndex
           /\ len = Len(ev) /\ next = n + 1
    <2>1. b.replayIndex + 1 \in Nat
      BY BoardIs
    <2>. QED  BY <2>1, BoardIs
  <1>3. /\ Log(ev) /\ HasEnd(ev) /\ n <= len /\ n # len
        /\ b.inputSync = <<ev[next].time>> /\ t <= ev[next].time
        /\ \A i \in 1..n : ev[i].time <= t
    BY <1>1, <1>2 DEF BoardInv, Planned, Replaying
  <1>4. next \in 1..len
    BY <1>2, <1>3
  <1>5. input \in Nat /\ ev[next].time \in Nat /\ input = ev[next].input
    BY <1>2, <1>4, EntryIs
  <1>6. ev[next].time = t
    <2>1. Head(b.inputSync) = ev[next].time
      BY <1>3
    <2>. QED  BY <1>2, <1>3, <1>5, <2>1
  <1>7. next < len
    <2>1. next # len
      BY <1>2, <1>3, <1>5, EndIsLast
    <2>. QED  BY <1>4, <2>1
  <1>8. PICK after \in Nat, due \in Nat : after = next + 1 /\ due = ev[after].time /\ t <= due
    <2>1. next + 1 \in 1..len
      BY <1>4, <1>7
    <2>2. ev[next + 1].time \in Nat
      BY <1>2, <2>1, EntryIs
    <2>3. ev[next].time <= ev[next + 1].time
      BY <1>2, <1>3, <1>4, <2>1 DEF Log
    <2>. QED  BY <1>6, <2>1, <2>2, <2>3
  <1>9. PICK received \in Seq(Nat) :
           /\ received = Append(b.received, input)
           /\ Exact => received = After(chunks[0].received, ev, next)
    <2>1. b.received \in Seq(Nat)
      BY BoardIs
    <2>2. /\ Append(b.received, input) = b.received \o <<input>>
          /\ <<input>> \in Seq(Nat) /\ Len(<<input>>) = 1 /\ <<input>>[1] = input
      BY <1>5, <2>1, AppendOne
    <2>3. Append(b.received, input) \in Seq(Nat)
      BY <1>5, <2>1
    <2>4. PICK base \in Seq(Nat) : base = chunks[0].received
      BY <1>1, <1>2, PresentIs DEF BoardInv, Recording, History
    <2>5. Exact => b.received = After(base, ev, n)
      BY <1>1, <1>2, <2>4 DEF BoardInv, Recording
    <2>6. PICK one \in Seq(Nat) : one = <<input>> /\ Len(one) = 1 /\ one[1] = input
      BY <2>2
    <2>7. Continues(base, ev, n, ev, next, one)
      <3>1. \A i \in 1..n : ev[i].input \in Nat
        <4>1. \A i \in 1..n : i \in 1..Len(ev)
          BY <1>2, <1>3
        <4>. QED  BY <4>1, EntryIs
      <3>2. \A i \in 1..Len(one) : ev[n + i].input = one[i]
        <4>1. \A i \in 1..Len(one) : i = 1
          BY <2>6
        <4>. QED  BY <1>2, <1>5, <2>6, <4>1
      <3>. QED  BY <1>2, <2>6, <3>1, <3>2 DEF Continues
    <2>8. After(base, ev, next) = After(base, ev, n) \o one
      BY <2>7, InputsMore
    <2>. QED  BY <2>2, <2>3, <2>4, <2>5, <2>6, <2>8
  <1>10. PICK none : none = Tail(b.inputSync) /\ none = <<>>
    BY <1>3
  <1>11. PICK nexts \in Seq(Nat) : nexts = <<due>>
    <2>1. <<due>> \in Seq(Nat)
      OBVIOUS
    <2>. QED  BY <2>1, Zenon
  <1>12. r = [b EXCEPT !.inputSync = nexts, !.replayIndex = next, !.received = received]
    <2>1. PICK u : u = [b EXCEPT !.inputSync = none, !.replayIndex = next, !.received = received]
      OBVIOUS
    <2>2. Receive([a EXCEPT !.replayIndex = @ + 1], input) = u
      <3>1. a = [b EXCEPT !.inputSync = none]
        BY <1>10
      <3>2. [a EXCEPT !.replayIndex = @ + 1] = [b EXCEPT !.inputSync = none, !.replayIndex = next]
        BY <1>2, <3>1 DEF BoardType
      <3>3. PICK v : v = [b EXCEPT !.inputSync = none, !.replayIndex = next]
        OBVIOUS
      <3>4. Receive(v, input) = [v EXCEPT !.received = received]
        BY <1>9, <3>3 DEF Receive, BoardType
      <3>. QED  BY <2>1, <3>2, <3>3, <3>4 DEF BoardType
    <2>3. u.replayIndex = next /\ u.events = ev /\ u.inputSync = none
      BY <1>2, <2>1 DEF BoardType
    <2>4. ~(next >= Len(ev)) /\ Append(none, due) = nexts
      <3>1. ~(next >= Len(ev))
        BY <1>2, <1>7
      <3>2. Append(<<>>, due) = <<due>>
        OBVIOUS
      <3>. QED  BY <1>10, <1>11, <3>1, <3>2
    <2>5. ReplayNextEvent(u) = [u EXCEPT !.inputSync = nexts]
      BY <1>8, <2>3, <2>4 DEF ReplayNextEvent
    <2>. QED  BY <2>1, <2>2, <2>5 DEF BoardType
  <1>13. r \in BoardType
    BY <1>12 DEF BoardType
  <1>14. /\ r.events = ev /\ r.chunks = chunks /\ r.replayIndex = next
         /\ r.inputSync = <<due>> /\ r.received = received
         /\ r.now = b.now /\ r.insEnd = b.insEnd /\ r.collecting = b.collecting
         /\ r.snapSync = b.snapSync /\ r.pendingTakeSnapshot = b.pendingTakeSnapshot
    BY <1>2, <1>11, <1>12 DEF BoardType
  <1>15. \A i \in 1..next : ev[i].time <= t
    <2>1. \A i \in 1..next : i \in 1..n \/ i = next
      BY <1>2
    <2>. QED  BY <1>3, <1>6, <2>1
  <1>16. GoneOn(b, r, next, received, due)
    <2>1. /\ next < Len(b.events) /\ due = b.events[next + 1].time
          /\ b.now <= due /\ HasEnd(b.events)
      BY <1>2, <1>3, <1>7, <1>8
    <2>2. /\ Exact => received = After(b.chunks[0].received, b.events, next)
          /\ \A i \in 1..next : b.events[i].time <= b.now
      BY <1>2, <1>9, <1>15
    <2>. QED  BY <1>1, <1>2, <1>14, <2>1, <2>2, Zenon DEF GoneOn
  <1>. QED  BY <1>13, <1>16, GoneOnInv

LEMMA ExecInputEventInv ==
    ASSUME RevInv, ExecInputEvent
    PROVE  RevInv'
  <1>1. board \in BoardType /\ BoardInv(board) /\ OneSnapshotPlanned /\ nextInput \in Nat \ {0}
    BY DEF RevInv, RevTypes
  <1>2. board.inputSync # <<>> /\ Head(board.inputSync) <= board.now /\ Running
        /\ UNCHANGED <<viewOnly, takeQueued, file, trip, pc>>
    BY DEF ExecInputEvent
  <1>3. PICK b : b = [board EXCEPT !.inputSync = Tail(@)]
    OBVIOUS
  <1>4. PICK e : e = b.events[b.replayIndex + 1]
    OBVIOUS
  <1>5. b.events = board.events /\ b.replayIndex = board.replayIndex
    BY <1>1, <1>3 DEF BoardType
  <1>6. board' \in BoardType /\ BoardInv(board') /\ Same(board, board') /\ nextInput' \in Nat \ {0}
    <2>1. CASE e.input = EndLog
      <3>1. PICK k \in 0..1 : Use(k) /\ board' = StopReplay(b, Fresh(k))
        BY <1>3, <1>4, <2>1 DEF ExecInputEvent
      <3>2. PICK keys \in Seq(Nat) : keys = Fresh(k) /\ \A i \in 1..Len(keys) : keys[i] # EndLog
        BY <1>1, FreshIs
      <3>3. board' = StopReplay([board EXCEPT !.inputSync = Tail(@)], keys)
        BY <1>3, <3>1, <3>2
      <3>4. nextInput' \in Nat \ {0}
        BY <1>1, <3>1 DEF Use
      <3>. QED  BY <1>1, <1>2, <1>4, <1>5, <2>1, <3>2, <3>3, <3>4, ReplayEnds
    <2>2. CASE e.input # EndLog
      <3>1. /\ board' = ReplayNextEvent(Receive([b EXCEPT !.replayIndex = @ + 1], e.input))
            /\ nextInput' = nextInput
        BY <1>3, <1>4, <2>2 DEF ExecInputEvent
      <3>2. PICK input : input = e.input /\ input = board.events[board.replayIndex + 1].input
        BY <1>4, <1>5
      <3>3. board' = ReplayNextEvent(Receive([b EXCEPT !.replayIndex = @ + 1], input))
        BY <3>1, <3>2
      <3>. QED  BY <1>1, <1>2, <1>3, <2>2, <3>1, <3>2, <3>3, ReplayGoesOn
    <2>. QED  BY <2>1, <2>2
  <1>7. OneSnapshotPlanned'
    BY <1>1, <1>2, <1>6, PlannedOnce
  <1>. QED  BY <1>2, <1>6, <1>7, BoardStep DEF Same

---------------------------------------------------------------------------
\* The warp of goTo(), and the way in and out of the CPU loop.

\* Steps that leave the board, the file and the inputs alone.
LEMMA BoardStays ==
    ASSUME RevInv, UNCHANGED <<board, viewOnly, file, nextInput>>,
           trip' \in [target : 0..MaxTime, preTarget : Int, last : Int, goal : Int, reused : BOOLEAN],
           TripInv', OneSnapshotPlanned'
    PROVE  RevInv'
  BY DEF RevInv, RevTypes, FileInv

LEMMA EnterCPUInv ==
    ASSUME RevInv, EnterCPU
    PROVE  RevInv'
  <1>1. /\ pc = "main" /\ pc' = "run" /\ UNCHANGED <<board, viewOnly, file, trip, nextInput>>
        /\ trip \in [target : 0..MaxTime, preTarget : Int, last : Int, goal : Int, reused : BOOLEAN]
    BY DEF EnterCPU, RevInv, RevTypes
  <1>2. TripInv'
    BY <1>1 DEF RevInv, TripInv
  <1>3. OneSnapshotPlanned'
    BY <1>1 DEF RevInv, OneSnapshotPlanned
  <1>. QED  BY <1>1, <1>2, <1>3, BoardStays

\* At the end of an instruction no event is due.
LEMMA InstructionEnds ==
    ASSUME RevInv, AtInstruction
    PROVE  board.now = board.insEnd /\ Past(board)
  BY RestPast DEF RevInv, RevTypes, AtInstruction

LEMMA ExitCPUInv ==
    ASSUME RevInv, ExitCPU
    PROVE  RevInv'
  <1>1. /\ pc = "run" /\ pc' = "main" /\ UNCHANGED <<board, viewOnly, file, trip, nextInput>>
        /\ trip \in [target : 0..MaxTime, preTarget : Int, last : Int, goal : Int, reused : BOOLEAN]
    BY DEF ExitCPU, RevInv, RevTypes
  <1>2. board.now = board.insEnd /\ Past(board)
    BY InstructionEnds DEF ExitCPU
  <1>3. TripInv'
    BY <1>1, <1>2 DEF TripInv, Past
  <1>4. OneSnapshotPlanned'
    BY <1>1 DEF RevInv, OneSnapshotPlanned
  <1>. QED  BY <1>1, <1>3, <1>4, BoardStays

LEMMA SnapshotTargetIs ==
    ASSUME NEW pre \in Int, NEW last \in Int, pre = trip.preTarget, last = trip.last
    PROVE  /\ NextSnapshotTarget \in Int /\ NextSnapshotTarget <= pre
           /\ NextSnapshotTarget = pre \/ NextSnapshotTarget >= last + Period
  <1>1. PICK half \in Int : half = (pre - last) \div 2
    OBVIOUS
  <1>2. Period \in Int
    BY Bounds
  <1>3. PICK gap \in Int : gap = Max({Period, half}) /\ gap >= Period
    <2>1. Max({Period, half}) = IF Period >= half THEN Period ELSE half
      BY <1>2, MaxOfTwo
    <2>. QED  BY <1>2, <2>1
  <1>4. PICK then \in Int : then = last + gap
    OBVIOUS
  <1>5. NextSnapshotTarget = Min({pre, then})
    BY <1>1, <1>3, <1>4 DEF NextSnapshotTarget
  <1>6. Min({pre, then}) = IF pre <= then THEN pre ELSE then
    BY MinOfTwo
  <1>. QED  BY <1>2, <1>3, <1>4, <1>5, <1>6

LEMMA WarpForwardInv ==
    ASSUME RevInv, WarpForward
    PROVE  RevInv'
  <1>1. PICK pre \in Int, last \in Int, now \in Nat :
           pre = trip.preTarget /\ last = trip.last /\ now = board.now
    BY BoardIs DEF RevInv, RevTypes
  <1>2. /\ pc = "warp" /\ pc' = "ff" /\ UNCHANGED <<board, viewOnly, file, nextInput>>
        /\ trip' = [trip EXCEPT !.goal = Min({NextSnapshotTarget, now + Period})]
    BY <1>1 DEF WarpForward
  <1>3. PICK target \in Int : target = NextSnapshotTarget /\ target <= pre
    BY <1>1, SnapshotTargetIs
  <1>4. PICK goal \in Int : goal = Min({target, now + Period}) /\ goal <= pre
    <2>1. now + Period \in Int
      BY Bounds
    <2>2. Min({target, now + Period}) = IF target <= now + Period THEN target ELSE now + Period
      BY <2>1, MinOfTwo
    <2>. QED  BY <1>3, <2>1, <2>2
  <1>5. trip' = [trip EXCEPT !.goal = goal]
    BY <1>2, <1>3, <1>4
  <1>6. /\ trip' \in [target : 0..MaxTime, preTarget : Int, last : Int, goal : Int, reused : BOOLEAN]
        /\ trip'.target = trip.target /\ trip'.preTarget = pre /\ trip'.last = last
        /\ trip'.goal = goal /\ trip'.reused = trip.reused
    BY <1>1, <1>5 DEF RevInv, RevTypes
  <1>7. TripInv'
    BY <1>1, <1>2, <1>4, <1>6 DEF RevInv, TripInv
  <1>8. OneSnapshotPlanned'
    BY <1>2, <1>6 DEF RevInv, OneSnapshotPlanned
  <1>. QED  BY <1>2, <1>6, <1>7, <1>8, BoardStays

LEMMA WarpForwardedInv ==
    ASSUME RevInv, WarpForwarded
    PROVE  RevInv'
  <1>1. /\ pc = "ff" /\ pc' = "warp" /\ UNCHANGED <<board, viewOnly, file, trip, nextInput>>
        /\ trip \in [target : 0..MaxTime, preTarget : Int, last : Int, goal : Int, reused : BOOLEAN]
    BY DEF WarpForwarded, RevInv, RevTypes
  <1>2. board.now = board.insEnd /\ Past(board)
    BY InstructionEnds DEF WarpForwarded
  <1>3. TripInv'
    BY <1>1, <1>2 DEF RevInv, TripInv, Past
  <1>4. OneSnapshotPlanned'
    BY <1>1 DEF RevInv, OneSnapshotPlanned
  <1>. QED  BY <1>1, <1>3, <1>4, BoardStays

LEMMA NoTripIs ==
    NoTrip \in [target : 0..MaxTime, preTarget : Int, last : Int, goal : Int, reused : BOOLEAN]
  BY Bounds DEF NoTrip

LEMMA ShownInv ==
    ASSUME RevInv, Shown
    PROVE  RevInv'
  <1>1. pc = "show" /\ pc' = "main" /\ trip' = NoTrip /\ UNCHANGED <<board, viewOnly, file, nextInput>>
    BY DEF Shown
  <1>2. board.now = board.insEnd /\ Past(board)
    BY InstructionEnds DEF Shown
  <1>3. TripInv'
    BY <1>1, <1>2 DEF TripInv, Past
  <1>4. OneSnapshotPlanned'
    BY <1>1 DEF RevInv, OneSnapshotPlanned
  <1>. QED  BY <1>1, <1>3, <1>4, NoTripIs, BoardStays

LEMMA WarpSnapshotInv ==
    ASSUME RevInv, WarpSnapshot
    PROVE  RevInv'
  <1>1. PICK pre \in Int, last \in Int, now \in Nat :
           pre = trip.preTarget /\ last = trip.last /\ now = board.now
    BY BoardIs DEF RevInv, RevTypes
  <1>2. /\ pc = "warp" /\ pc' = "warp" /\ UNCHANGED <<viewOnly, file, nextInput>>
        /\ now < pre /\ now >= NextSnapshotTarget
        /\ board' = TakeSnapshot(board) /\ trip' = [trip EXCEPT !.last = NextSnapshotTarget]
    BY <1>1 DEF WarpSnapshot
  <1>3. PICK target \in Int : target = NextSnapshotTarget /\ (target = pre \/ target >= last + Period)
    BY <1>1, SnapshotTargetIs
  <1>4. /\ board \in BoardType /\ BoardInv(board) /\ Past(board) /\ board.collecting
        /\ board.now = board.insEnd /\ board.insEnd < trip.target + MaxStep
        /\ pre <= trip.target /\ last >= board.chunks[0].time
    BY <1>1, <1>2 DEF RevInv, RevTypes, TripInv
  <1>5. PICK first \in Nat : first = board.chunks[0].time
    BY <1>4, BoardIs, PresentIs DEF BoardInv, Recording, History
  <1>6. target >= first + Period /\ now >= first + Period
    BY <1>2, <1>3, <1>4, <1>5, Bounds
  <1>7. /\ board' \in BoardType /\ BoardInv(board') /\ Past(board') /\ Same(board, board')
    BY <1>1, <1>2, <1>4, <1>5, <1>6, TakenInv
  <1>8. trip' = [trip EXCEPT !.last = target]
    BY <1>2, <1>3
  <1>9. /\ trip' \in [target : 0..MaxTime, preTarget : Int, last : Int, goal : Int, reused : BOOLEAN]
        /\ trip'.target = trip.target /\ trip'.preTarget = pre /\ trip'.last = target
        /\ trip'.reused = trip.reused
    BY <1>1, <1>8 DEF RevInv, RevTypes
  <1>10. target >= first
    BY <1>6, Bounds
  <1>11. TripInv'
    BY <1>2, <1>4, <1>5, <1>7, <1>9, <1>10 DEF TripInv, Same
  <1>12. OneSnapshotPlanned'
    BY <1>2, <1>7, <1>9 DEF RevInv, OneSnapshotPlanned, Same
  <1>13. RevTypes' /\ FileInv'
    BY <1>2, <1>7, <1>9 DEF RevInv, RevTypes, FileInv
  <1>. QED  BY <1>7, <1>11, <1>12, <1>13 DEF RevInv

LEMMA WarpDoneInv ==
    ASSUME RevInv, WarpDone
    PROVE  RevInv'
  <1>1. /\ pc = "warp" /\ UNCHANGED <<viewOnly, file, nextInput>>
        /\ board' = IF trip.reused THEN Schedule(board) ELSE board
        /\ IF board.now < trip.target
           THEN pc' = "show" /\ trip' = [trip EXCEPT !.goal = trip.target]
           ELSE pc' = "main" /\ trip' = NoTrip
    BY DEF WarpDone
  <1>2. /\ board \in BoardType /\ BoardInv(board) /\ Past(board) /\ board.collecting
        /\ board.now = board.insEnd /\ board.insEnd < trip.target + MaxStep
        /\ trip \in [target : 0..MaxTime, preTarget : Int, last : Int, goal : Int, reused : BOOLEAN]
        /\ trip.target \in Int
    BY <1>1 DEF RevInv, RevTypes, TripInv
  <1>3. PICK len \in Nat, pending \in Nat :
           /\ len = Len(board.snapSync) /\ pending = (IF board.pendingTakeSnapshot THEN 1 ELSE 0)
           /\ trip.reused => len + pending = 0
           /\ ~trip.reused => len + pending = 1
    <2>1. PICK len \in Nat : len = Len(board.snapSync)
      BY <1>2, BoardIs
    <2>2. PICK pending \in Nat : pending = (IF board.pendingTakeSnapshot THEN 1 ELSE 0)
      OBVIOUS
    <2>3. trip.reused => len + pending = 0
      BY <1>1, <1>2, <2>1, <2>2 DEF RevInv, OneSnapshotPlanned
    <2>4. ~trip.reused => len + pending = 1
      BY <1>1, <1>2, <2>1, <2>2 DEF RevInv, OneSnapshotPlanned
    <2>. QED  BY <2>1, <2>2, <2>3, <2>4
  <1>4. /\ board' \in BoardType /\ BoardInv(board') /\ Alike(board, board')
        /\ board'.pendingTakeSnapshot = board.pendingTakeSnapshot
        /\ Len(board'.snapSync) + pending = 1
    <2>1. CASE trip.reused
      <3>1. board' = Schedule(board)
        BY <1>1, <2>1
      <3>2. /\ board' \in BoardType /\ BoardInv(board') /\ Alike(board, board')
            /\ board'.pendingTakeSnapshot = board.pendingTakeSnapshot
            /\ Len(board'.snapSync) = len + 1
        BY <1>2, <1>3, <3>1, ScheduleInv
      <3>3. len + pending = 0
        BY <1>3, <2>1
      <3>4. len + 1 + pending = 1
        BY <3>3
      <3>. QED  BY <3>2, <3>4
    <2>2. CASE ~trip.reused
      <3>1. board' = board
        BY <1>1, <2>2
      <3>. QED  BY <1>2, <1>3, <2>2, <3>1 DEF Alike
    <2>. QED  BY <2>1, <2>2
  <1>5. Past(board')
    BY <1>2, <1>4 DEF Past, Alike
  <1>6. OneSnapshotPlanned'
    <2>1. Len(board'.snapSync) + (IF board'.pendingTakeSnapshot THEN 1 ELSE 0) = 1
      BY <1>3, <1>4
    <2>2. pc' \in {"show", "main"} /\ board'.collecting
      BY <1>1, <1>2, <1>4 DEF Alike
    <2>. QED  BY <2>1, <2>2 DEF OneSnapshotPlanned
  <1>7. trip' \in [target : 0..MaxTime, preTarget : Int, last : Int, goal : Int, reused : BOOLEAN]
    BY <1>1, <1>2, NoTripIs
  <1>8. TripInv'
    <2>1. /\ board'.now = board.now /\ board'.insEnd = board.insEnd
          /\ board'.collecting = board.collecting
      BY <1>4 DEF Alike
    <2>2. CASE board.now < trip.target
      <3>1. pc' = "show" /\ trip'.goal = trip.target /\ trip'.target = trip.target
        BY <1>1, <1>2, <2>2
      <3>. QED  BY <1>2, <2>1, <3>1 DEF TripInv
    <2>3. CASE ~(board.now < trip.target)
      BY <1>1, <1>2, <1>5, <2>1, <2>3 DEF TripInv, Past
    <2>. QED  BY <2>2, <2>3
  <1>9. RevTypes' /\ FileInv'
    BY <1>1, <1>4, <1>7 DEF RevInv, RevTypes, FileInv
  <1>. QED  BY <1>4, <1>6, <1>8, <1>9 DEF RevInv

---------------------------------------------------------------------------
\* The commands of the main loop.

\* One snapshot is planned while recording, none otherwise.
OnePlanned(b) ==
    /\ b.collecting => Len(b.snapSync) = IF b.pendingTakeSnapshot THEN 0 ELSE 1
    /\ ~b.collecting => Len(b.snapSync) = 0 /\ ~b.pendingTakeSnapshot

LEMMA OnePlannedIs ==
    ASSUME NEW b \in BoardType
    PROVE  Len(b.snapSync) + (IF b.pendingTakeSnapshot THEN 1 ELSE 0)
              = (IF b.collecting THEN 1 ELSE 0) <=> OnePlanned(b)
  <1>1. PICK len \in Nat : len = Len(b.snapSync)
    BY BoardIs
  <1>2. CASE b.pendingTakeSnapshot
    BY <1>1, <1>2 DEF OnePlanned
  <1>3. CASE ~b.pendingTakeSnapshot
    <2>1. CASE b.collecting
      BY <1>1, <1>3, <2>1 DEF OnePlanned
    <2>2. CASE ~b.collecting
      <3>1. (IF b.pendingTakeSnapshot THEN 1 ELSE 0) = 0 /\ (IF b.collecting THEN 1 ELSE 0) = 0
        BY <1>3, <2>2
      <3>2. len + 0 = len
        OBVIOUS
      <3>. QED  BY <1>1, <1>3, <2>2, <3>1, <3>2 DEF OnePlanned
    <2>. QED  BY <2>1, <2>2
  <1>. QED  BY <1>2, <1>3

\* The board changes in the main loop, and time does not.
LEMMA MainStep ==
    ASSUME RevInv, pc = "main", UNCHANGED <<file, trip, pc>>, nextInput' \in Nat \ {0},
           board' \in BoardType, BoardInv(board'), Past(board'),
           board'.now = board.now, board'.insEnd = board.insEnd, OnePlanned(board')
    PROVE  RevInv'
  <1>1. RevTypes' /\ FileInv'
    BY DEF RevInv, RevTypes, FileInv
  <1>2. TripInv'
    BY DEF RevInv, TripInv, Past
  <1>3. Len(board'.snapSync) + (IF board'.pendingTakeSnapshot THEN 1 ELSE 0)
           = (IF board'.collecting THEN 1 ELSE 0)
    BY OnePlannedIs
  <1>4. OneSnapshotPlanned'
    BY <1>3 DEF OneSnapshotPlanned
  <1>. QED  BY <1>1, <1>2, <1>4 DEF RevInv

LEMMA MainIs ==
    ASSUME RevInv, pc = "main"
    PROVE  /\ board \in BoardType /\ BoardInv(board) /\ Past(board) /\ board.now = board.insEnd
           /\ nextInput \in Nat \ {0} /\ OnePlanned(board)
  <1>1. /\ board \in BoardType /\ BoardInv(board) /\ Past(board) /\ board.now = board.insEnd
        /\ nextInput \in Nat \ {0}
    BY DEF RevInv, RevTypes, TripInv
  <1>2. Len(board.snapSync) + (IF board.pendingTakeSnapshot THEN 1 ELSE 0)
           = (IF board.collecting THEN 1 ELSE 0)
    BY DEF RevInv, OneSnapshotPlanned
  <1>. QED  BY <1>1, <1>2, OnePlannedIs

LEMMA HostInputInv ==
    ASSUME RevInv, HostInput
    PROVE  RevInv'
  <1>1. pc = "main" /\ UNCHANGED <<file, trip, pc, nextInput>> /\ board' = [board EXCEPT !.held = 1]
    BY DEF HostInput
  <1>2. /\ board \in BoardType /\ BoardInv(board) /\ Past(board) /\ nextInput \in Nat \ {0}
        /\ OnePlanned(board)
    BY <1>1, MainIs
  <1>3. /\ board' \in BoardType /\ Alike(board, board') /\ board'.snapSync = board.snapSync
        /\ board'.pendingTakeSnapshot = board.pendingTakeSnapshot
    BY <1>1, <1>2 DEF BoardType, Alike
  <1>4. board.collecting => PlannedLater(board, board')
    BY <1>2, <1>3 DEF PlannedLater, BoardInv, Recording
  <1>5. BoardInv(board') /\ Past(board')
    BY <1>2, <1>3, <1>4, AlikeInv
  <1>. QED  BY <1>1, <1>2, <1>3, <1>5, MainStep DEF Alike, OnePlanned

LEMMA LiveInputInv ==
    ASSUME RevInv, LiveInput
    PROVE  RevInv'
  <1>1. pc = "main" /\ UNCHANGED <<file, trip, pc>> /\ NewInput(board)
    BY DEF LiveInput
  <1>2. /\ board \in BoardType /\ BoardInv(board) /\ Past(board) /\ nextInput \in Nat \ {0}
        /\ OnePlanned(board)
    BY <1>1, MainIs
  <1>3. /\ board' \in BoardType /\ BoardInv(board') /\ Past(board') /\ Same(board, board')
        /\ nextInput' \in Nat \ {0}
    BY <1>1, <1>2, NewInputStep
  <1>. QED  BY <1>1, <1>2, <1>3, MainStep DEF Same, OnePlanned

LEMMA TruncateReplayInv ==
    ASSUME RevInv, TruncateReplay
    PROVE  RevInv'
  <1>1. pc = "main" /\ UNCHANGED <<file, trip, pc>> /\ Replaying(board)
    BY DEF TruncateReplay
  <1>2. /\ board \in BoardType /\ BoardInv(board) /\ Past(board) /\ nextInput \in Nat \ {0}
        /\ OnePlanned(board)
    BY <1>1, MainIs
  <1>3. board.collecting /\ board.chunks[0].time <= board.now
    <2>1. board.collecting
      <3>1. board.events # <<>> \/ board.replayIndex # 0
        <4>1. Len(<<>>) = 0
          OBVIOUS
        <4>. QED  BY <1>1, <4>1 DEF Replaying
      <3>. QED  BY <1>2, <3>1 DEF BoardInv
    <2>. QED  BY <1>2, <2>1 DEF BoardInv, Recording
  <1>4. PICK k \in 0..1 : Use(k) /\ board' = StopReplay(board, Fresh(k))
    BY DEF TruncateReplay
  <1>5. PICK keys \in Seq(Nat) : keys = Fresh(k) /\ \A i \in 1..Len(keys) : keys[i] # EndLog
    BY <1>2, FreshIs
  <1>6. board' \in BoardType /\ Live(board')
    BY <1>2, <1>3, <1>4, <1>5, StoppableIs, StopReplayLive
  <1>7. Same(board, board')
    BY <1>2, <1>3, <1>4, StopReplaySame
  <1>8. BoardInv(board') /\ Past(board') /\ nextInput' \in Nat \ {0}
    BY <1>2, <1>4, <1>6, LivePast DEF Live, Use
  <1>. QED  BY <1>1, <1>2, <1>6, <1>7, <1>8, MainStep DEF Same, OnePlanned

LEMMA SetViewOnlyModeInv ==
    ASSUME RevInv, SetViewOnlyMode
    PROVE  RevInv'
  BY DEF SetViewOnlyMode, RevInv, RevTypes, FileInv, TripInv, OneSnapshotPlanned

LEMMA DeliverTakeInv ==
    ASSUME RevInv, DeliverTake
    PROVE  RevInv'
  <1>1. /\ pc = "main" /\ UNCHANGED <<file, trip, pc, nextInput>>
        /\ board' = IF board.pendingTakeSnapshot
                    THEN Schedule(TakeSnapshot([board EXCEPT !.pendingTakeSnapshot = FALSE]))
                    ELSE board
    BY DEF DeliverTake
  <1>2. /\ board \in BoardType /\ BoardInv(board) /\ Past(board) /\ nextInput \in Nat \ {0}
        /\ OnePlanned(board)
    BY <1>1, MainIs
  <1>3. CASE ~board.pendingTakeSnapshot
    BY <1>1, <1>2, <1>3, MainStep
  <1>4. CASE board.pendingTakeSnapshot
    <2>1. PICK b : b = [board EXCEPT !.pendingTakeSnapshot = FALSE]
      OBVIOUS
    <2>2. b \in BoardType /\ Alike(board, b) /\ b.snapSync = board.snapSync /\ ~b.pendingTakeSnapshot
      BY <1>2, <2>1 DEF BoardType, Alike
    <2>3. board.collecting => PlannedLater(board, b)
      BY <1>2, <2>2 DEF PlannedLater, BoardInv, Recording
    <2>4. BoardInv(b) /\ Past(b)
      BY <1>2, <2>2, <2>3, AlikeInv
    <2>5. board.collecting /\ Len(board.snapSync) = 0
      BY <1>2, <1>4 DEF OnePlanned
    <2>6. b.now >= b.chunks[0].time + Period
      <3>1. board.now >= board.chunks[0].time + Period
        BY <1>2, <1>4, <2>5 DEF BoardInv, Recording
      <3>. QED  BY <2>2, <3>1 DEF Alike
    <2>7. PICK s : s = TakeSnapshot(b)
      OBVIOUS
    <2>8. b.collecting
      BY <2>2, <2>5 DEF Alike
    <2>9. s \in BoardType /\ BoardInv(s) /\ Past(s) /\ Same(b, s)
      BY <2>2, <2>4, <2>6, <2>7, <2>8, TakenInv
    <2>10. s.collecting /\ Len(s.snapSync) = 0 /\ ~s.pendingTakeSnapshot
      BY <2>2, <2>5, <2>8, <2>9 DEF Same
    <2>11. PICK len \in Nat : len = Len(s.snapSync) /\ len = 0
      BY <2>10
    <2>12. board' = Schedule(s)
      BY <1>1, <1>4, <2>1, <2>7
    <2>13. /\ board' \in BoardType /\ BoardInv(board') /\ Alike(s, board')
           /\ ~board'.pendingTakeSnapshot /\ Len(board'.snapSync) = 1
      <3>1. /\ board' \in BoardType /\ BoardInv(board') /\ Alike(s, board')
            /\ board'.pendingTakeSnapshot = s.pendingTakeSnapshot
            /\ Len(board'.snapSync) = Len(s.snapSync) + 1
        BY <2>9, <2>10, <2>12, ScheduleInv
      <3>2. Len(board'.snapSync) = len + 1
        BY <2>11, <3>1
      <3>3. len + 1 = 1
        BY <2>11
      <3>. QED  BY <2>10, <3>1, <3>2, <3>3
    <2>14. /\ Past(board') /\ board'.now = board.now /\ board'.insEnd = board.insEnd
           /\ board'.collecting
      BY <2>2, <2>8, <2>9, <2>13 DEF Past, Alike, Same
    <2>. QED  BY <1>1, <1>2, <2>13, <2>14, MainStep DEF OnePlanned
  <1>. QED  BY <1>2, <1>3, <1>4 DEF BoardType

LEMMA StartInv ==
    ASSUME RevInv, Start
    PROVE  RevInv'
  <1>1. /\ pc = "main" /\ UNCHANGED <<file, trip, pc, nextInput>>
        /\ ~board.collecting /\ board.now <= MaxTime
        /\ board' = Schedule(TakeSnapshot([board EXCEPT !.collecting = TRUE]))
    BY DEF Start
  <1>2. /\ board \in BoardType /\ BoardInv(board) /\ Past(board) /\ nextInput \in Nat \ {0}
        /\ OnePlanned(board)
    BY <1>1, MainIs
  <1>3. board.snapSync = <<>> /\ ~board.pendingTakeSnapshot
    <2>1. board.snapSync \in Seq(Nat) /\ Len(board.snapSync) = 0
      BY <1>1, <1>2, BoardIs DEF OnePlanned
    <2>. QED  BY <1>1, <1>2, <2>1 DEF OnePlanned
  <1>4. PICK s : s = TakeSnapshot([board EXCEPT !.collecting = TRUE])
    OBVIOUS
  <1>5. /\ s \in BoardType /\ s.collecting /\ s.now = board.now /\ s.insEnd = board.insEnd
        /\ s.snapSync = board.snapSync /\ s.pendingTakeSnapshot = board.pendingTakeSnapshot
        /\ BoardInv(s) /\ Past(s)
    BY <1>1, <1>2, <1>3, <1>4, StartedInv
  <1>6. board' = Schedule(s)
    BY <1>1, <1>4
  <1>7. /\ board' \in BoardType /\ BoardInv(board') /\ Alike(s, board')
        /\ board'.pendingTakeSnapshot = s.pendingTakeSnapshot
        /\ Len(board'.snapSync) = Len(s.snapSync) + 1
    BY <1>5, <1>6, ScheduleInv
  <1>8. ~board'.pendingTakeSnapshot /\ Len(board'.snapSync) = 1
    <2>1. Len(<<>>) + 1 = 1
      OBVIOUS
    <2>. QED  BY <1>3, <1>5, <1>7, <2>1
  <1>9. /\ Past(board') /\ board'.now = board.now /\ board'.insEnd = board.insEnd
        /\ board'.collecting
    BY <1>5, <1>7 DEF Past, Alike
  <1>. QED  BY <1>1, <1>2, <1>7, <1>8, <1>9, MainStep DEF OnePlanned

\* At most one point to remove: none is left.
LEMMA UnscheduledIs ==
    ASSUME NEW s \in Seq(Nat), Len(s) <= 1
    PROVE  Unscheduled(s) = <<>>
  BY DEF Unscheduled

LEMMA StopInv ==
    ASSUME RevInv, Stop
    PROVE  RevInv'
  <1>1. /\ pc = "main" /\ UNCHANGED <<file, trip, pc, nextInput>>
        /\ board' = [board EXCEPT !.snapSync = Unscheduled(@), !.inputSync = Unscheduled(@),
                                  !.events = <<>>, !.chunks = NoChunks, !.replayIndex = 0,
                                  !.collecting = FALSE, !.pendingTakeSnapshot = FALSE]
    BY DEF Stop
  <1>2. /\ board \in BoardType /\ BoardInv(board) /\ nextInput \in Nat \ {0}
        /\ OnePlanned(board)
    BY <1>1, MainIs
  <1>3. Unscheduled(board.snapSync) = <<>>
    <2>1. board.snapSync \in Seq(Nat)
      BY <1>2, BoardIs
    <2>2. Len(board.snapSync) <= 1
      BY <1>2 DEF OnePlanned
    <2>. QED  BY <2>1, <2>2, UnscheduledIs
  <1>4. Unscheduled(board.inputSync) = <<>>
    <2>1. board.inputSync \in Seq(Nat)
      BY <1>2, BoardIs
    <2>2. PICK x : board.inputSync = <<x>> \/ board.inputSync = <<>>
      BY <1>2 DEF BoardInv, Planned
    <2>3. Len(board.inputSync) <= 1
      <3>1. Len(<<x>>) <= 1 /\ Len(<<>>) <= 1
        OBVIOUS
      <3>. QED  BY <2>2, <3>1
    <2>. QED  BY <2>1, <2>3, UnscheduledIs
  <1>5. PICK none \in Seq(Nat), no \in Seq(Entry) : none = <<>> /\ no = <<>>
    <2>1. <<>> \in Seq(Nat) /\ <<>> \in Seq(Entry)
      OBVIOUS
    <2>. QED  BY <2>1, Zenon
  <1>6. board' = [board EXCEPT !.snapSync = none, !.inputSync = none,
                               !.events = no, !.chunks = NoChunks, !.replayIndex = 0,
                               !.collecting = FALSE, !.pendingTakeSnapshot = FALSE]
    BY <1>1, <1>3, <1>4, <1>5
  <1>7. NoChunks \in Snapshots
    BY DEF NoChunks, Snapshots
  <1>8. board' \in BoardType
    BY <1>2, <1>6, <1>7 DEF BoardType
  <1>9. /\ board'.snapSync = <<>> /\ board'.inputSync = <<>> /\ board'.events = <<>>
        /\ board'.chunks = NoChunks /\ board'.replayIndex = 0 /\ ~board'.collecting
        /\ ~board'.pendingTakeSnapshot /\ board'.now = board.now /\ board'.insEnd = board.insEnd
    BY <1>2, <1>5, <1>6 DEF BoardType
  <1>10. board'.now <= board'.insEnd /\ board'.insEnd <= MaxTime + MaxStep
    BY <1>2, <1>9 DEF BoardInv
  <1>11. BoardInv(board') /\ Past(board')
    BY <1>8, <1>9, <1>10, NothingInv
  <1>12. Len(board'.snapSync) = 0
    BY <1>9
  <1>. QED  BY <1>1, <1>2, <1>8, <1>9, <1>11, <1>12, MainStep DEF OnePlanned

---------------------------------------------------------------------------
\* Saving a replay.

\* Some of the snapshots, the first one among them.
Selected(events, chunks, kept) ==
    /\ chunks \in Snapshots /\ kept \in Snapshots /\ History(events, chunks)
    /\ 0 \in Present(kept) /\ Present(kept) \subseteq Present(chunks)
    /\ \A i \in Present(kept) : kept[i] = chunks[i]

LEMMA HistorySelected ==
    ASSUME NEW events, NEW chunks, NEW kept, Selected(events, chunks, kept)
    PROVE  History(events, kept)
  BY DEF Selected, History

LEMMA WithEndSame ==
    ASSUME NEW b \in BoardType, NEW j \in 1..Len(b.events)
    PROVE  WithEnd(b)[j] = b.events[j]
  <1>1. PICK ev \in Seq(Entry), e \in Entry : ev = b.events /\ e = [time |-> b.now, input |-> EndLog]
    BY BoardIs DEF Entry, EndLog
  <1>2. Append(ev, e)[j] = ev[j]
    BY <1>1
  <1>3. WithEnd(b) = ev \/ WithEnd(b) = Append(ev, e)
    BY <1>1 DEF WithEnd
  <1>. QED  BY <1>1, <1>2, <1>3

LEMMA SaveReplayInv ==
    ASSUME RevInv, SaveReplay
    PROVE  RevInv'
  <1>1. /\ board \in BoardType /\ BoardInv(board) /\ board.collecting
        /\ UNCHANGED <<board, viewOnly, trip, nextInput, pc>>
    BY DEF RevInv, RevTypes, SaveReplay
  <1>2. PICK ev \in Seq(Entry), chunks \in Snapshots : ev = board.events /\ chunks = board.chunks
    BY <1>1, BoardIs
  <1>3. History(ev, chunks) /\ 0 \in Present(chunks) /\ First(chunks) = 0
    BY <1>1, <1>2, FirstIsZero DEF BoardInv, Recording, History
  <1>4. PICK S \in SUBSET Present(chunks) :
           /\ 0 \in S
           /\ Exact => \A i \in S : \A j \in 1..chunks[i].eventCount : ev[j].time < chunks[i].time
           /\ file' = [events |-> WithEnd(board), chunks |-> Only(chunks, S)]
    BY <1>2, <1>3 DEF SaveReplay, Exact
  <1>5. PICK kept \in Snapshots :
           /\ kept = Only(chunks, S) /\ Present(kept) = S
           /\ \A i \in S : kept[i] = chunks[i]
    <2>1. Present(chunks) \cap S = S
      OBVIOUS
    <2>2. /\ Only(chunks, S) \in Snapshots /\ Present(Only(chunks, S)) = S
          /\ \A i \in S : Only(chunks, S)[i] = chunks[i]
      BY <1>2, <2>1, OnlyPresent
    <2>. QED  BY <2>2
  <1>6. PICK events \in Seq(Entry) :
           /\ events = WithEnd(board) /\ Log(events) /\ HasEnd(events) /\ History(events, chunks)
    BY <1>1, <1>2, WithEndInv
  <1>7. Selected(events, chunks, kept)
    BY <1>4, <1>5, <1>6 DEF Selected
  <1>8. History(events, kept)
    BY <1>7, HistorySelected
  <1>9. ASSUME Exact, NEW i \in Present(kept), NEW j \in 1..kept[i].eventCount
        PROVE  events[j].time < kept[i].time
    <2>1. PICK c \in Nat : c = chunks[i].eventCount /\ c <= Len(ev) /\ kept[i] = chunks[i]
      <3>1. Fits(chunks[i], ev) /\ i \in Present(chunks)
        BY <1>3, <1>5 DEF History
      <3>2. chunks[i].eventCount \in Nat
        BY <3>1, PresentIs
      <3>. QED  BY <1>5, <3>1, <3>2 DEF Fits
    <2>2. j \in 1..c /\ j \in 1..Len(ev)
      BY <2>1
    <2>3. events[j] = ev[j]
      BY <1>1, <1>2, <1>6, <2>2, WithEndSame
    <2>4. ev[j].time < chunks[i].time
      BY <1>4, <1>5, <1>9, <2>1, <2>2
    <2>. QED  BY <2>1, <2>3, <2>4
  <1>10. file' = [events |-> events, chunks |-> kept]
    BY <1>4, <1>5, <1>6
  <1>11. file'.events = events /\ file'.chunks = kept
    BY <1>10
  <1>12. FileInv'
    BY <1>6, <1>8, <1>9, <1>11 DEF FileInv
  <1>13. RevTypes'
    BY <1>1, <1>10 DEF RevInv, RevTypes
  <1>14. TripInv' /\ OneSnapshotPlanned'
    BY <1>1 DEF RevInv, TripInv, OneSnapshotPlanned, Past
  <1>. QED  BY <1>1, <1>12, <1>13, <1>14 DEF RevInv

---------------------------------------------------------------------------
\* goTo()

LEMMA ClosestIs ==
    ASSUME NEW chunks \in Snapshots, 0 \in Present(chunks), NEW time \in Nat,
           chunks[0].time <= time
    PROVE  /\ Closest(chunks, time) \in Present(chunks)
           /\ chunks[Closest(chunks, time)].time <= time
  <1>1. PICK S : S = {i \in Present(chunks) : \A j \in Present(chunks) : j <= i => chunks[j].time <= time}
    OBVIOUS
  <1>2. PICK bound \in Nat : SeqNums = 0..bound
    <2>1. SeqNums \subseteq Nat /\ \A x \in Nat : x <= MaxTime + MaxStep => RoundHalfEven(x, Period) \in SeqNums
      BY SeqNumsNat
    <2>2. PICK last \in Nat, p \in Nat \ {0} : last = MaxTime + MaxStep /\ p = Period
      BY Bounds
    <2>3. last \div p + 1 \in Nat
      BY DivMod
    <2>. QED  BY <2>2, <2>3 DEF SeqNums
  <1>3. S \subseteq Nat /\ \A i \in S : i <= bound
    BY <1>1, <1>2 DEF Present
  <1>4. 0 \in S
    <2>1. ASSUME NEW j \in Present(chunks), j <= 0 PROVE chunks[j].time <= time
      <3>1. j \in Nat
        BY PresentIs
      <3>2. j = 0
        BY <2>1, <3>1
      <3>. QED  BY <3>2
    <2>. QED  BY <1>1, <2>1
  <1>5. Max(S) \in S
    <2>1. S # {}
      BY <1>4
    <2>. QED  BY <1>2, <1>3, <2>1, MaxOfNats
  <1>6. Closest(chunks, time) = Max(S)
    BY <1>1 DEF Closest
  <1>7. PICK i \in S : i = Closest(chunks, time)
    BY <1>5, <1>6
  <1>8. i \in Nat /\ i \in Present(chunks) /\ (i <= i => chunks[i].time <= time)
    BY <1>1, <1>3
  <1>. QED  BY <1>7, <1>8

\* The warp stops between the first snapshot and the destination.
Travels(t, first) ==
    /\ t \in [target : 0..MaxTime, preTarget : Int, last : Int, goal : Int, reused : BOOLEAN]
    /\ t.preTarget \in Nat /\ first <= t.preTarget /\ t.preTarget <= t.target /\ ~t.reused

LEMMA TripToIs ==
    ASSUME NEW target \in 0..MaxTime, NEW noVideo \in BOOLEAN, NEW chunks, 0 \in Present(chunks),
           NEW first \in Nat, first = chunks[0].time, first <= MaxTime,
           NEW end \in Nat, first <= end,
           NEW t, t = TripTo(target, noVideo, chunks, end)
    PROVE  Travels(t, first)
  <1>1. First(chunks) = 0
    BY FirstIsZero
  <1>2. target \in Nat /\ target <= MaxTime /\ MaxTime \in Nat
    BY Bounds
  <1>3. PICK from \in Nat : from = Max({target, first}) /\ from <= MaxTime /\ first <= from
    <2>1. Max({target, first}) = IF target >= first THEN target ELSE first
      BY <1>2, MaxOfTwo
    <2>. QED  BY <1>2, <2>1
  <1>4. PICK to \in Nat : to = Min({from, end}) /\ to <= MaxTime /\ first <= to
    <2>1. from \in Int /\ end \in Int
      BY <1>3
    <2>2. Min({from, end}) = IF from <= end THEN from ELSE end
      BY <2>1, MinOfTwo, Zenon
    <2>. QED  BY <1>2, <1>3, <2>2
  <1>5. PICK delta \in Nat : delta = IF noVideo THEN 0 ELSE PreDelta
    BY Bounds
  <1>6. PICK pre \in Nat : pre = (IF to - first > delta THEN to - delta ELSE first)
                           /\ first <= pre /\ pre <= to
    BY <1>4, <1>5
  <1>7. t = [NoTrip EXCEPT !.target = to, !.preTarget = pre]
    BY <1>1, <1>3, <1>4, <1>5, <1>6 DEF TripTo
  <1>8. t = [target |-> to, preTarget |-> pre, last |-> 0, goal |-> 0, reused |-> FALSE]
    BY <1>7 DEF NoTrip
  <1>9. to \in 0..MaxTime
    BY <1>2, <1>4
  <1>. QED  BY <1>6, <1>8, <1>9 DEF Travels

LEMMA EndIsLate ==
    ASSUME NEW events \in Seq(Entry), HasEnd(events), NEW chunks, History(events, chunks),
           NEW first \in Nat, first = chunks[0].time
    PROVE  Last(events).time \in Nat /\ first <= Last(events).time
  <1>1. PICK len \in Nat : len = Len(events) /\ len > 0
    BY EndIsLast
  <1>2. len \in 1..Len(events) /\ Last(events) = events[len]
    BY <1>1 DEF Last
  <1>3. events[len].time \in Nat
    BY <1>2, EntryIs
  <1>4. \A j \in 1..Len(events) : IF j <= 0 THEN events[j].time <= first ELSE events[j].time >= first
    BY DEF History, Fits
  <1>5. events[len].time >= first
    BY <1>1, <1>2, <1>4
  <1>. QED  BY <1>2, <1>3, <1>5

LEMMA EndTimeIs ==
    ASSUME NEW b \in BoardType, BoardInv(b), b.collecting,
           NEW first \in Nat, first = b.chunks[0].time
    PROVE  EndTime(b) \in Nat /\ first <= EndTime(b)
  <1>1. PICK ev \in Seq(Entry) : ev = b.events /\ History(ev, b.chunks)
    BY BoardIs DEF BoardInv, Recording
  <1>2. CASE HasEnd(ev)
    <2>1. Last(ev).time \in Nat /\ first <= Last(ev).time
      BY <1>1, <1>2, EndIsLate
    <2>. QED  BY <1>1, <1>2, <2>1 DEF EndTime
  <1>3. CASE ~HasEnd(ev)
    BY <1>1, <1>3, BoardIs DEF EndTime, BoardInv, Recording
  <1>. QED  BY <1>2, <1>3

\* Stopping a replay keeps every snapshot up to now.
LEMMA StopReplayKeeps ==
    ASSUME NEW b \in BoardType, NEW keys, NEW r, r = StopReplay(b, keys),
           NEW i \in Present(b.chunks), ~Replaying(b) \/ b.chunks[i].time <= b.now
    PROVE  r.chunks[i] = b.chunks[i]
  <1>1. CASE ~Replaying(b)
    BY <1>1 DEF StopReplay
  <1>2. CASE Replaying(b)
    <2>1. PICK chunks : chunks = Only(b.chunks, {k \in SeqNums : b.chunks[k].time <= b.now})
      OBVIOUS
    <2>2. PICK s : s = [b EXCEPT !.inputSync = Unscheduled(b.inputSync),
                                 !.events = SubSeq(b.events, 1, b.replayIndex), !.chunks = chunks]
      OBVIOUS
    <2>3. r = Record(s, keys)
      BY <1>2, <2>1, <2>2 DEF StopReplay
    <2>4. PICK events, index, received :
             r = [s EXCEPT !.events = events, !.replayIndex = index, !.received = received]
      BY <2>3 DEF Record
    <2>5. i \in SeqNums /\ b.chunks[i].time <= b.now
      BY <1>2 DEF Present
    <2>6. chunks[i] = b.chunks[i]
      BY <2>1, <2>5 DEF Only
    <2>7. s.chunks = chunks
      BY <2>2 DEF BoardType
    <2>8. r.chunks = chunks
      BY <2>2, <2>4, <2>7 DEF BoardType
    <2>. QED  BY <2>6, <2>8
  <1>. QED  BY <1>1, <1>2

LEMMA NewInputKeeps ==
    ASSUME NEW b \in BoardType, BoardInv(b), Past(b), b.collecting,
           NEW keys \in Seq(Nat), \A i \in 1..Len(keys) : keys[i] # EndLog,
           NEW input \in Nat, NEW r, r = DistributeNew(b, keys, input),
           NEW i \in Present(b.chunks), viewOnly \/ ~Replaying(b) \/ b.chunks[i].time <= b.now
    PROVE  i \in Present(r.chunks) /\ r.chunks[i] = b.chunks[i]
  <1>1. i \in SeqNums /\ b.chunks[i] # NoChunk
    BY DEF Present
  <1>2. r.chunks[i] = b.chunks[i]
    <2>1. CASE Replaying(b) /\ viewOnly
      BY <2>1 DEF DistributeNew
    <2>2. CASE ~(Replaying(b) /\ viewOnly)
      <3>1. PICK s : s = StopReplay(b, keys)
        OBVIOUS
      <3>2. s \in BoardType
        <4>1. Stoppable(b)
          BY StoppableIs
        <4>. QED  BY <3>1, <4>1, StopReplayLive
      <3>3. s.chunks[i] = b.chunks[i]
        BY <2>2, <3>1, StopReplayKeeps
      <3>4. PICK one \in Seq(Nat) : one = <<input>>
        <4>1. <<input>> \in Seq(Nat)
          OBVIOUS
        <4>. QED  BY <4>1, Zenon
      <3>5. r = Record(s, one)
        BY <2>2, <3>1, <3>4 DEF DistributeNew
      <3>6. Recorded(s, one, r)
        BY <3>2, <3>5, RecordEffect
      <3>. QED  BY <3>3, <3>6 DEF Recorded
    <2>. QED  BY <2>1, <2>2
  <1>. QED  BY <1>1, <1>2 DEF Present

\* The trip begins on a board made of a snapshot.
LEMMA DepartInv ==
    ASSUME RevInv, NEW events, NEW chunks, NEW i, Restorable(events, chunks, i),
           NEW first \in Nat, first = chunks[0].time,
           NEW t, Travels(t, first), chunks[i].time <= t.preTarget,
           board' = Restored(chunks[i], events, chunks),
           trip' = [t EXCEPT !.last = chunks[i].time],
           pc' = "warp", file' = file, nextInput' \in Nat \ {0}
    PROVE  RevInv' /\ board'.replayIndex < Len(board'.events)
  <1>1. /\ board' \in BoardType /\ BoardInv(board') /\ Past(board')
        /\ board'.collecting /\ ~board'.pendingTakeSnapshot /\ Len(board'.snapSync) = 1
        /\ board'.now = chunks[i].time /\ board'.insEnd = chunks[i].time /\ board'.chunks = chunks
        /\ board'.replayIndex < Len(board'.events)
    BY RestoredInv
  <1>2. PICK time \in Nat : time = chunks[i].time /\ first <= time
    <2>1. chunks \in Snapshots /\ i \in Present(chunks) /\ History(events, chunks)
      BY DEF Restorable
    <2>2. chunks[i].time \in Nat /\ first <= chunks[i].time
      BY <2>1, PresentIs DEF History
    <2>. QED  BY <2>2
  <1>3. trip' = [t EXCEPT !.last = time]
    BY <1>2
  <1>4. /\ trip' \in [target : 0..MaxTime, preTarget : Int, last : Int, goal : Int, reused : BOOLEAN]
        /\ trip'.target = t.target /\ trip'.preTarget = t.preTarget /\ trip'.last = time
        /\ ~trip'.reused
    BY <1>3 DEF Travels
  <1>5. time < t.target + MaxStep
    <2>1. PICK pre \in Nat, target \in Nat : pre = t.preTarget /\ target = t.target /\ pre <= target
      BY DEF Travels
    <2>. QED  BY <1>2, <2>1, Bounds
  <1>6. TripInv'
    BY <1>1, <1>2, <1>4, <1>5 DEF TripInv, Travels
  <1>7. OneSnapshotPlanned'
    BY <1>1, <1>4 DEF OneSnapshotPlanned
  <1>8. RevTypes' /\ FileInv'
    BY <1>1, <1>4 DEF RevInv, RevTypes, FileInv
  <1>. QED  BY <1>1, <1>6, <1>7, <1>8 DEF RevInv

LEMMA GoToOnThisBoardInv ==
    ASSUME Usual, RevInv, pc = "main", board.collecting, NEW t, NEW chunk,
           NEW first \in Nat, first = board.chunks[0].time, Travels(t, first),
           FromHere(t, chunk), GoToOnThisBoard(t), pc' = "warp", UNCHANGED file
    PROVE  RevInv'
  <1>1. /\ ~board.pendingTakeSnapshot /\ board' = [board EXCEPT !.snapSync = Unscheduled(@)]
        /\ trip' = [t EXCEPT !.last = board.now, !.reused = TRUE] /\ nextInput' = nextInput
    BY DEF GoToOnThisBoard, Usual
  <1>2. /\ board \in BoardType /\ BoardInv(board) /\ Past(board) /\ board.now = board.insEnd
        /\ nextInput \in Nat \ {0} /\ OnePlanned(board)
    BY MainIs
  <1>3. Unscheduled(board.snapSync) = <<>>
    <2>1. board.snapSync \in Seq(Nat)
      BY <1>2, BoardIs
    <2>2. Len(board.snapSync) <= 1
      BY <1>2 DEF OnePlanned
    <2>. QED  BY <2>1, <2>2, UnscheduledIs
  <1>4. PICK none \in Seq(Nat) : none = <<>>
    <2>1. <<>> \in Seq(Nat)
      OBVIOUS
    <2>. QED  BY <2>1, Zenon
  <1>5. board' = [board EXCEPT !.snapSync = none]
    BY <1>1, <1>3, <1>4
  <1>6. /\ board' \in BoardType /\ Alike(board, board') /\ board'.snapSync = <<>>
        /\ ~board'.pendingTakeSnapshot
    BY <1>1, <1>2, <1>4, <1>5 DEF BoardType, Alike
  <1>7. Len(board'.snapSync) = 0
    BY <1>6
  <1>8. PlannedLater(board, board')
    BY <1>6, <1>7 DEF PlannedLater
  <1>9. BoardInv(board') /\ Past(board')
    BY <1>2, <1>6, <1>8, AlikeInv
  <1>10. PICK now \in Nat : now = board.now /\ now <= t.preTarget /\ first <= now
    BY <1>2, BoardIs DEF FromHere, BoardInv, Recording
  <1>11. trip' = [t EXCEPT !.last = now, !.reused = TRUE]
    BY <1>1, <1>10
  <1>12. /\ trip' \in [target : 0..MaxTime, preTarget : Int, last : Int, goal : Int, reused : BOOLEAN]
         /\ trip'.target = t.target /\ trip'.preTarget = t.preTarget /\ trip'.last = now
         /\ trip'.reused
    <2>1. t \in [target : 0..MaxTime, preTarget : Int, last : Int, goal : Int, reused : BOOLEAN]
      BY DEF Travels
    <2>2. now \in Int
      BY <1>10
    <2>3. trip' \in [target : 0..MaxTime, preTarget : Int, last : Int, goal : Int, reused : BOOLEAN]
      BY <1>11, <2>1, <2>2
    <2>4. trip'.reused = TRUE
      BY <1>11, <2>1
    <2>5. trip'.target = t.target /\ trip'.preTarget = t.preTarget /\ trip'.last = now
      BY <1>11, <2>1
    <2>. QED  BY <2>3, <2>4, <2>5
  <1>13. now < t.target + MaxStep
    <2>1. PICK pre \in Nat, target \in Nat : pre = t.preTarget /\ target = t.target /\ pre <= target
      BY DEF Travels
    <2>. QED  BY <1>10, <2>1, Bounds
  <1>14. TripInv'
    BY <1>2, <1>6, <1>9, <1>10, <1>12, <1>13 DEF TripInv, Travels, Alike
  <1>15. OneSnapshotPlanned'
    BY <1>6, <1>7, <1>12 DEF OneSnapshotPlanned
  <1>16. RevTypes' /\ FileInv'
    BY <1>1, <1>2, <1>6, <1>12 DEF RevInv, RevTypes, FileInv
  <1>. QED  BY <1>9, <1>14, <1>15, <1>16 DEF RevInv

LEMMA GoToOnNewBoardInv ==
    ASSUME Usual, RevInv, pc = "main", board.collecting, NEW t, NEW i \in Present(board.chunks),
           NEW first \in Nat, first = board.chunks[0].time, Travels(t, first),
           board.chunks[i].time <= t.preTarget,
           GoToOnNewBoard(t, board.chunks[i]), pc' = "warp", UNCHANGED file
    PROVE  RevInv' /\ board'.replayIndex < Len(board'.events)
  <1>1. PICK chunk : chunk = board.chunks[i]
    OBVIOUS
  <1>2. /\ board \in BoardType /\ BoardInv(board) /\ Past(board) /\ nextInput \in Nat \ {0}
    BY MainIs
  <1>3. PICK b \in BoardType :
           /\ BoardInv(b) /\ b.collecting /\ b.chunks[0] = board.chunks[0]
           /\ i \in Present(b.chunks) /\ b.chunks[i] = chunk
           /\ board' = Restored(chunk, WithEnd(b), b.chunks)
           /\ trip' = [t EXCEPT !.last = chunk.time] /\ nextInput' \in Nat \ {0}
    <2>1. CASE /\ board' = Restored(chunk, WithEnd(board), board.chunks)
               /\ trip' = [t EXCEPT !.last = chunk.time] /\ UNCHANGED nextInput
      BY <1>1, <1>2, <2>1
    <2>2. ASSUME viewOnly \/ ~Replaying(board) \/ chunk.time <= board.now,
                 NEW k \in 0..1, Use(k + 1), NEW b, b = DistributeNew(board, Fresh(k), nextInput + k),
                 board' = Restored(chunk, WithEnd(b), b.chunks),
                 trip' = [t EXCEPT !.last = chunk.time]
          PROVE  /\ b \in BoardType /\ BoardInv(b) /\ b.collecting /\ b.chunks[0] = board.chunks[0]
                 /\ i \in Present(b.chunks) /\ b.chunks[i] = chunk /\ nextInput' \in Nat \ {0}
      <3>1. PICK keys \in Seq(Nat) : keys = Fresh(k) /\ \A n \in 1..Len(keys) : keys[n] # EndLog
        BY <1>2, FreshIs
      <3>2. PICK input \in Nat : input = nextInput + k /\ input # EndLog
        <4>1. nextInput + k \in Nat /\ nextInput + k # 0
          BY <1>2
        <4>. QED  BY <4>1 DEF EndLog
      <3>3. b = DistributeNew(board, keys, input)
        BY <2>2, <3>1, <3>2
      <3>4. b \in BoardType /\ BoardInv(b) /\ Same(board, b)
        BY <1>2, <3>1, <3>2, <3>3, NewInputInv
      <3>5. i \in Present(b.chunks) /\ b.chunks[i] = board.chunks[i]
        BY <1>1, <1>2, <2>2, <3>1, <3>2, <3>3, NewInputKeeps
      <3>6. nextInput' \in Nat \ {0}
        BY <1>2, <2>2 DEF Use
      <3>. QED  BY <1>1, <3>4, <3>5, <3>6 DEF Same
    <2>3. CASE /\ viewOnly \/ ~Replaying(board) \/ chunk.time <= board.now
               /\ \E k \in 0..1 :
                     /\ Use(k + 1)
                     /\ board' = Restored(chunk, WithEnd(DistributeNew(board, Fresh(k), nextInput + k)),
                                          DistributeNew(board, Fresh(k), nextInput + k).chunks)
                     /\ trip' = [t EXCEPT !.last = chunk.time]
      <3>1. PICK k \in 0..1 :
               /\ Use(k + 1)
               /\ board' = Restored(chunk, WithEnd(DistributeNew(board, Fresh(k), nextInput + k)),
                                    DistributeNew(board, Fresh(k), nextInput + k).chunks)
               /\ trip' = [t EXCEPT !.last = chunk.time]
        BY <2>3
      <3>2. PICK b : b = DistributeNew(board, Fresh(k), nextInput + k)
        OBVIOUS
      <3>3. board' = Restored(chunk, WithEnd(b), b.chunks)
        BY <3>1, <3>2
      <3>4. /\ b \in BoardType /\ BoardInv(b) /\ b.collecting /\ b.chunks[0] = board.chunks[0]
            /\ i \in Present(b.chunks) /\ b.chunks[i] = chunk /\ nextInput' \in Nat \ {0}
        BY <2>2, <2>3, <3>1, <3>2, <3>3
      <3>. QED  BY <3>1, <3>3, <3>4
    <2>. QED  BY <1>1, <2>1, <2>3 DEF GoToOnNewBoard, Usual
  <1>4. PICK events, chunks : events = WithEnd(b) /\ chunks = b.chunks
    OBVIOUS
  <1>5. /\ events \in Seq(Entry) /\ Log(events) /\ HasEnd(events) /\ History(events, chunks)
        /\ chunks \in Snapshots
    BY <1>3, <1>4, WithEndInv, BoardIs
  <1>6. chunks[i].time <= MaxTime
    <2>1. chunks[i].time \in Nat /\ chunks[i].time <= t.preTarget
      BY <1>1, <1>3, <1>4, <1>5, PresentIs
    <2>2. PICK pre \in Nat, target \in 0..MaxTime : pre = t.preTarget /\ target = t.target /\ pre <= target
      BY DEF Travels
    <2>. QED  BY <2>1, <2>2, Bounds
  <1>7. Restorable(events, chunks, i)
    BY <1>3, <1>4, <1>5, <1>6 DEF Restorable
  <1>8. first = chunks[0].time /\ chunks[i].time <= t.preTarget
    BY <1>1, <1>3, <1>4
  <1>9. board' = Restored(chunks[i], events, chunks) /\ trip' = [t EXCEPT !.last = chunks[i].time]
    BY <1>3, <1>4
  <1>. QED  BY <1>3, <1>7, <1>8, <1>9, DepartInv

LEMMA GoToInv ==
    ASSUME Usual, RevInv, NEW target \in 0..MaxTime, NEW noVideo \in BOOLEAN, GoTo(target, noVideo)
    PROVE  /\ RevInv' /\ pc = "main" /\ pc' = "warp"
           /\ ~trip'.reused => board'.replayIndex < Len(board'.events)
  <1>1. pc = "main" /\ pc' = "warp" /\ board.collecting /\ UNCHANGED file
    BY DEF GoTo
  <1>2. board \in BoardType /\ BoardInv(board)
    BY <1>1, MainIs
  <1>3. PICK chunks \in Snapshots : chunks = board.chunks
    BY <1>2, BoardIs
  <1>4. PICK first \in Nat : first = chunks[0].time /\ first <= MaxTime /\ 0 \in Present(chunks)
    BY <1>1, <1>2, <1>3, PresentIs DEF BoardInv, Recording, History
  <1>5. PICK end \in Nat : end = EndTime(board) /\ first <= end
    BY <1>1, <1>2, <1>3, <1>4, EndTimeIs
  <1>6. PICK t : t = TripTo(target, noVideo, chunks, end) /\ Travels(t, first)
    BY <1>4, <1>5, TripToIs
  <1>7. PICK i \in Present(chunks) : i = Closest(chunks, t.preTarget) /\ chunks[i].time <= t.preTarget
    <2>1. PICK pre \in Nat : pre = t.preTarget /\ first <= pre
      BY <1>6 DEF Travels
    <2>. QED  BY <1>4, <2>1, ClosestIs
  <1>8. IF FromHere(t, chunks[i]) THEN GoToOnThisBoard(t) ELSE GoToOnNewBoard(t, chunks[i])
    BY <1>3, <1>5, <1>6, <1>7, Zenon DEF GoTo
  <1>9. CASE FromHere(t, chunks[i])
    <2>1. GoToOnThisBoard(t)
      BY <1>8, <1>9
    <2>2. RevInv'
      BY <1>1, <1>3, <1>4, <1>6, <1>9, <2>1, GoToOnThisBoardInv
    <2>3. trip'.reused
      BY <1>6, <2>1 DEF GoToOnThisBoard, Travels
    <2>. QED  BY <1>1, <2>2, <2>3
  <1>10. CASE ~FromHere(t, chunks[i])
    <2>1. GoToOnNewBoard(t, board.chunks[i])
      BY <1>3, <1>8, <1>10
    <2>2. RevInv' /\ board'.replayIndex < Len(board'.events)
      BY <1>1, <1>3, <1>4, <1>6, <1>7, <2>1, GoToOnNewBoardInv
    <2>. QED  BY <1>1, <2>2
  <1>. QED  BY <1>9, <1>10

---------------------------------------------------------------------------
\* Loading a replay: a snapshot is given the count of the events before its
\* time, which may be fewer than it was saved with, and divides the log too.

Countable(events, c) ==
    /\ events \in Seq(Entry) /\ Log(events) /\ HasEnd(events)
    /\ c \in Snapshot /\ Fits(c, events)

\* The events before "time" are the first n of the log.
LEMMA EventsBefore ==
    ASSUME NEW events \in Seq(Entry), Log(events), NEW time \in Nat
    PROVE  /\ LoadedCount(events, time) \in 0..Len(events)
           /\ \A j \in 1..Len(events) : events[j].time < time <=> j <= LoadedCount(events, time)
  <1>1. PICK len \in Nat : len = Len(events) /\ DOMAIN events = 1..len
    OBVIOUS
  <1>2. PICK S : S = {k \in 1..len : \A j \in 1..k : events[j].time < time}
    OBVIOUS
  <1>3. \A j \in 1..len : events[j].time \in Nat
    BY <1>1, EntryIs
  <1>4. ASSUME NEW j \in 1..len PROVE j \in S <=> events[j].time < time
    <2>1. j \in 1..j
      OBVIOUS
    <2>2. ASSUME events[j].time < time, NEW k \in 1..j PROVE events[k].time < time
      <3>1. k \in 1..len /\ k <= j
        OBVIOUS
      <3>2. events[k].time <= events[j].time
        BY <1>1, <3>1 DEF Log
      <3>. QED  BY <1>3, <2>2, <3>1, <3>2
    <2>. QED  BY <1>2, <2>1, <2>2
  <1>5. PICK n \in 0..len : S = 1..n
    <2>1. CASE S = {}
      <3>1. S = 1..0 /\ 0 \in 0..len
        BY <2>1
      <3>. QED  BY <3>1
    <2>2. CASE S # {}
      <3>1. S \subseteq Nat /\ \A x \in S : x <= len
        BY <1>2
      <3>2. PICK m \in S : \A y \in S : y <= m
        BY <2>2, <3>1, MaxOfNats
      <3>3. m \in 1..len /\ \A j \in 1..m : events[j].time < time
        BY <1>2
      <3>4. ASSUME NEW j \in 1..m PROVE j \in S
        BY <1>4, <3>3
      <3>5. ASSUME NEW k \in S PROVE k \in 1..m
        <4>1. k \in 1..len
          BY <1>2
        <4>2. k <= m
          BY <3>2
        <4>. QED  BY <3>3, <4>1, <4>2
      <3>6. S = 1..m
        BY <3>4, <3>5
      <3>7. m \in 0..len
        BY <3>3
      <3>. QED  BY <3>6, <3>7
    <2>. QED  BY <2>1, <2>2
  <1>6. Cardinality(1..n) = n
    <2>1. 1 \in Int /\ n \in Int
      OBVIOUS
    <2>2. Cardinality(1..n) = IF 1 > n THEN 0 ELSE n - 1 + 1
      BY <2>1, FS_Interval, Zenon
    <2>. QED  BY <2>2
  <1>7. LoadedCount(events, time) = n
    BY <1>1, <1>2, <1>5, <1>6 DEF LoadedCount
  <1>8. \A j \in 1..len : j \in S <=> j <= n
    BY <1>5
  <1>. QED  BY <1>1, <1>4, <1>5, <1>7, <1>8

LEMMA LoadedCountIs ==
    ASSUME NEW events, NEW c, Countable(events, c),
           NEW n, n = LoadedCount(events, c.time)
    PROVE  /\ n \in Nat /\ n <= c.eventCount
           /\ [c EXCEPT !.eventCount = n] \in Snapshot
           /\ Fits([c EXCEPT !.eventCount = n], events)
           /\ (\A j \in 1..c.eventCount : events[j].time < c.time) => n = c.eventCount
  <1>1. PICK ev \in Seq(Entry), saved \in Nat, len \in Nat, time \in Nat :
           ev = events /\ saved = c.eventCount /\ len = Len(ev) /\ time = c.time
    BY DEF Countable, Snapshot
  <1>2. /\ saved < len
        /\ \A j \in 1..len : IF j <= saved THEN ev[j].time <= time ELSE ev[j].time >= time
    BY <1>1 DEF Countable, Fits
  <1>3. n \in 0..len /\ \A j \in 1..len : ev[j].time < time <=> j <= n
    BY <1>1, EventsBefore DEF Countable
  <1>4. \A j \in 1..len : ev[j].time \in Nat
    BY <1>1, EntryIs
  <1>5. n \in Nat /\ n <= saved
    <2>1. CASE n > saved
      <3>1. n \in 1..len /\ ~(n <= saved) /\ n <= n
        BY <1>3, <2>1
      <3>2. ev[n].time < time /\ ev[n].time >= time /\ ev[n].time \in Nat
        BY <1>2, <1>3, <1>4, <3>1
      <3>. QED  BY <3>2
    <2>. QED  BY <1>3, <2>1
  <1>6. PICK d : d = [c EXCEPT !.eventCount = n]
    OBVIOUS
  <1>7. d \in Snapshot /\ d.time = time /\ d.eventCount = n
    BY <1>1, <1>5, <1>6 DEF Countable, Snapshot
  <1>8. \A j \in 1..len : IF j <= n THEN ev[j].time <= time ELSE ev[j].time >= time
    BY <1>3, <1>4
  <1>9. Fits(d, events)
    <2>1. n <= len /\ n < len
      BY <1>2, <1>5
    <2>. QED  BY <1>1, <1>7, <1>8, <2>1 DEF Fits
  <1>10. ASSUME \A j \in 1..saved : ev[j].time < time PROVE n = saved
    <2>1. CASE n < saved
      <3>1. saved \in 1..saved /\ saved \in 1..len /\ ~(saved <= n)
        BY <1>2, <1>5, <2>1
      <3>. QED  BY <1>3, <1>10, <3>1
    <2>. QED  BY <1>5, <2>1
  <1>. QED  BY <1>1, <1>5, <1>6, <1>7, <1>9, <1>10

\* The snapshots as loadReplay() makes them of the file.
LoadedChunks(events, chunks) ==
    [i \in SeqNums |->
        IF chunks[i] = NoChunk THEN chunks[i]
        ELSE [chunks[i] EXCEPT !.eventCount = LoadedCount(events, chunks[i].time)]]

LEMMA LoadedHistory ==
    ASSUME NEW events \in Seq(Entry), NEW chunks \in Snapshots,
           Log(events), HasEnd(events), History(events, chunks),
           Exact => \A i \in Present(chunks) : \A j \in 1..chunks[i].eventCount :
                       events[j].time < chunks[i].time,
           NEW loaded, loaded = LoadedChunks(events, chunks)
    PROVE  loaded \in Snapshots /\ History(events, loaded)
  <1>1. ASSUME NEW i \in Present(chunks)
        PROVE  /\ loaded[i] \in Snapshot /\ loaded[i].time = chunks[i].time
               /\ loaded[i].received = chunks[i].received
               /\ loaded[i].eventCount <= chunks[i].eventCount
               /\ Fits(loaded[i], events)
               /\ Exact => loaded[i].eventCount = chunks[i].eventCount
    <2>1. PICK c \in Snapshot : c = chunks[i] /\ i \in SeqNums /\ chunks[i] # NoChunk
      BY PresentIs DEF Present
    <2>2. PICK n : n = LoadedCount(events, c.time)
      OBVIOUS
    <2>3. Countable(events, c)
      BY <2>1 DEF Countable, History
    <2>4. PICK d : d = [c EXCEPT !.eventCount = n]
      OBVIOUS
    <2>5. /\ n \in Nat /\ n <= c.eventCount /\ d \in Snapshot /\ Fits(d, events)
          /\ (\A j \in 1..c.eventCount : events[j].time < c.time) => n = c.eventCount
      BY <2>2, <2>3, <2>4, LoadedCountIs
    <2>6. loaded[i] = d
      BY <2>1, <2>2, <2>4 DEF LoadedChunks
    <2>7. d.time = c.time /\ d.received = c.received /\ d.eventCount = n
      BY <2>4 DEF Snapshot
    <2>8. Exact => n = c.eventCount
      BY <2>1, <2>5
    <2>. QED  BY <2>1, <2>5, <2>6, <2>7, <2>8
  <1>2. \A i \in SeqNums \ Present(chunks) : loaded[i] = NoChunk
    BY DEF LoadedChunks, Present
  <1>3. NoChunk \notin Snapshot
    BY DEF NoChunk, Snapshot
  <1>4. loaded \in Snapshots
    <2>1. \A i \in SeqNums : loaded[i] \in Snapshot \cup {NoChunk}
      BY <1>1, <1>2
    <2>2. loaded = [i \in SeqNums |-> loaded[i]]
      BY DEF LoadedChunks
    <2>. QED  BY <2>1, <2>2 DEF Snapshots
  <1>5. Present(loaded) = Present(chunks)
    <2>1. Present(loaded) \subseteq SeqNums /\ Present(chunks) \subseteq SeqNums
      BY DEF Present
    <2>2. \A i \in SeqNums : i \in Present(loaded) <=> loaded[i] # NoChunk
      BY DEF Present
    <2>. QED  BY <1>1, <1>2, <1>3, <2>1, <2>2
  <1>6. 0 \in Present(chunks) /\ chunks[0].eventCount = 0 /\ chunks[0].time <= MaxTime
    BY DEF History
  <1>7. loaded[0].eventCount = 0
    <2>1. loaded[0].eventCount \in Nat /\ loaded[0].eventCount <= 0
      BY <1>1, <1>6 DEF Snapshot
    <2>. QED  BY <2>1
  <1>8. ASSUME NEW i \in Present(chunks)
        PROVE  /\ loaded[0].time <= loaded[i].time
               /\ i = RoundHalfEven(loaded[i].time - loaded[0].time, Period)
               /\ Exact => loaded[i].received = After(loaded[0].received, events, loaded[i].eventCount)
    <2>1. /\ chunks[0].time <= chunks[i].time
          /\ i = RoundHalfEven(chunks[i].time - chunks[0].time, Period)
          /\ Exact => chunks[i].received = After(chunks[0].received, events, chunks[i].eventCount)
      BY DEF History
    <2>. QED  BY <1>1, <1>6, <2>1
  <1>. QED  BY <1>1, <1>4, <1>5, <1>6, <1>7, <1>8 DEF History

LEMMA LoadReplayInv ==
    ASSUME RevInv, NEW target \in 0..MaxTime, NEW onlyView \in BOOLEAN, LoadReplay(target, onlyView)
    PROVE  RevInv' /\ board'.replayIndex < Len(board'.events)
  <1>1. pc = "main" /\ pc' = "warp" /\ file # NoFile /\ UNCHANGED <<file, nextInput>>
    BY Zenon DEF LoadReplay
  <1>2. PICK events \in Seq(Entry), saved \in Snapshots : events = file.events /\ saved = file.chunks
    BY DEF RevInv, RevTypes
  <1>3. /\ Log(events) /\ HasEnd(events) /\ History(events, saved)
        /\ Exact => \A i \in Present(saved) : \A j \in 1..saved[i].eventCount :
                       events[j].time < saved[i].time
    BY <1>1, <1>2 DEF RevInv, FileInv
  <1>4. PICK chunks \in Snapshots : chunks = LoadedChunks(events, saved) /\ History(events, chunks)
    BY <1>3, LoadedHistory
  <1>5. chunks = [i \in SeqNums |->
           IF saved[i] = NoChunk THEN saved[i]
           ELSE [saved[i] EXCEPT !.eventCount = LoadedCount(events, saved[i].time)]]
    BY <1>4 DEF LoadedChunks
  <1>6. PICK first \in Nat : first = chunks[0].time /\ first <= MaxTime /\ 0 \in Present(chunks)
    BY <1>4, PresentIs DEF History
  <1>7. PICK end \in Nat : end = Last(events).time /\ first <= end
    BY <1>3, <1>4, <1>6, EndIsLate
  <1>8. PICK t : t = TripTo(target, FALSE, chunks, end) /\ Travels(t, first)
    BY <1>6, <1>7, TripToIs
  <1>9. PICK i \in Present(chunks) : i = Closest(chunks, t.preTarget) /\ chunks[i].time <= t.preTarget
    <2>1. PICK pre \in Nat : pre = t.preTarget /\ first <= pre
      BY <1>8 DEF Travels
    <2>. QED  BY <1>6, <2>1, ClosestIs
  <1>10. /\ board' = Restored(chunks[i], events, chunks)
         /\ trip' = [t EXCEPT !.last = chunks[i].time]
    <2>1. PICK u : u = TripTo(target, FALSE, chunks, Last(events).time)
      OBVIOUS
    <2>2. /\ board' = Restored(chunks[Closest(chunks, u.preTarget)], events, chunks)
          /\ trip' = [u EXCEPT !.last = chunks[Closest(chunks, u.preTarget)].time]
      BY <1>2, <1>5, <2>1, Zenon DEF LoadReplay
    <2>3. u = t
      BY <1>7, <1>8, <2>1
    <2>. QED  BY <1>9, <2>2, <2>3
  <1>11. chunks[i].time <= MaxTime
    <2>1. chunks[i].time \in Nat
      BY PresentIs
    <2>2. PICK pre \in Nat, to \in 0..MaxTime : pre = t.preTarget /\ to = t.target /\ pre <= to
      BY <1>8 DEF Travels
    <2>. QED  BY <1>9, <2>1, <2>2, Bounds
  <1>12. Restorable(events, chunks, i)
    BY <1>3, <1>4, <1>11 DEF Restorable
  <1>13. nextInput' \in Nat \ {0}
    BY <1>1 DEF RevInv, RevTypes
  <1>. QED  BY <1>1, <1>6, <1>8, <1>9, <1>10, <1>12, <1>13, DepartInv, Zenon

---------------------------------------------------------------------------
\* Every step.

LEMMA StepInv ==
    ASSUME Usual, RevInv, [Next]_vars
    PROVE  RevInv'
  <1>1. CASE Emulate
    <2>1. CASE StartInstruction
      BY <2>1, StartInstructionInv
    <2>2. CASE ResumeInstruction
      BY <2>2, ResumeInstructionInv
    <2>3. CASE ExecNewSnapshot
      BY <2>3, ExecNewSnapshotInv
    <2>4. CASE ExecInputEvent
      BY <2>4, ExecInputEventInv
    <2>5. CASE DeliverHeld
      BY <2>5, DeliverHeldInv
    <2>. QED  BY <1>1, <2>1, <2>2, <2>3, <2>4, <2>5 DEF Emulate
  <1>2. CASE Warp
    <2>1. CASE WarpForward
      BY <2>1, WarpForwardInv
    <2>2. CASE WarpForwarded
      BY <2>2, WarpForwardedInv
    <2>3. CASE WarpSnapshot
      BY <2>3, WarpSnapshotInv
    <2>4. CASE WarpDone
      BY <2>4, WarpDoneInv
    <2>5. CASE Shown
      BY <2>5, ShownInv
    <2>. QED  BY <1>2, <2>1, <2>2, <2>3, <2>4, <2>5 DEF Warp
  <1>3. CASE Command
    <2>1. CASE DeliverTake
      BY <2>1, DeliverTakeInv
    <2>2. CASE HostInput
      BY <2>2, HostInputInv
    <2>3. CASE LiveInput
      BY <2>3, LiveInputInv
    <2>4. CASE SetViewOnlyMode
      BY <2>4, SetViewOnlyModeInv
    <2>5. CASE Start
      BY <2>5, StartInv
    <2>6. CASE Stop
      BY <2>6, StopInv
    <2>7. CASE SaveReplay
      BY <2>7, SaveReplayInv
    <2>8. ASSUME NEW t \in 0..MaxTime, NEW b \in BOOLEAN, GoTo(t, b) PROVE RevInv'
      BY <2>8, GoToInv
    <2>9. ASSUME NEW t \in 0..MaxTime, NEW b \in BOOLEAN, LoadReplay(t, b) PROVE RevInv'
      BY <2>9, LoadReplayInv
    <2>10. CASE TruncateReplay
      BY <2>10, TruncateReplayInv
    <2>. QED  BY <1>3, <2>1, <2>2, <2>3, <2>4, <2>5, <2>6, <2>7, <2>8, <2>9, <2>10 DEF Command
  <1>4. CASE EnterCPU
    BY <1>4, EnterCPUInv
  <1>5. CASE ExitCPU
    BY <1>5, ExitCPUInv
  <1>6. CASE UNCHANGED vars
    BY <1>6 DEF vars, RevInv, RevTypes, FileInv, TripInv, OneSnapshotPlanned, Past
  <1>. QED  BY <1>1, <1>2, <1>3, <1>4, <1>5, <1>6 DEF Next

\* The invariant of every behaviour, outside the situations of Usual.
THEOREM Invariant == Usual => (Spec => []RevInv)
  <1>. SUFFICES ASSUME Usual PROVE Spec => []RevInv
    OBVIOUS
  <1>. DEFINE Inv == RevInv
  <1>1. Init => Inv
    BY InitInv
  <1>2. Inv /\ [Next]_vars => Inv'
    BY StepInv
  <1>. HIDE DEF Inv
  <1>3. Spec => []Inv
    BY <1>1, <1>2, PTL DEF Spec
  <1>. QED  BY <1>3 DEF Inv

---------------------------------------------------------------------------
\* What it means for the log, the snapshots and the planned events.

LEMMA InputsUpToIs ==
    ASSUME History(board.events, board.chunks), NEW n \in Nat
    PROVE  InputsUpTo(n) = After(board.chunks[0].received, board.events, n)
  <1>1. First(board.chunks) = 0 /\ board.chunks[0].eventCount = 0
    BY FirstIsZero DEF History
  <1>2. n - 0 = n /\ \A i \in 1..n : 0 + i = i
    OBVIOUS
  <1>3. [i \in 1..(n - 0) |-> board.events[0 + i].input] = [i \in 1..n |-> board.events[i].input]
    BY <1>2
  <1>. QED  BY <1>1, <1>3 DEF InputsUpTo, After, InputsOf

LEMMA FollowsLog ==
    ASSUME RevInv, Exact
    PROVE  MachineFollowsLog
  <1>. SUFFICES ASSUME board.collecting PROVE board.received = InputsUpTo(board.replayIndex)
    BY DEF MachineFollowsLog
  <1>1. History(board.events, board.chunks) /\ board.replayIndex \in Nat
        /\ board.received = After(board.chunks[0].received, board.events, board.replayIndex)
    BY BoardIs DEF RevInv, RevTypes, BoardInv, Recording
  <1>. QED  BY <1>1, InputsUpToIs

LEMMA SnapshotsFollow ==
    ASSUME RevInv, Exact
    PROVE  SnapshotsFollowLog
  <1>1. board \in BoardType /\ BoardInv(board)
    BY DEF RevInv, RevTypes
  <1>2. PICK ev \in Seq(Entry), chunks \in Snapshots, len \in Nat :
           ev = board.events /\ chunks = board.chunks /\ len = Len(ev)
    BY <1>1, BoardIs
  <1>3. CASE ~board.collecting
    <2>1. Present(NoChunks) = {}
      BY DEF Present, NoChunks
    <2>. QED  BY <1>1, <1>3, <2>1 DEF BoardInv, SnapshotsFollowLog
  <1>4. CASE board.collecting
    <2>1. History(ev, chunks)
      BY <1>1, <1>2, <1>4 DEF BoardInv, Recording
    <2>2. ASSUME NEW i \in Present(chunks)
          PROVE  /\ chunks[i].eventCount <= len
                 /\ chunks[i].received = InputsUpTo(chunks[i].eventCount)
                 /\ \A k \in Present(chunks) : i < k => chunks[i].time < chunks[k].time
                 /\ \A j \in DOMAIN ev : IF j <= chunks[i].eventCount THEN ev[j].time <= chunks[i].time
                                                                    ELSE ev[j].time >= chunks[i].time
      <3>1. PICK n \in Nat : n = chunks[i].eventCount
        BY <1>2, PresentIs
      <3>2. chunks[i].received = After(chunks[0].received, ev, n) /\ Fits(chunks[i], ev)
        BY <2>1, <3>1 DEF History
      <3>3. InputsUpTo(n) = After(chunks[0].received, ev, n)
        BY <1>2, <2>1, InputsUpToIs
      <3>4. \A k \in Present(chunks) : i < k => chunks[i].time < chunks[k].time
        BY <1>2, <2>1, NumbersAreTimes
      <3>5. DOMAIN ev = 1..Len(ev)
        BY <1>2
      <3>. QED  BY <1>2, <3>1, <3>2, <3>3, <3>4, <3>5 DEF Fits
    <2>. QED  BY <1>2, <2>2 DEF SnapshotsFollowLog
  <1>. QED  BY <1>3, <1>4

LEMMA NextScheduled ==
    ASSUME RevInv
    PROVE  NextEventScheduled
  <1>1. board \in BoardType /\ BoardInv(board)
    BY DEF RevInv, RevTypes
  <1>2. PICK ev \in Seq(Entry), len \in Nat, n \in Nat :
           ev = board.events /\ len = Len(ev) /\ n = board.replayIndex
    BY <1>1, BoardIs
  <1>3. ASSUME Replaying(board)
        PROVE  /\ board.replayIndex < Len(board.events)
               /\ board.inputSync = <<board.events[board.replayIndex + 1].time>>
               /\ board.inputSync[1] >= board.now
               /\ HasEnd(board.events)
    <2>1. n <= len /\ n # len
      BY <1>1, <1>2, <1>3 DEF BoardInv, Replaying
    <2>2. PICK x : x = board.events[board.replayIndex + 1].time
      OBVIOUS
    <2>3. board.inputSync = <<x>> /\ board.now <= x /\ HasEnd(board.events)
      BY <1>1, <1>3, <2>2 DEF BoardInv, Planned
    <2>4. board.inputSync[1] = x
      BY <2>3
    <2>5. x \in Nat /\ board.now \in Nat
      <3>1. n + 1 \in 1..Len(ev)
        BY <1>2, <2>1
      <3>. QED  BY <1>1, <1>2, <2>2, <3>1, EntryIs, BoardIs
    <2>6. board.replayIndex < Len(board.events)
      BY <1>2, <2>1
    <2>7. x >= board.now
      BY <2>3, <2>5
    <2>. QED  BY <2>2, <2>3, <2>4, <2>6, <2>7
  <1>4. ASSUME ~Replaying(board) PROVE board.inputSync = <<>> /\ ~HasEnd(board.events)
    BY <1>1, <1>4 DEF BoardInv, Planned
  <1>5. ASSUME NEW i \in DOMAIN board.events, i < Len(board.events)
        PROVE  board.events[i].input # EndLog /\ board.events[i].time <= board.events[i + 1].time
    <2>1. i \in 1..len
      BY <1>2
    <2>2. i + 1 \in 1..len /\ i < i + 1 /\ i <= i + 1
      BY <1>2, <1>5, <2>1
    <2>3. Log(ev)
      BY <1>1, <1>2 DEF BoardInv
    <2>. QED  BY <1>2, <2>1, <2>2, <2>3 DEF Log
  <1>. QED  BY <1>3, <1>4, <1>5 DEF NextEventScheduled

LEMMA TransferStep ==
    ASSUME Usual, RevInv, Next, pc = "main", pc' = "warp", ~trip'.reused
    PROVE  board'.replayIndex < Len(board'.events)
  <1>1. ~Emulate /\ ~Warp /\ ~EnterCPU /\ ~ExitCPU
    BY DEF Emulate, StartInstruction, ResumeInstruction, ExecNewSnapshot, ExecInputEvent, DeliverHeld,
           Running, Warp, WarpForward, WarpForwarded, WarpSnapshot, WarpDone, Shown, EnterCPU, ExitCPU
  <1>2. ~(\/ DeliverTake \/ HostInput \/ LiveInput \/ SetViewOnlyMode \/ TruncateReplay
          \/ Start \/ Stop \/ SaveReplay)
    BY DEF DeliverTake, HostInput, LiveInput, SetViewOnlyMode, TruncateReplay, Start, Stop,
           SaveReplay
  <1>3. PICK t \in 0..MaxTime, b \in BOOLEAN : GoTo(t, b) \/ LoadReplay(t, b)
    BY <1>1, <1>2 DEF Next, Command
  <1>. QED  BY <1>3, GoToInv, LoadReplayInv

LEMMA LandingStep ==
    ASSUME RevInv, Next, pc \in {"warp", "show"}, pc' = "main"
    PROVE  /\ trip.target <= board'.now /\ board'.now < trip.target + MaxStep
           /\ board'.collecting
  <1>1. WarpDone \/ Shown
    <2>1. ~EnterCPU /\ ~ExitCPU /\ ~Emulate
      BY DEF EnterCPU, ExitCPU, Emulate, StartInstruction, ResumeInstruction, ExecNewSnapshot,
             ExecInputEvent, DeliverHeld
    <2>2. ~WarpForward /\ ~WarpForwarded /\ ~WarpSnapshot
      BY DEF WarpForward, WarpForwarded, WarpSnapshot
    <2>3. ~Command
      BY DEF Command, DeliverTake, HostInput, LiveInput, SetViewOnlyMode, TruncateReplay, Start,
             Stop, SaveReplay, GoTo, LoadReplay
    <2>. QED  BY <2>1, <2>2, <2>3 DEF Next, Warp
  <1>2. PICK now \in Nat, end \in Nat, target \in Nat :
           /\ now = board.now /\ end = board.insEnd /\ target = trip.target
           /\ now <= end /\ end < target + MaxStep
    <2>1. board.now \in Nat /\ board.insEnd \in Nat /\ trip.target \in Nat
      BY BoardIs, Bounds DEF RevInv, RevTypes
    <2>2. board.now <= board.insEnd /\ board.insEnd < trip.target + MaxStep
      BY DEF RevInv, BoardInv, TripInv
    <2>. QED  BY <2>1, <2>2
  <1>3. board'.now = board.now /\ board'.collecting = board.collecting /\ target <= now
    <2>1. CASE Shown
      <3>1. pc = "show" /\ board' = board /\ board.now >= trip.goal
        BY <2>1 DEF Shown
      <3>2. trip.goal = trip.target
        BY <3>1 DEF RevInv, TripInv
      <3>. QED  BY <1>2, <3>1, <3>2
    <2>2. CASE WarpDone
      <3>1. /\ board' = IF trip.reused THEN Schedule(board) ELSE board
            /\ ~(board.now < trip.target)
        BY <2>2 DEF WarpDone
      <3>2. board \in BoardType
        BY DEF RevInv, RevTypes
      <3>3. board'.now = board.now /\ board'.collecting = board.collecting
        BY <3>1, <3>2 DEF Schedule, BoardType
      <3>. QED  BY <1>2, <3>1, <3>3
    <2>. QED  BY <1>1, <2>1, <2>2
  <1>4. now < target + MaxStep
    BY <1>2, Bounds
  <1>5. board.collecting
    BY DEF RevInv, TripInv
  <1>. QED  BY <1>2, <1>3, <1>4, <1>5

---------------------------------------------------------------------------
\* For any periods, number of kept snapshots, length of instructions and number
\* of inputs, and outside the situations of Usual: the machine has received
\* exactly the inputs of the log up to the replay index, through recording,
\* replay, time travel, saving and loading.
THEOREM MachineAlwaysFollowsLog == Usual /\ Exact => (Spec => []MachineFollowsLog)
  <1>. SUFFICES ASSUME Usual, Exact PROVE Spec => []MachineFollowsLog
    OBVIOUS
  <1>1. Spec => []RevInv
    BY Invariant
  <1>2. RevInv => MachineFollowsLog
    BY FollowsLog
  <1>. QED  BY <1>1, <1>2, PTL

\* Every snapshot holds the machine as it was after the events it counts, which
\* are those before it, and a later number is a later time.
THEOREM SnapshotsAlwaysFollowLog == Usual /\ Exact => (Spec => []SnapshotsFollowLog)
  <1>. SUFFICES ASSUME Usual, Exact PROVE Spec => []SnapshotsFollowLog
    OBVIOUS
  <1>1. Spec => []RevInv
    BY Invariant
  <1>2. RevInv => SnapshotsFollowLog
    BY SnapshotsFollow
  <1>. QED  BY <1>1, <1>2, PTL

\* While replaying, exactly the next event of the log is planned, not before now,
\* and the log ends in its only EndLogEvent.
THEOREM NextEventAlwaysScheduled == Usual => (Spec => []NextEventScheduled)
  <1>. SUFFICES ASSUME Usual PROVE Spec => []NextEventScheduled
    OBVIOUS
  <1>1. Spec => []RevInv
    BY Invariant
  <1>2. RevInv => NextEventScheduled
    BY NextScheduled
  <1>. QED  BY <1>1, <1>2, PTL

\* The assertion of transferHistory: the log handed to a new board has an event
\* left to replay.
THEOREM TransferAlwaysFindsEvent == Usual => (Spec => TransferFindsEvent)
  <1>. SUFFICES ASSUME Usual PROVE Spec => TransferFindsEvent
    OBVIOUS
  <1>1. Spec => []RevInv
    BY Invariant
  <1>2. RevInv /\ [Next]_vars =>
           [(pc = "main" /\ pc' = "warp" /\ ~trip'.reused)
               => board'.replayIndex < Len(board'.events)]_vars
    BY TransferStep
  <1>. QED  BY <1>1, <1>2, PTL DEF Spec, TransferFindsEvent

\* goTo() ends at the requested time or less than one instruction past it, on a
\* board that records.
THEOREM GoToAlwaysLands == Usual => (Spec => GoToLands)
  <1>. SUFFICES ASSUME Usual PROVE Spec => GoToLands
    OBVIOUS
  <1>1. Spec => []RevInv
    BY Invariant
  <1>2. RevInv /\ [Next]_vars =>
           [(pc \in {"warp", "show"} /\ pc' = "main")
               => /\ trip.target <= board'.now /\ board'.now < trip.target + MaxStep
                  /\ board'.collecting]_vars
    BY LandingStep
  <1>. QED  BY <1>1, <1>2, PTL DEF Spec, GoToLands

---------------------------------------------------------------------------
\* The plan of the next snapshot alone: the machine is a record, whatever else
\* has become of it.
IsBoard(b) ==
    b = [now |-> b.now, insEnd |-> b.insEnd, received |-> b.received,
         collecting |-> b.collecting, pendingTakeSnapshot |-> b.pendingTakeSnapshot,
         events |-> b.events, replayIndex |-> b.replayIndex, chunks |-> b.chunks,
         snapSync |-> b.snapSync, inputSync |-> b.inputSync, held |-> b.held]

SamePlan(b, r) ==
    /\ IsBoard(r) /\ r.snapSync = b.snapSync /\ r.collecting = b.collecting
    /\ r.pendingTakeSnapshot = b.pendingTakeSnapshot

IsList(s) == \E S : s \in Seq(S)

LEMMA ListAppend ==
    ASSUME NEW s, IsList(s), NEW x
    PROVE  IsList(Append(s, x)) /\ Len(s) \in Nat /\ Len(Append(s, x)) = Len(s) + 1
  <1>1. PICK S : s \in Seq(S)
    BY DEF IsList
  <1>2. s \in Seq(S \cup {x})
    BY <1>1
  <1>3. Append(s, x) \in Seq(S \cup {x}) /\ Len(s) \in Nat /\ Len(Append(s, x)) = Len(s) + 1
    BY <1>2
  <1>. QED  BY <1>3 DEF IsList

LEMMA ListTail ==
    ASSUME NEW s, IsList(s)
    PROVE  /\ Len(s) \in Nat /\ (Len(s) = 0 <=> s = <<>>) /\ IsList(<<>>) /\ Len(<<>>) = 0
           /\ s # <<>> => IsList(Tail(s)) /\ Len(Tail(s)) = Len(s) - 1
  <1>1. PICK S : s \in Seq(S)
    BY DEF IsList
  <1>2. <<>> \in Seq(S) /\ (s # <<>> => Tail(s) \in Seq(S) /\ Len(Tail(s)) = Len(s) - 1)
    BY <1>1
  <1>. QED  BY <1>1, <1>2 DEF IsList

LEMMA RecordSamePlan ==
    ASSUME NEW b, IsBoard(b), NEW inputs, NEW r, r = Record(b, inputs)
    PROVE  SamePlan(b, r)
  <1>1. PICK events, index, received :
          r = [b EXCEPT !.events = events, !.replayIndex = index, !.received = received]
    BY DEF Record
  <1>. QED  BY <1>1 DEF IsBoard, SamePlan

LEMMA StopReplaySamePlan ==
    ASSUME NEW b, IsBoard(b), NEW keys, NEW r, r = StopReplay(b, keys)
    PROVE  SamePlan(b, r)
  <1>1. CASE ~Replaying(b)
    BY <1>1 DEF StopReplay, SamePlan
  <1>2. CASE Replaying(b)
    <2>1. PICK inputSync, events, chunks, s :
             /\ s = [b EXCEPT !.inputSync = inputSync, !.events = events, !.chunks = chunks]
             /\ r = Record(s, keys)
      BY <1>2 DEF StopReplay
    <2>2. SamePlan(b, s)
      BY <2>1 DEF IsBoard, SamePlan
    <2>3. IsBoard(s) /\ r = Record(s, keys)
      BY <2>1, <2>2 DEF SamePlan
    <2>4. SamePlan(s, r)
      BY <2>3, RecordSamePlan
    <2>. QED  BY <2>2, <2>4 DEF SamePlan
  <1>. QED  BY <1>1, <1>2

LEMMA DistributeSamePlan ==
    ASSUME NEW b, IsBoard(b), NEW keys, NEW input, NEW r, r = DistributeNew(b, keys, input)
    PROVE  SamePlan(b, r)
  <1>1. CASE ~b.collecting
    <2>1. PICK received : r = [b EXCEPT !.received = received]
      BY <1>1 DEF DistributeNew, Receive
    <2>. QED  BY <2>1 DEF IsBoard, SamePlan
  <1>2. CASE b.collecting /\ Replaying(b) /\ viewOnly
    BY <1>2 DEF DistributeNew, SamePlan
  <1>3. CASE b.collecting /\ ~(Replaying(b) /\ viewOnly)
    <2>1. PICK s : s = StopReplay(b, keys) /\ r = Record(s, <<input>>)
      BY <1>3 DEF DistributeNew
    <2>2. SamePlan(b, s)
      BY <2>1, StopReplaySamePlan
    <2>3. SamePlan(s, r)
      BY <2>1, <2>2, RecordSamePlan DEF SamePlan
    <2>. QED  BY <2>2, <2>3 DEF SamePlan
  <1>. QED  BY <1>1, <1>2, <1>3

LEMMA ReplayNextSamePlan ==
    ASSUME NEW b, IsBoard(b), NEW r, r = ReplayNextEvent(b)
    PROVE  SamePlan(b, r)
  <1>1. r = b \/ \E inputSync : r = [b EXCEPT !.inputSync = inputSync]
    BY DEF ReplayNextEvent
  <1>. QED  BY <1>1 DEF IsBoard, SamePlan

LEMMA TakeSamePlan ==
    ASSUME NEW b, IsBoard(b), NEW r, r = TakeSnapshot(b)
    PROVE  SamePlan(b, r)
  <1>1. PICK chunks : r = [b EXCEPT !.chunks = chunks]
    BY DEF TakeSnapshot
  <1>. QED  BY <1>1 DEF IsBoard, SamePlan

LEMMA SchedulePlan ==
    ASSUME NEW b, IsBoard(b), IsList(b.snapSync), NEW r, r = Schedule(b)
    PROVE  /\ IsBoard(r) /\ IsList(r.snapSync)
           /\ Len(b.snapSync) \in Nat /\ Len(r.snapSync) = Len(b.snapSync) + 1
           /\ r.collecting = b.collecting /\ r.pendingTakeSnapshot = b.pendingTakeSnapshot
  <1>1. PICK due, more : more = Append(b.snapSync, due) /\ r = [b EXCEPT !.snapSync = more]
    BY DEF Schedule
  <1>2. IsList(more) /\ Len(b.snapSync) \in Nat /\ Len(more) = Len(b.snapSync) + 1
    BY <1>1, ListAppend
  <1>3. IsBoard(r) /\ r.snapSync = more /\ r.collecting = b.collecting
        /\ r.pendingTakeSnapshot = b.pendingTakeSnapshot
    BY <1>1 DEF IsBoard
  <1>. QED  BY <1>2, <1>3

\* A new board plans one.
LEMMA RestoredPlan ==
    ASSUME NEW chunk, NEW events, NEW chunks, NEW r, r = Restored(chunk, events, chunks)
    PROVE  /\ IsBoard(r) /\ IsList(r.snapSync) /\ Len(r.snapSync) = 1
           /\ r.collecting /\ ~r.pendingTakeSnapshot
  <1>1. PICK s : s = [now |-> chunk.time, insEnd |-> chunk.time, received |-> chunk.received,
                      collecting |-> TRUE, pendingTakeSnapshot |-> FALSE,
                      events |-> events, replayIndex |-> chunk.eventCount, chunks |-> chunks,
                      snapSync |-> <<>>, inputSync |-> <<>>, held |-> 0]
    OBVIOUS
  <1>2. PICK u : u = Schedule(s) /\ r = ReplayNextEvent(u)
    BY <1>1 DEF Restored
  <1>3. /\ IsBoard(s) /\ s.snapSync = <<>> /\ s.collecting = TRUE /\ s.pendingTakeSnapshot = FALSE
    BY <1>1 DEF IsBoard
  <1>4. IsList(<<>>) /\ Len(<<>>) = 0
    <2>1. <<>> \in Seq(Nat)
      OBVIOUS
    <2>. QED  BY <2>1 DEF IsList
  <1>5. /\ IsBoard(u) /\ IsList(u.snapSync) /\ Len(u.snapSync) = 0 + 1
        /\ u.collecting = TRUE /\ u.pendingTakeSnapshot = FALSE
    BY <1>2, <1>3, <1>4, SchedulePlan
  <1>6. SamePlan(u, r)
    BY <1>2, <1>5, ReplayNextSamePlan
  <1>. QED  BY <1>5, <1>6 DEF SamePlan

---------------------------------------------------------------------------
IsTrip(t) ==
    t = [target |-> t.target, preTarget |-> t.preTarget, last |-> t.last, goal |-> t.goal,
         reused |-> t.reused]

PlanInv ==
    /\ IsBoard(board) /\ IsList(board.snapSync) /\ IsTrip(trip)
    /\ pc \in {"warp", "ff"} => board.collecting
    /\ OneSnapshotPlanned

OnOldBoard == pc \in {"warp", "ff"} /\ trip.reused

\* The count, case by case.
PlanFits(due, pending, n) ==
    /\ due /\ pending => n = 0
    /\ due /\ ~pending => n = 1
    /\ ~due => ~pending /\ n = 0

LEMMA PlanCount ==
    ASSUME Len(board.snapSync) \in Nat
    PROVE  OneSnapshotPlanned <=> PlanFits(board.collecting /\ ~OnOldBoard,
                                           board.pendingTakeSnapshot, Len(board.snapSync))
  <1>1. PICK n \in Nat : n = Len(board.snapSync)
    OBVIOUS
  <1>2. OneSnapshotPlanned <=> n + (IF board.pendingTakeSnapshot THEN 1 ELSE 0)
                               = IF board.collecting /\ ~OnOldBoard THEN 1 ELSE 0
    BY <1>1, Zenon DEF OneSnapshotPlanned, OnOldBoard
  <1>3. n + 0 = n /\ (n + 1 = 1 <=> n = 0) /\ n + 1 # 0 /\ 1 # 0
    OBVIOUS
  <1>. QED  BY <1>1, <1>2, <1>3, Zenon DEF PlanFits

LEMMA PlanCountNext ==
    ASSUME Len(board'.snapSync) \in Nat
    PROVE  OneSnapshotPlanned' <=> PlanFits(board'.collecting /\ ~OnOldBoard',
                                            board'.pendingTakeSnapshot, Len(board'.snapSync))
  <1>1. PICK n \in Nat : n = Len(board'.snapSync)
    OBVIOUS
  <1>2. OneSnapshotPlanned' <=> n + (IF board'.pendingTakeSnapshot THEN 1 ELSE 0)
                               = IF board'.collecting /\ ~OnOldBoard' THEN 1 ELSE 0
    BY <1>1, Zenon DEF OneSnapshotPlanned, OnOldBoard
  <1>3. n + 0 = n /\ (n + 1 = 1 <=> n = 0) /\ n + 1 # 0 /\ 1 # 0
    OBVIOUS
  <1>. QED  BY <1>1, <1>2, <1>3, Zenon DEF PlanFits

\* What is planned, and whether it should be, stays.
LEMMA PlanStays ==
    ASSUME PlanInv, SamePlan(board, board'), IsTrip(trip'), OnOldBoard' <=> OnOldBoard,
           pc' \in {"warp", "ff"} => board.collecting
    PROVE  PlanInv'
  BY DEF PlanInv, SamePlan, OnOldBoard, OneSnapshotPlanned

LEMMA PlanUnchanged ==
    ASSUME PlanInv, SamePlan(board, board'), UNCHANGED <<trip, pc>>
    PROVE  PlanInv'
  BY PlanStays DEF PlanInv, OnOldBoard

LEMMA TripToShape ==
    ASSUME NEW target, NEW noVideo, NEW chunks, NEW end, NEW t, t = TripTo(target, noVideo, chunks, end)
    PROVE  IsTrip(t) /\ t.reused = FALSE
  <1>1. PICK to, pre : t = [NoTrip EXCEPT !.target = to, !.preTarget = pre]
    BY DEF TripTo
  <1>. QED  BY <1>1 DEF NoTrip, IsTrip

LEMMA TripMoves ==
    ASSUME NEW s, IsTrip(s), NEW x, NEW t, t = [s EXCEPT !.goal = x] \/ t = [s EXCEPT !.last = x]
    PROVE  IsTrip(t) /\ t.reused = s.reused
  BY DEF IsTrip

\* The steps of the machine.
LEMMA EmulatePlan ==
    ASSUME PlanInv, Emulate
    PROVE  PlanInv'
  <1>1. IsBoard(board) /\ IsList(board.snapSync) /\ UNCHANGED <<trip, pc>>
    BY DEF PlanInv, Emulate, StartInstruction, ResumeInstruction, ExecNewSnapshot, ExecInputEvent,
           DeliverHeld
  <1>2. CASE StartInstruction \/ ResumeInstruction
    <2>1. PICK end, t : board' = [board EXCEPT !.insEnd = end, !.now = t]
      BY <1>2 DEF StartInstruction, ResumeInstruction, Advance
    <2>2. SamePlan(board, board')
      BY <1>1, <2>1 DEF IsBoard, SamePlan
    <2>. QED  BY <1>1, <2>2, PlanUnchanged
  <1>3. CASE ExecNewSnapshot
    <2>1. PICK rest : /\ rest = Tail(board.snapSync)
                      /\ board' = [board EXCEPT !.snapSync = rest, !.pendingTakeSnapshot = TRUE]
      BY <1>3 DEF ExecNewSnapshot
    <2>2. board.snapSync # <<>>
      BY <1>3 DEF ExecNewSnapshot
    <2>3. /\ IsList(rest) /\ Len(board.snapSync) \in Nat
          /\ Len(rest) = Len(board.snapSync) - 1 /\ Len(board.snapSync) # 0
      BY <1>1, <2>1, <2>2, ListTail
    <2>4. /\ IsBoard(board') /\ board'.snapSync = rest /\ board'.pendingTakeSnapshot = TRUE
          /\ board'.collecting = board.collecting
      BY <1>1, <2>1 DEF IsBoard
    <2>5. PICK n \in Nat : n = Len(board.snapSync) /\ n # 0 /\ Len(rest) = n - 1
      BY <2>3
    <2>6. PlanFits(board.collecting /\ ~OnOldBoard, board.pendingTakeSnapshot, n)
      BY <2>5, PlanCount DEF PlanInv
    <2>7. board.collecting /\ ~OnOldBoard /\ n = 1
      BY <2>5, <2>6, Zenon DEF PlanFits
    <2>8. Len(board'.snapSync) \in Nat /\ Len(board'.snapSync) = 0
      BY <2>4, <2>5, <2>7
    <2>9. OnOldBoard' <=> OnOldBoard
      BY <1>1 DEF OnOldBoard
    <2>10. PlanFits(board'.collecting /\ ~OnOldBoard', board'.pendingTakeSnapshot, 0)
      BY <2>4, <2>7, <2>9, Zenon DEF PlanFits
    <2>11. OneSnapshotPlanned'
      BY <2>8, <2>10, PlanCountNext
    <2>. QED  BY <1>1, <2>3, <2>4, <2>11 DEF PlanInv
  <1>4. CASE ExecInputEvent
    <2>1. PICK inputSync, b : b = [board EXCEPT !.inputSync = inputSync]
                              /\ \/ \E keys : board' = StopReplay(b, keys)
                                 \/ \E index, input : board' = ReplayNextEvent(
                                        Receive([b EXCEPT !.replayIndex = index], input))
      <3>1. PICK b : b = [board EXCEPT !.inputSync = Tail(@)]
        OBVIOUS
      <3>2. \/ \E k \in 0..1 : board' = StopReplay(b, Fresh(k))
            \/ board' = ReplayNextEvent(Receive([b EXCEPT !.replayIndex = @ + 1],
                                                b.events[b.replayIndex + 1].input))
        BY <1>4, <3>1 DEF ExecInputEvent
      <3>. QED  BY <3>1, <3>2, Zenon
    <2>2. SamePlan(board, b)
      BY <1>1, <2>1 DEF IsBoard, SamePlan
    <2>3. CASE \E keys : board' = StopReplay(b, keys)
      <3>1. SamePlan(b, board')
        BY <2>2, <2>3, StopReplaySamePlan DEF SamePlan
      <3>2. SamePlan(board, board')
        BY <2>2, <3>1 DEF SamePlan
      <3>. QED  BY <1>1, <3>2, PlanUnchanged
    <2>4. CASE \E index, input : board' = ReplayNextEvent(
                                     Receive([b EXCEPT !.replayIndex = index], input))
      <3>1. PICK index, input, c, d : /\ c = [b EXCEPT !.replayIndex = index]
                                      /\ d = Receive(c, input) /\ board' = ReplayNextEvent(d)
        BY <2>4
      <3>2. SamePlan(b, c)
        BY <2>2, <3>1 DEF IsBoard, SamePlan
      <3>3. PICK received : d = [c EXCEPT !.received = received]
        BY <3>1 DEF Receive
      <3>4. SamePlan(c, d)
        BY <3>2, <3>3 DEF IsBoard, SamePlan
      <3>5. SamePlan(d, board')
        BY <3>1, <3>4, ReplayNextSamePlan DEF SamePlan
      <3>6. SamePlan(board, board')
        BY <2>2, <3>2, <3>4, <3>5 DEF SamePlan
      <3>. QED  BY <1>1, <3>6, PlanUnchanged
    <2>. QED  BY <2>1, <2>3, <2>4
  <1>5. CASE DeliverHeld
    <2>1. PICK b : b = [board EXCEPT !.held = 0]
      OBVIOUS
    <2>2. PICK k : board' = DistributeNew(b, Fresh(k), nextInput + k)
      BY <1>5, <2>1 DEF DeliverHeld, NewInput
    <2>3. SamePlan(board, b)
      BY <1>1, <2>1 DEF IsBoard, SamePlan
    <2>4. SamePlan(b, board')
      BY <2>2, <2>3, DistributeSamePlan DEF SamePlan
    <2>5. SamePlan(board, board')
      BY <2>3, <2>4 DEF SamePlan
    <2>. QED  BY <1>1, <2>5, PlanUnchanged
  <1>. QED  BY <1>2, <1>3, <1>4, <1>5 DEF Emulate

\* The steps of goTo().
LEMMA WarpPlan ==
    ASSUME PlanInv, Warp
    PROVE  PlanInv'
  <1>1. IsBoard(board) /\ IsList(board.snapSync) /\ IsTrip(trip) /\ SamePlan(board, board)
    BY DEF PlanInv, SamePlan
  <1>2. CASE WarpForward
    <2>1. PICK x : trip' = [trip EXCEPT !.goal = x] /\ pc = "warp" /\ pc' = "ff" /\ board' = board
      BY <1>2 DEF WarpForward
    <2>2. IsTrip(trip') /\ trip'.reused = trip.reused
      BY <1>1, <2>1, TripMoves
    <2>. QED  BY <1>1, <2>1, <2>2, PlanStays DEF PlanInv, OnOldBoard
  <1>3. CASE WarpForwarded
    <2>1. pc = "ff" /\ pc' = "warp" /\ board' = board /\ trip' = trip
      BY <1>3 DEF WarpForwarded
    <2>. QED  BY <1>1, <2>1, PlanStays DEF PlanInv, OnOldBoard
  <1>4. CASE WarpSnapshot
    <2>1. PICK x : trip' = [trip EXCEPT !.last = x] /\ pc = "warp" /\ pc' = pc
                   /\ board' = TakeSnapshot(board)
      BY <1>4 DEF WarpSnapshot
    <2>2. IsTrip(trip') /\ trip'.reused = trip.reused
      BY <1>1, <2>1, TripMoves
    <2>3. SamePlan(board, board')
      BY <1>1, <2>1, TakeSamePlan
    <2>. QED  BY <2>1, <2>2, <2>3, PlanStays DEF PlanInv, OnOldBoard
  <1>5. CASE WarpDone
    <2>1. /\ pc = "warp" /\ pc' \notin {"warp", "ff"} /\ IsTrip(trip')
          /\ board' = IF trip.reused THEN Schedule(board) ELSE board
      <3>1. IsTrip(NoTrip)
        BY DEF NoTrip, IsTrip
      <3>2. \/ pc' = "main" /\ trip' = NoTrip
            \/ pc' = "show" /\ trip' = [trip EXCEPT !.goal = trip.target]
        BY <1>5 DEF WarpDone
      <3>3. IsTrip(trip') /\ pc' \notin {"warp", "ff"}
        BY <1>1, <3>1, <3>2, TripMoves
      <3>. QED  BY <1>5, <3>3 DEF WarpDone
    <2>2. CASE trip.reused
      <3>1. board' = Schedule(board)
        BY <2>1, <2>2
      <3>2. /\ IsBoard(board') /\ IsList(board'.snapSync) /\ Len(board.snapSync) \in Nat
            /\ Len(board'.snapSync) = Len(board.snapSync) + 1
            /\ board'.collecting = board.collecting
            /\ board'.pendingTakeSnapshot = board.pendingTakeSnapshot
        BY <1>1, <3>1, SchedulePlan
      <3>3. PICK n \in Nat : n = Len(board.snapSync) /\ Len(board'.snapSync) = n + 1
        BY <3>2
      <3>4. OnOldBoard /\ ~OnOldBoard' /\ board.collecting
        BY <2>1, <2>2 DEF OnOldBoard, PlanInv
      <3>5. PlanFits(board.collecting /\ ~OnOldBoard, board.pendingTakeSnapshot, n)
        BY <3>3, PlanCount DEF PlanInv
      <3>6. ~board.pendingTakeSnapshot /\ n = 0
        BY <3>4, <3>5, Zenon DEF PlanFits
      <3>7. Len(board'.snapSync) \in Nat /\ Len(board'.snapSync) = 1
        BY <3>3, <3>6
      <3>8. PlanFits(board'.collecting /\ ~OnOldBoard', board'.pendingTakeSnapshot, 1)
        BY <3>2, <3>4, <3>6, Zenon DEF PlanFits
      <3>9. OneSnapshotPlanned'
        BY <3>7, <3>8, PlanCountNext
      <3>. QED  BY <2>1, <3>2, <3>9 DEF PlanInv
    <2>3. CASE ~trip.reused
      BY <1>1, <2>1, <2>3, PlanStays DEF OnOldBoard
    <2>. QED  BY <2>2, <2>3
  <1>6. CASE Shown
    <2>1. pc = "show" /\ pc' = "main" /\ board' = board /\ trip' = NoTrip
      BY <1>6 DEF Shown
    <2>2. IsTrip(NoTrip)
      BY DEF NoTrip, IsTrip
    <2>. QED  BY <1>1, <2>1, <2>2, PlanStays DEF OnOldBoard
  <1>. QED  BY <1>2, <1>3, <1>4, <1>5, <1>6 DEF Warp

\* A trip that begins on this board: no request is on its way, so that the
\* point in time it removes was all that was planned.
LEMMA OnThisBoardPlan ==
    ASSUME ~GoToBeforeTake, PlanInv, pc = "main", board.collecting, pc' = "warp",
           NEW target, NEW noVideo, NEW chunks, NEW end,
           NEW t, t = TripTo(target, noVideo, chunks, end), GoToOnThisBoard(t)
    PROVE  PlanInv'
  <1>1. /\ ~board.pendingTakeSnapshot
        /\ board' = [board EXCEPT !.snapSync = Unscheduled(@)]
        /\ trip' = [t EXCEPT !.last = board.now, !.reused = TRUE]
    BY DEF GoToOnThisBoard
  <1>2. IsTrip(trip') /\ trip'.reused = TRUE
    <2>1. PICK last, u, v : /\ u = [t EXCEPT !.last = last] /\ v = [u EXCEPT !.reused = TRUE]
                            /\ trip' = v
      BY <1>1
    <2>2. IsTrip(u)
      BY <2>1, TripToShape, TripMoves
    <2>3. IsTrip(v) /\ v.reused = TRUE
      BY <2>1, <2>2 DEF IsTrip
    <2>. QED  BY <2>1, <2>3
  <1>3. IsBoard(board) /\ IsList(board.snapSync) /\ Len(board.snapSync) = 1
    <2>1. IsBoard(board) /\ IsList(board.snapSync) /\ Len(board.snapSync) \in Nat
      BY ListTail DEF PlanInv
    <2>2. PlanFits(board.collecting /\ ~OnOldBoard, board.pendingTakeSnapshot, Len(board.snapSync))
      BY <2>1, PlanCount DEF PlanInv
    <2>3. ~OnOldBoard
      BY DEF OnOldBoard
    <2>. QED  BY <1>1, <2>1, <2>2, <2>3, Zenon DEF PlanFits
  <1>4. PICK rest : rest = Unscheduled(board.snapSync) /\ IsList(rest) /\ Len(rest) = 0
    <2>1. PICK s : s = board.snapSync /\ IsList(s) /\ Len(s) = 1
      BY <1>3
    <2>2. s # <<>>
      BY <2>1, ListTail
    <2>3. IsList(Tail(s)) /\ Len(Tail(s)) = Len(s) - 1
      BY <2>1, <2>2, ListTail
    <2>4. Unscheduled(s) = Tail(s)
      BY <2>2 DEF Unscheduled
    <2>5. Len(Tail(s)) = 0
      BY <2>1, <2>3
    <2>6. PICK u : u = Tail(s)
      OBVIOUS
    <2>7. u = Unscheduled(board.snapSync) /\ IsList(u) /\ Len(u) = 0
      BY <2>1, <2>3, <2>4, <2>5, <2>6, Zenon
    <2>. QED  BY <2>7
  <1>5. board' = [board EXCEPT !.snapSync = rest]
    BY <1>1, <1>4
  <1>6. /\ IsBoard(board') /\ board'.snapSync = rest /\ board'.collecting = board.collecting
        /\ board'.pendingTakeSnapshot = board.pendingTakeSnapshot
    BY <1>3, <1>5 DEF IsBoard
  <1>7. Len(board'.snapSync) \in Nat /\ OnOldBoard'
    BY <1>2, <1>4, <1>6 DEF OnOldBoard
  <1>8. PlanFits(board'.collecting /\ ~OnOldBoard', board'.pendingTakeSnapshot, Len(board'.snapSync))
    BY <1>1, <1>4, <1>6, <1>7, Zenon DEF PlanFits
  <1>9. OneSnapshotPlanned'
    BY <1>7, <1>8, PlanCountNext
  <1>. QED  BY <1>2, <1>4, <1>6, <1>9 DEF PlanInv

LEMMA NewBoardPlan ==
    ASSUME pc' = "warp",
           NEW target, NEW noVideo, NEW all, NEW end, NEW t, t = TripTo(target, noVideo, all, end),
           NEW last, trip' = [t EXCEPT !.last = last],
           NEW chunk, NEW events, NEW chunks, board' = Restored(chunk, events, chunks)
    PROVE  PlanInv'
  <1>1. /\ IsBoard(board') /\ IsList(board'.snapSync) /\ Len(board'.snapSync) = 1
        /\ board'.collecting /\ ~board'.pendingTakeSnapshot
    <2>1. PICK r : r = Restored(chunk, events, chunks) /\ board' = r
      OBVIOUS
    <2>2. /\ IsBoard(r) /\ IsList(r.snapSync) /\ Len(r.snapSync) = 1
          /\ r.collecting /\ ~r.pendingTakeSnapshot
      BY <2>1, RestoredPlan
    <2>. QED  BY <2>1, <2>2
  <1>2. IsTrip(trip') /\ trip'.reused = FALSE
    <2>1. PICK u : u = [t EXCEPT !.last = last] /\ trip' = u
      OBVIOUS
    <2>2. IsTrip(t) /\ t.reused = FALSE
      BY TripToShape
    <2>3. IsTrip(u) /\ u.reused = t.reused
      BY <2>1, <2>2, TripMoves
    <2>. QED  BY <2>1, <2>2, <2>3
  <1>. QED  BY <1>1, <1>2 DEF PlanInv, OneSnapshotPlanned

LEMMA GoToPlan ==
    ASSUME ~GoToBeforeTake, PlanInv, NEW target, NEW noVideo, GoTo(target, noVideo)
    PROVE  PlanInv'
  <1>1. PICK t, chunk : /\ t = TripTo(target, noVideo, board.chunks, EndTime(board))
                        /\ GoToOnThisBoard(t) \/ GoToOnNewBoard(t, chunk)
    BY Zenon DEF GoTo
  <1>2. pc = "main" /\ board.collecting /\ pc' = "warp"
    BY Zenon DEF GoTo
  <1>3. CASE GoToOnThisBoard(t)
    BY <1>1, <1>2, <1>3, OnThisBoardPlan
  <1>4. CASE GoToOnNewBoard(t, chunk)
    <2>1. PICK b : /\ board' = Restored(chunk, WithEnd(b), b.chunks)
                   /\ trip' = [t EXCEPT !.last = chunk.time]
      BY <1>4, Zenon DEF GoToOnNewBoard
    <2>. QED  BY <1>1, <1>2, <2>1, NewBoardPlan
  <1>. QED  BY <1>1, <1>3, <1>4

LEMMA LoadReplayPlan ==
    ASSUME NEW target, NEW onlyView, LoadReplay(target, onlyView)
    PROVE  PlanInv'
  <1>1. PICK all, end, t, chunk : /\ t = TripTo(target, FALSE, all, end)
                                  /\ board' = Restored(chunk, file.events, all)
                                  /\ trip' = [t EXCEPT !.last = chunk.time] /\ pc' = "warp"
    BY Zenon DEF LoadReplay
  <1>. QED  BY <1>1, NewBoardPlan

\* start() and stop(), and the rest of the main loop.
LEMMA StartPlan ==
    ASSUME PlanInv, Start
    PROVE  PlanInv'
  <1>1. PICK a, s : /\ a = [board EXCEPT !.collecting = TRUE] /\ s = TakeSnapshot(a)
                    /\ board' = Schedule(s)
    BY DEF Start
  <1>2. pc = "main" /\ ~board.collecting /\ UNCHANGED <<trip, pc>>
    BY DEF Start
  <1>3. IsBoard(board) /\ IsList(board.snapSync) /\ IsTrip(trip)
    BY DEF PlanInv
  <1>4. /\ IsBoard(a) /\ a.snapSync = board.snapSync /\ a.collecting = TRUE
        /\ a.pendingTakeSnapshot = board.pendingTakeSnapshot
    BY <1>1, <1>3 DEF IsBoard
  <1>5. SamePlan(a, s)
    BY <1>1, <1>4, TakeSamePlan
  <1>6. /\ IsBoard(s) /\ IsList(s.snapSync) /\ s.snapSync = board.snapSync
        /\ s.collecting = TRUE /\ s.pendingTakeSnapshot = board.pendingTakeSnapshot
    BY <1>3, <1>4, <1>5 DEF SamePlan
  <1>7. /\ IsBoard(board') /\ IsList(board'.snapSync) /\ Len(board.snapSync) \in Nat
        /\ Len(board'.snapSync) = Len(board.snapSync) + 1
        /\ board'.collecting = TRUE /\ board'.pendingTakeSnapshot = board.pendingTakeSnapshot
    BY <1>1, <1>6, SchedulePlan
  <1>8. PlanFits(board.collecting /\ ~OnOldBoard, board.pendingTakeSnapshot, Len(board.snapSync))
    BY <1>7, PlanCount DEF PlanInv
  <1>9. ~board.pendingTakeSnapshot /\ Len(board.snapSync) = 0
    BY <1>2, <1>8, Zenon DEF PlanFits
  <1>10. Len(board'.snapSync) \in Nat /\ Len(board'.snapSync) = 1 /\ ~OnOldBoard'
    BY <1>2, <1>7, <1>9 DEF OnOldBoard
  <1>11. PlanFits(board'.collecting /\ ~OnOldBoard', board'.pendingTakeSnapshot, 1)
    BY <1>7, <1>9, <1>10, Zenon DEF PlanFits
  <1>12. OneSnapshotPlanned'
    BY <1>10, <1>11, PlanCountNext
  <1>. QED  BY <1>2, <1>3, <1>7, <1>12 DEF PlanInv

LEMMA StopPlan ==
    ASSUME PlanInv, Stop
    PROVE  PlanInv'
  <1>1. PICK rest, inputSync, no, chunks, index :
           /\ rest = Unscheduled(board.snapSync)
           /\ board' = [board EXCEPT !.snapSync = rest, !.inputSync = inputSync,
                                     !.events = no, !.chunks = chunks, !.replayIndex = index,
                                     !.collecting = FALSE, !.pendingTakeSnapshot = FALSE]
    BY DEF Stop
  <1>2. pc = "main" /\ board.collecting /\ UNCHANGED <<trip, pc>>
    BY DEF Stop
  <1>3. IsBoard(board) /\ IsList(board.snapSync) /\ IsTrip(trip) /\ Len(board.snapSync) \in Nat
    BY ListTail DEF PlanInv
  <1>4. PlanFits(board.collecting /\ ~OnOldBoard, board.pendingTakeSnapshot, Len(board.snapSync))
    BY <1>3, PlanCount DEF PlanInv
  <1>5. Len(board.snapSync) = 0 \/ Len(board.snapSync) = 1
    BY <1>4, Zenon DEF PlanFits
  <1>6. IsList(rest) /\ Len(rest) = 0
    <2>1. PICK s : s = board.snapSync /\ IsList(s) /\ (Len(s) = 0 \/ Len(s) = 1)
      BY <1>3, <1>5
    <2>2. CASE s = <<>>
      BY <1>1, <2>1, <2>2, ListTail DEF Unscheduled
    <2>3. CASE s # <<>>
      <3>1. IsList(Tail(s)) /\ Len(Tail(s)) = Len(s) - 1 /\ Len(s) # 0
        BY <2>1, <2>3, ListTail
      <3>2. rest = Tail(s)
        BY <1>1, <2>1, <2>3 DEF Unscheduled
      <3>. QED  BY <2>1, <3>1, <3>2
    <2>. QED  BY <2>2, <2>3
  <1>7. /\ IsBoard(board') /\ board'.snapSync = rest /\ board'.collecting = FALSE
        /\ board'.pendingTakeSnapshot = FALSE
    BY <1>1, <1>3 DEF IsBoard
  <1>8. Len(board'.snapSync) \in Nat
    BY <1>6, <1>7
  <1>9. PlanFits(board'.collecting /\ ~OnOldBoard', board'.pendingTakeSnapshot, Len(board'.snapSync))
    BY <1>6, <1>7, Zenon DEF PlanFits
  <1>10. OneSnapshotPlanned'
    BY <1>8, <1>9, PlanCountNext
  <1>. QED  BY <1>2, <1>3, <1>6, <1>7, <1>10 DEF PlanInv

LEMMA DeliverTakePlan ==
    ASSUME PlanInv, DeliverTake
    PROVE  PlanInv'
  <1>1. pc = "main" /\ UNCHANGED <<trip, pc>> /\ ~OnOldBoard /\ ~OnOldBoard'
    BY DEF DeliverTake, OnOldBoard
  <1>2. IsBoard(board) /\ IsList(board.snapSync) /\ IsTrip(trip) /\ SamePlan(board, board)
    BY DEF PlanInv, SamePlan
  <1>3. CASE ~board.pendingTakeSnapshot
    <2>1. board' = board
      BY <1>3 DEF DeliverTake
    <2>. QED  BY <1>1, <1>2, <2>1, PlanUnchanged
  <1>4. CASE board.pendingTakeSnapshot
    <2>1. PICK a, s : /\ a = [board EXCEPT !.pendingTakeSnapshot = FALSE] /\ s = TakeSnapshot(a)
                      /\ board' = Schedule(s)
      BY <1>4 DEF DeliverTake
    <2>2. /\ IsBoard(a) /\ a.snapSync = board.snapSync /\ a.collecting = board.collecting
          /\ a.pendingTakeSnapshot = FALSE
      BY <1>2, <2>1 DEF IsBoard
    <2>3. SamePlan(a, s)
      BY <2>1, <2>2, TakeSamePlan
    <2>4. /\ IsBoard(s) /\ IsList(s.snapSync) /\ s.snapSync = board.snapSync
          /\ s.collecting = board.collecting /\ s.pendingTakeSnapshot = FALSE
      BY <1>2, <2>2, <2>3 DEF SamePlan
    <2>5. /\ IsBoard(board') /\ IsList(board'.snapSync) /\ Len(board.snapSync) \in Nat
          /\ Len(board'.snapSync) = Len(board.snapSync) + 1
          /\ board'.collecting = board.collecting /\ board'.pendingTakeSnapshot = FALSE
      BY <2>1, <2>4, SchedulePlan
    <2>6. PlanFits(board.collecting /\ ~OnOldBoard, board.pendingTakeSnapshot, Len(board.snapSync))
      BY <2>5, PlanCount DEF PlanInv
    <2>7. board.collecting /\ Len(board.snapSync) = 0
      BY <1>4, <2>6, Zenon DEF PlanFits
    <2>8. Len(board'.snapSync) \in Nat /\ Len(board'.snapSync) = 1
      BY <2>5, <2>7
    <2>9. PlanFits(board'.collecting /\ ~OnOldBoard', board'.pendingTakeSnapshot, 1)
      BY <1>1, <2>5, <2>7, Zenon DEF PlanFits
    <2>10. OneSnapshotPlanned'
      BY <2>8, <2>9, PlanCountNext
    <2>. QED  BY <1>1, <1>2, <2>5, <2>10 DEF PlanInv
  <1>. QED  BY <1>3, <1>4

LEMMA CommandPlan ==
    ASSUME ~GoToBeforeTake, PlanInv, Command
    PROVE  PlanInv'
  <1>1. IsBoard(board) /\ SamePlan(board, board)
    BY DEF PlanInv, SamePlan
  <1>2. CASE HostInput
    <2>1. board' = [board EXCEPT !.held = 1] /\ UNCHANGED <<trip, pc>>
      BY <1>2 DEF HostInput
    <2>2. SamePlan(board, board')
      BY <1>1, <2>1 DEF IsBoard, SamePlan
    <2>. QED  BY <2>1, <2>2, PlanUnchanged
  <1>3. CASE LiveInput
    <2>1. PICK k : board' = DistributeNew(board, Fresh(k), nextInput + k)
      BY <1>3 DEF LiveInput, NewInput
    <2>2. SamePlan(board, board')
      BY <1>1, <2>1, DistributeSamePlan
    <2>3. UNCHANGED <<trip, pc>>
      BY <1>3 DEF LiveInput
    <2>. QED  BY <2>2, <2>3, PlanUnchanged
  <1>4. CASE SetViewOnlyMode \/ SaveReplay
    <2>1. UNCHANGED <<board, trip, pc>>
      BY <1>4 DEF SetViewOnlyMode, SaveReplay
    <2>. QED  BY <1>1, <2>1, PlanUnchanged
  <1>5. CASE TruncateReplay
    <2>1. PICK k : board' = StopReplay(board, Fresh(k))
      BY <1>5 DEF TruncateReplay
    <2>2. SamePlan(board, board')
      BY <1>1, <2>1, StopReplaySamePlan
    <2>3. UNCHANGED <<trip, pc>>
      BY <1>5 DEF TruncateReplay
    <2>. QED  BY <2>2, <2>3, PlanUnchanged
  <1>6. ASSUME NEW t, NEW b, GoTo(t, b) \/ LoadReplay(t, b) PROVE PlanInv'
    BY <1>6, GoToPlan, LoadReplayPlan
  <1>. QED  BY <1>2, <1>3, <1>4, <1>5, <1>6, DeliverTakePlan, StartPlan, StopPlan DEF Command

LEMMA PlanInit == Init => PlanInv
  <1>. SUFFICES ASSUME Init PROVE PlanInv
    OBVIOUS
  <1>1. /\ IsBoard(board) /\ board.snapSync = <<>> /\ board.collecting = FALSE
        /\ board.pendingTakeSnapshot = FALSE
    BY DEF Init, IsBoard
  <1>2. IsTrip(trip) /\ pc = "main"
    BY DEF Init, NoTrip, IsTrip
  <1>3. IsList(<<>>) /\ Len(<<>>) = 0
    <2>1. <<>> \in Seq(Nat)
      OBVIOUS
    <2>. QED  BY <2>1 DEF IsList
  <1>4. Len(board.snapSync) \in Nat
    BY <1>1, <1>3
  <1>5. PlanFits(board.collecting /\ ~OnOldBoard, board.pendingTakeSnapshot, Len(board.snapSync))
    BY <1>1, <1>3, Zenon DEF PlanFits
  <1>6. OneSnapshotPlanned
    BY <1>4, <1>5, PlanCount
  <1>. QED  BY <1>1, <1>2, <1>3, <1>6 DEF PlanInv

LEMMA PlanStep ==
    ASSUME ~GoToBeforeTake, PlanInv, [Next]_vars
    PROVE  PlanInv'
  <1>1. IsBoard(board) /\ SamePlan(board, board)
    BY DEF PlanInv, SamePlan
  <1>2. CASE EnterCPU \/ ExitCPU
    <2>1. UNCHANGED <<board, trip>> /\ pc \notin {"warp", "ff"} /\ pc' \notin {"warp", "ff"}
      BY <1>2 DEF EnterCPU, ExitCPU
    <2>. QED  BY <1>1, <2>1, PlanStays DEF PlanInv, OnOldBoard
  <1>3. CASE UNCHANGED vars
    BY <1>1, <1>3, PlanUnchanged DEF vars
  <1>. QED  BY <1>2, <1>3, EmulatePlan, WarpPlan, CommandPlan DEF Next

\* Exactly one next snapshot is planned while recording, none otherwise.
THEOREM SnapshotAlwaysPlanned == ~GoToBeforeTake => (Spec => []OneSnapshotPlanned)
  <1>. SUFFICES ASSUME ~GoToBeforeTake PROVE Spec => []OneSnapshotPlanned
    OBVIOUS
  <1>1. Init => PlanInv
    BY PlanInit
  <1>2. PlanInv /\ [Next]_vars => PlanInv'
    BY PlanStep
  <1>3. PlanInv => OneSnapshotPlanned
    BY DEF PlanInv
  <1>. QED  BY <1>1, <1>2, <1>3, PTL DEF Spec

---------------------------------------------------------------------------
\* The powers of two, as IsPowerOf2 has them.

\* Induction over the numbers, for a set of them.
LEMMA AllNumbers ==
    ASSUME NEW S, 0 \in S, \A i \in Nat : i \in S => i + 1 \in S
    PROVE  \A i \in Nat : i \in S
  <1>. DEFINE Rest == {i \in Nat : i \notin S}
  <1>1. SUFFICES ASSUME Rest # {} PROVE FALSE
    OBVIOUS
  <1>2. Min(Rest) \in Rest /\ \A y \in Rest : Min(Rest) <= y
    BY <1>1, MinOfNats
  <1>3. PICK x \in Rest : \A y \in Rest : x <= y
    BY <1>2
  <1>4. x \in Nat /\ x # 0
    OBVIOUS
  <1>5. x - 1 \in Nat /\ (x - 1) + 1 = x /\ ~(x <= x - 1)
    BY <1>4
  <1>. QED  BY <1>3, <1>5

Powers == {p \in Nat \ {0} : IsPowerOf2(p)}

LEMMA DivUnique ==
    ASSUME NEW p \in Nat \ {0}, NEW q \in Nat, NEW r \in Nat, r < p
    PROVE  (p * q + r) \div p = q /\ (p * q + r) % p = r
  <1>. DEFINE x == p * q + r
  <1>1. x \in Nat
    OBVIOUS
  <1>. HIDE DEF x
  <1>2. PICK s \in Nat, t \in Nat : s = x \div p /\ t = x % p /\ t < p /\ x = p * s + t
    BY <1>1, DivMod
  <1>3. p * q + r = p * s + t
    BY <1>2 DEF x
  <1>4. p * q + r <= p * s + t /\ p * s + t <= p * q + r
    <2>1. p * q + r \in Nat
      OBVIOUS
    <2>. QED  BY <1>3, <2>1
  <1>5. q < s \/ (q = s /\ r <= t)
    BY <1>2, <1>4, DivModOrder
  <1>6. s < q \/ (s = q /\ t <= r)
    BY <1>2, <1>4, DivModOrder
  <1>7. q = s /\ r = t
    BY <1>2, <1>5, <1>6
  <1>. QED  BY <1>2, <1>7 DEF x

LEMMA Divides ==
    ASSUME NEW x \in Nat, NEW p \in Nat \ {0}
    PROVE  x % p = 0 <=> \E k \in Nat : x = p * k
  <1>1. ASSUME x % p = 0 PROVE \E k \in Nat : x = p * k
    <2>1. PICK k \in Nat : x = p * k + (x % p)
      BY DivMod
    <2>2. p * k \in Nat
      OBVIOUS
    <2>. QED  BY <1>1, <2>1, <2>2
  <1>2. ASSUME NEW k \in Nat, x = p * k PROVE x % p = 0
    <2>1. 0 \in Nat /\ 0 < p /\ p * k \in Nat
      OBVIOUS
    <2>2. (p * k + 0) % p = 0
      BY <2>1, DivUnique
    <2>. QED  BY <1>2, <2>1, <2>2
  <1>. QED  BY <1>1, <1>2

\* Odd times odd is odd.
LEMMA OddTimes ==
    ASSUME NEW a \in Nat, NEW b \in Nat, a % 2 = 1, b % 2 = 1
    PROVE  (a * b) % 2 = 1
  <1>1. PICK i \in Nat, j \in Nat : a = 2 * i + 1 /\ b = 2 * j + 1
    <2>1. a \div 2 \in Nat /\ b \div 2 \in Nat /\ a = 2 * (a \div 2) + 1 /\ b = 2 * (b \div 2) + 1
      OBVIOUS
    <2>. QED  BY <2>1
  <1>2. a * b = 2 * (2 * (i * j) + i + j) + 1
    BY <1>1
  <1>3. 2 * (i * j) + i + j \in Nat
    OBVIOUS
  <1>4. 1 \in Nat /\ 1 < 2 /\ 2 \in Nat \ {0}
    OBVIOUS
  <1>. HIDE DEF Powers
  <1>. QED  BY <1>2, <1>3, <1>4, DivUnique

LEMMA OneIsPower == 1 \in Powers
  BY DEF Powers, IsPowerOf2

LEMMA HalfIsPower ==
    ASSUME NEW p \in Powers, p # 1
    PROVE  \E q \in Powers : p = 2 * q
  <1>1. p \in Nat /\ p >= 2 /\ \A r \in 2..p : p % r = 0 => r % 2 = 0
    BY DEF Powers, IsPowerOf2
  <1>2. p % p = 0
    <2>1. p = p * 1 /\ 1 \in Nat
      BY <1>1
    <2>. QED  BY <1>1, <2>1, Divides
  <1>3. p % 2 = 0
    <2>1. p \in 2..p
      BY <1>1
    <2>. QED  BY <1>1, <1>2, <2>1
  <1>4. PICK q \in Nat : p = 2 * q
    BY <1>1, <1>3, Divides
  <1>5. q \in Nat \ {0}
    BY <1>1, <1>4
  <1>6. ASSUME NEW r \in 2..q, q % r = 0 PROVE r % 2 = 0
    <2>1. r \in Nat \ {0} /\ r \in 2..p
      BY <1>4
    <2>2. PICK k \in Nat : q = r * k
      BY <1>6, <2>1, Divides
    <2>3. p = r * (2 * k) /\ 2 * k \in Nat
      BY <1>4, <2>1, <2>2
    <2>4. p % r = 0
      BY <1>1, <2>1, <2>3, Divides
    <2>. QED  BY <1>1, <2>1, <2>4
  <1>. QED  BY <1>4, <1>5, <1>6 DEF Powers, IsPowerOf2

LEMMA TwiceIsPower ==
    ASSUME NEW q \in Powers
    PROVE  2 * q \in Powers
  <1>1. q \in Nat \ {0} /\ \A r \in 2..q : q % r = 0 => r % 2 = 0
    BY DEF Powers, IsPowerOf2
  <1>2. ASSUME NEW r \in 2..(2 * q), (2 * q) % r = 0, r % 2 # 0 PROVE FALSE
    <2>1. r \in Nat \ {0} /\ r % 2 = 1
      BY <1>2
    <2>2. PICK k \in Nat : 2 * q = r * k
      BY <1>1, <1>2, <2>1, Divides
    <2>3. k % 2 = 0
      <3>1. SUFFICES ASSUME k % 2 = 1 PROVE FALSE
        OBVIOUS
      <3>2. (r * k) % 2 = 1
        BY <2>1, <3>1, OddTimes
      <3>3. (2 * q) % 2 = 0
        BY <1>1
      <3>. QED  BY <2>2, <3>2, <3>3
    <2>4. PICK j \in Nat : k = 2 * j
      BY <2>3, Divides
    <2>5. q = r * j
      <3>1. 2 * q = 2 * (r * j)
        BY <2>1, <2>2, <2>4
      <3>2. r * j \in Nat
        BY <2>1
      <3>. QED  BY <1>1, <3>1, <3>2
    <2>6. j # 0
      BY <1>1, <2>1, <2>5
    <2>7. r <= q
      BY <1>1, <2>1, <2>5, <2>6
    <2>8. q % r = 0
      BY <1>1, <2>1, <2>5, Divides
    <2>9. r \in 2..q
      BY <2>1, <2>7
    <2>. QED  BY <1>1, <1>2, <2>8, <2>9
  <1>3. 2 * q \in Nat \ {0}
    BY <1>1
  <1>. QED  BY <1>2, <1>3 DEF Powers, IsPowerOf2

\* Each power of two divides the larger ones.
LEMMA PowersDivide ==
    ASSUME NEW p \in Powers, NEW q \in Powers, p <= q
    PROVE  \E k \in Nat \ {0} : q = p * k
  <1>. DEFINE Good(a, b) == \E k \in Nat \ {0} : b = a * k
              S == {i \in Nat : \A a, b \in Powers : a <= b /\ b <= i => Good(a, b)}
  <1>1. \A a \in Powers : a \in Nat /\ a # 0
    BY DEF Powers
  <1>2. 0 \in S
    BY <1>1
  <1>3. ASSUME NEW i \in Nat, i \in S PROVE i + 1 \in S
    <2>1. SUFFICES ASSUME NEW a \in Powers, NEW b \in Powers, a <= b, b <= i + 1
                   PROVE  Good(a, b)
      OBVIOUS
    <2>2. CASE a = b
      <3>1. b = a * 1 /\ 1 \in Nat \ {0}
        BY <1>1, <2>2
      <3>. QED  BY <3>1
    <2>3. CASE a = 1
      <3>1. b = a * b /\ b \in Nat \ {0}
        BY <1>1, <2>3
      <3>. QED  BY <3>1
    <2>4. CASE a # b /\ a # 1
      <3>1. b # 1
        BY <1>1, <2>1, <2>4
      <3>2. PICK c \in Powers : a = 2 * c
        BY <2>4, HalfIsPower
      <3>3. PICK d \in Powers : b = 2 * d
        BY <3>1, HalfIsPower
      <3>4. c <= d /\ d <= i
        BY <1>1, <2>1, <3>2, <3>3
      <3>5. PICK k \in Nat \ {0} : d = c * k
        BY <1>3, <3>4
      <3>6. b = a * k
        BY <1>1, <3>2, <3>3, <3>5
      <3>. QED  BY <3>6
    <2>. QED  BY <2>2, <2>3, <2>4
  <1>. HIDE DEF S
  <1>4. \A i \in Nat : i \in S
    BY <1>2, <1>3, AllNumbers
  <1>5. q \in S /\ q <= q
    BY <1>1, <1>4
  <1>. QED  BY <1>5 DEF S

\* ... and so does twice it those that are larger than it.
LEMMA PowersDouble ==
    ASSUME NEW p \in Powers, NEW q \in Powers, p < q
    PROVE  2 * p <= q /\ \E k \in Nat \ {0} : q = (2 * p) * k
  <1>1. p \in Nat \ {0} /\ q \in Nat \ {0}
    BY DEF Powers
  <1>2. PICK k \in Nat \ {0} : q = p * k
    BY <1>1, PowersDivide
  <1>3. k # 1
    BY <1>1, <1>2
  <1>4. 2 * p <= q
    <2>1. PICK j \in Nat : k = 2 + j
      <3>1. k - 2 \in Nat
        BY <1>3
      <3>. QED  BY <3>1
    <2>2. q = 2 * p + p * j /\ p * j \in Nat
      BY <1>1, <1>2, <2>1
    <2>. QED  BY <1>1, <2>2
  <1>5. 2 * p \in Powers
    BY TwiceIsPower
  <1>. QED  BY <1>4, <1>5, PowersDivide

---------------------------------------------------------------------------
\* The loop of dropOldSnapshots.

\* The one bits of x are where the quotient by the bit is odd.
LEMMA OnesAre ==
    ASSUME NEW x \in Nat, NEW p \in Powers
    PROVE  p \in Ones(x) <=> (x \div p) % 2 = 1
  <1>1. p \in Nat \ {0} /\ IsPowerOf2(p)
    BY DEF Powers
  <1>2. ASSUME (x \div p) % 2 = 1 PROVE p \in 1..x
    <2>1. PICK k \in Nat, r \in Nat : k = x \div p /\ x = p * k + r
      BY <1>1, DivMod
    <2>2. k # 0
      BY <1>2, <2>1
    <2>3. p * k >= p
      BY <1>1, <2>1, <2>2
    <2>4. p * k \in Nat
      BY <1>1
    <2>. QED  BY <1>1, <2>1, <2>3, <2>4
  <1>. QED  BY <1>1, <1>2 DEF Ones

\* "(count + N) ^ (count + N + 1)": the powers of two that divide the larger.
LEMMA BitsThatFlip ==
    ASSUME NEW x \in Nat
    PROVE  Xor(Ones(x), Ones(x + 1)) = {p \in Powers : (x + 1) % p = 0}
  <1>1. Ones(x) \subseteq Powers /\ Ones(x + 1) \subseteq Powers
    BY DEF Ones, Powers
  <1>2. ASSUME NEW p \in Powers
        PROVE  (p \in Ones(x) <=> p \notin Ones(x + 1)) <=> (x + 1) % p = 0
    <2>1. p \in Nat \ {0} /\ x + 1 \in Nat
      BY DEF Powers
    <2>2. /\ p \in Ones(x) <=> (x \div p) % 2 = 1
          /\ p \in Ones(x + 1) <=> ((x + 1) \div p) % 2 = 1
      BY <2>1, OnesAre
    <2>3. PICK k \in Nat, r \in Nat :
                 /\ k = (x + 1) \div p /\ r = (x + 1) % p /\ r < p /\ x + 1 = p * k + r
      BY <2>1, DivMod
    <2>4. CASE r = 0
      <3>1. p * k \in Nat /\ x + 1 = p * k /\ k # 0
        BY <2>1, <2>3, <2>4
      <3>2. x = p * (k - 1) + (p - 1) /\ k - 1 \in Nat /\ p - 1 \in Nat /\ p - 1 < p
        BY <2>1, <3>1
      <3>3. x \div p = k - 1
        BY <2>1, <3>2, DivUnique
      <3>4. (k - 1) % 2 = 1 <=> k % 2 # 1
        BY <3>1
      <3>. QED  BY <2>2, <2>3, <2>4, <3>3, <3>4
    <2>5. CASE r # 0
      <3>1. x = p * k + (r - 1) /\ r - 1 \in Nat /\ r - 1 < p
        <4>1. p * k \in Nat
          BY <2>1
        <4>. QED  BY <2>1, <2>3, <2>5, <4>1
      <3>2. x \div p = k
        BY <2>1, <3>1, DivUnique
      <3>. QED  BY <2>2, <2>3, <2>5, <3>2
    <2>. QED  BY <2>4, <2>5
  <1>. QED  BY <1>1, <1>2 DEF Xor

\* y after the shifts that bring it to the round of p.
Flipped(m, p) == {q \in Powers : m % (p * q) = 0}

\* The bit that ">>= 1" moves to the one it checks.
LEMMA Halves ==
    ASSUME NEW m \in Nat, NEW p \in Nat \ {0}
    PROVE  /\ Halved(Flipped(m, p)) = Flipped(m, 2 * p)
           /\ Halved(Flipped(m, p)) = {} <=> m % (2 * p) # 0
  <1>1. ASSUME NEW q \in Powers
        PROVE  q \in Flipped(m, 2 * p) <=> 2 * q \in Flipped(m, p)
    <2>1. (2 * p) * q = p * (2 * q)
      BY DEF Powers
    <2>. QED  BY <2>1, TwiceIsPower DEF Flipped
  <1>2. ASSUME NEW q \in Flipped(m, p) \ {1}
        PROVE  \E h \in Powers : q = 2 * h /\ h = q \div 2
    <2>1. PICK h \in Powers : q = 2 * h
      BY HalfIsPower DEF Flipped
    <2>2. (2 * h) \div 2 = h
      BY DEF Powers
    <2>. QED  BY <2>1, <2>2
  <1>3. ASSUME NEW q \in Powers PROVE 2 * q # 1 /\ (2 * q) \div 2 = q
    BY DEF Powers
  <1>4. Halved(Flipped(m, p)) = Flipped(m, 2 * p)
    <2>1. ASSUME NEW h \in Halved(Flipped(m, p)) PROVE h \in Flipped(m, 2 * p)
      <3>1. PICK q \in Flipped(m, p) \ {1} : h = q \div 2
        BY DEF Halved
      <3>. QED  BY <1>1, <1>2, <3>1
    <2>2. ASSUME NEW h \in Flipped(m, 2 * p) PROVE h \in Halved(Flipped(m, p))
      <3>1. h \in Powers
        BY DEF Flipped
      <3>. QED  BY <1>1, <1>3, <3>1 DEF Halved
    <2>. QED  BY <2>1, <2>2
  <1>5. m % (2 * p) = 0 => 1 \in Flipped(m, 2 * p)
    <2>1. (2 * p) * 1 = 2 * p
      OBVIOUS
    <2>. QED  BY <2>1, OneIsPower DEF Flipped
  <1>6. ASSUME NEW q \in Flipped(m, 2 * p) PROVE m % (2 * p) = 0
    <2>1. q \in Nat \ {0} /\ m % ((2 * p) * q) = 0 /\ (2 * p) * q \in Nat \ {0}
      BY DEF Flipped, Powers
    <2>2. PICK k \in Nat : m = ((2 * p) * q) * k
      BY <2>1, Divides
    <2>3. m = (2 * p) * (q * k) /\ q * k \in Nat /\ 2 * p \in Nat \ {0}
      BY <2>1, <2>2
    <2>. QED  BY <2>3, Divides
  <1>. QED  BY <1>4, <1>5, <1>6

LEMMA DistanceIs ==
    ASSUME NEW N \in Nat \ {0}, NEW p \in Nat \ {0}
    PROVE  /\ Distance(N, p) \in Nat \ {0} /\ Distance(N, p) >= p
           /\ Distance(N, 2 * p) = Distance(N, p) + (2*N + 1) * p
           /\ \A q \in Nat \ {0} : p < q => Distance(N, p) < Distance(N, q)
  <1>1. (2*N + 1) * p = p + 2 * (N * p) /\ N * p >= N /\ N * p \in Nat
    OBVIOUS
  <1>2. Distance(N, p) = p + 2 * (N * p) - (N + 1)
    BY <1>1 DEF Distance
  <1>3. Distance(N, 2 * p) = Distance(N, p) + (2*N + 1) * p
    <2>1. (2*N + 1) * (2 * p) = (2*N + 1) * p + (2*N + 1) * p
      OBVIOUS
    <2>2. (2*N + 1) * p \in Nat
      OBVIOUS
    <2>. QED  BY <2>1, <2>2 DEF Distance
  <1>4. ASSUME NEW q \in Nat \ {0}, p < q PROVE Distance(N, p) < Distance(N, q)
    <2>1. (2*N + 1) * q = q + 2 * (N * q) /\ N * q \in Nat
      OBVIOUS
    <2>2. N * p < N * q
      BY <1>4
    <2>. QED  BY <1>1, <1>4, <2>1, <2>2 DEF Distance
  <1>. QED  BY <1>1, <1>2, <1>3, <1>4

\* The state of the loop when it is about to erase at distance p, if at all.
Walk(N, count, s, p) ==
    /\ p \in Powers
    /\ s = [y |-> Flipped(count + N + 1, p), d |-> Distance(N, p), d2 |-> (2*N + 1) * p,
            erased |-> {count - Distance(N, q) : q \in {q \in Powers : q < p}}]
    /\ \A q \in Powers : q < p => Reached(N, count, q)

\* The loop would return.
Returns(count, s) == Halved(s.y) = {} \/ count < s.d

LEMMA FirstWalk ==
    ASSUME NEW N \in Nat \ {0}, NEW count \in Nat
    PROVE  Walk(N, count, FirstRound(N, count), 1)
  <1>1. {q \in Powers : q < 1} = {} /\ \A q \in Powers : ~(q < 1)
    BY DEF Powers
  <1>2. Xor(Ones(count + N), Ones(count + N + 1)) = Flipped(count + N + 1, 1)
    <2>1. \A p \in Powers : 1 * p = p
      BY DEF Powers
    <2>2. count + N \in Nat
      OBVIOUS
    <2>3. Xor(Ones(count + N), Ones(count + N + 1)) = {p \in Powers : (count + N + 1) % p = 0}
      BY <2>2, BitsThatFlip
    <2>. QED  BY <2>1, <2>3 DEF Flipped
  <1>3. Distance(N, 1) = N /\ (2*N + 1) * 1 = 2*N + 1
    BY DEF Distance
  <1>. QED  BY <1>1, <1>2, <1>3, OneIsPower DEF Walk, FirstRound

LEMMA NextWalk ==
    ASSUME NEW N \in Nat \ {0}, NEW count \in Nat, NEW s, NEW p, Walk(N, count, s, p)
    PROVE  /\ Returns(count, s) => Round(count, s) = s
           /\ ~Returns(count, s) => Walk(N, count, Round(count, s), 2 * p)
  <1>1. p \in Powers /\ p \in Nat \ {0}
    BY DEF Walk, Powers
  <1>2. Returns(count, s) => Round(count, s) = s
    BY DEF Returns, Round
  <1>3. ASSUME ~Returns(count, s) PROVE Walk(N, count, Round(count, s), 2 * p)
    <2>1. /\ s.y = Flipped(count + N + 1, p) /\ s.d = Distance(N, p) /\ s.d2 = (2*N + 1) * p
          /\ s.erased = {count - Distance(N, q) : q \in {q \in Powers : q < p}}
      BY DEF Walk
    <2>2. /\ Halved(s.y) = Flipped(count + N + 1, 2 * p)
          /\ Halved(s.y) = {} <=> (count + N + 1) % (2 * p) # 0
      BY <1>1, <2>1, Halves
    <2>3. Reached(N, count, p)
      <3>1. Distance(N, p) \in Nat
        BY <1>1, DistanceIs
      <3>. QED  BY <1>3, <2>1, <2>2, <3>1 DEF Returns, Reached
    <2>4. \A q \in Powers : q < 2 * p <=> (q < p \/ q = p)
      <3>1. ASSUME NEW q \in Powers, q < 2 * p, ~(q < p), q # p PROVE FALSE
        <4>1. q \in Nat /\ p < q
          BY <1>1, <3>1 DEF Powers
        <4>2. 2 * p <= q
          BY <1>1, <4>1, PowersDouble
        <4>. QED  BY <1>1, <3>1, <4>1, <4>2
      <3>2. ASSUME NEW q \in Powers, q < p \/ q = p PROVE q < 2 * p
        BY <1>1, <3>2 DEF Powers
      <3>. QED  BY <3>1, <3>2
    <2>5. {q \in Powers : q < 2 * p} = {q \in Powers : q < p} \cup {p}
      BY <1>1, <2>4
    <2>6. Round(count, s) = [y |-> Halved(s.y), d |-> s.d + s.d2, d2 |-> 2 * s.d2,
                             erased |-> s.erased \cup {count - s.d}]
      BY <1>3 DEF Returns, Round
    <2>7. s.erased \cup {count - s.d} =
              {count - Distance(N, q) : q \in {q \in Powers : q < 2 * p}}
      BY <2>1, <2>5
    <2>8. s.d + s.d2 = Distance(N, 2 * p)
      BY <1>1, <2>1, DistanceIs
    <2>9. 2 * s.d2 = (2*N + 1) * (2 * p)
      BY <1>1, <2>1
    <2>10. \A q \in Powers : q < 2 * p => Reached(N, count, q)
      BY <2>3, <2>4 DEF Walk
    <2>. QED  BY <1>1, <2>2, <2>6, <2>7, <2>8, <2>9, <2>10, TwiceIsPower DEF Walk
  <1>. QED  BY <1>2, <1>3

\* The rounds, one after the other.
LEMMA RoundsExist ==
    ASSUME NEW count, NEW s
    PROVE  \A n \in Nat : \E f : f = [i \in 0..n |-> IF i = 0 THEN s ELSE Round(count, f[i - 1])]
  <1>. DEFINE Is(n, f) == f = [i \in 0..n |-> IF i = 0 THEN s ELSE Round(count, f[i - 1])]
              S == {n \in Nat : \E f : Is(n, f)}
  <1>1. 0 \in S
    <2>1. Is(0, [i \in 0..0 |-> s])
      OBVIOUS
    <2>. QED  BY <2>1
  <1>2. ASSUME NEW n \in Nat, n \in S PROVE n + 1 \in S
    <2>1. PICK f : Is(n, f)
      BY <1>2
    <2>. DEFINE g == [i \in 0..(n + 1) |-> IF i = n + 1 THEN Round(count, f[n]) ELSE f[i]]
    <2>2. ASSUME NEW i \in 0..(n + 1)
          PROVE  g[i] = IF i = 0 THEN s ELSE Round(count, g[i - 1])
      <3>1. CASE i = n + 1
        <4>1. i # 0 /\ i - 1 = n /\ n \in 0..(n + 1) /\ n # n + 1
          BY <3>1
        <4>. QED  BY <3>1, <4>1
      <3>2. CASE i # n + 1
        <4>1. i \in 0..n
          BY <3>2
        <4>2. f[i] = IF i = 0 THEN s ELSE Round(count, f[i - 1])
          BY <2>1, <4>1
        <4>3. i # 0 => i - 1 \in 0..(n + 1) /\ i - 1 # n + 1
          BY <4>1
        <4>. QED  BY <3>2, <4>1, <4>2, <4>3
      <3>. QED  BY <3>1, <3>2
    <2>3. g = [i \in 0..(n + 1) |-> g[i]]
      OBVIOUS
    <2>. HIDE DEF g
    <2>4. Is(n + 1, g)
      BY <2>2, <2>3
    <2>. QED  BY <2>4
  <1>. HIDE DEF S
  <1>3. \A n \in Nat : n \in S
    BY <1>1, <1>2, AllNumbers
  <1>. QED  BY <1>3 DEF S

\* The last of "count" rounds returns, wherever the walk has come by then.
LEMMA WalkEnds ==
    ASSUME NEW N \in Nat \ {0}, NEW count \in Nat
    PROVE  \E s, p : /\ Walk(N, count, s, p) /\ Returns(count, s)
                     /\ LoopDropped(N, count) = s.erased
  <1>. DEFINE f == CHOOSE f : f = [i \in 0..count |-> IF i = 0 THEN FirstRound(N, count)
                                                      ELSE Round(count, f[i - 1])]
  <1>1. f = [i \in 0..count |-> IF i = 0 THEN FirstRound(N, count) ELSE Round(count, f[i - 1])]
    BY RoundsExist
  <1>2. LoopDropped(N, count) = f[count].erased
    BY DEF LoopDropped
  <1>. HIDE DEF f
  <1>. DEFINE Fine(i) == \E p : /\ Walk(N, count, f[i], p)
                                /\ Returns(count, f[i]) \/ p > i
              S == {i \in Nat : i <= count => Fine(i)}
  <1>3. 0 \in S
    <2>1. f[0] = FirstRound(N, count) /\ 1 > 0
      BY <1>1
    <2>. QED  BY <2>1, FirstWalk
  <1>4. ASSUME NEW i \in Nat, i \in S PROVE i + 1 \in S
    <2>1. SUFFICES ASSUME i + 1 <= count PROVE Fine(i + 1)
      OBVIOUS
    <2>2. f[i + 1] = Round(count, f[i])
      <3>1. i + 1 \in 0..count /\ i + 1 # 0 /\ (i + 1) - 1 = i
        BY <2>1
      <3>. QED  BY <1>1, <3>1
    <2>3. i <= count
      BY <2>1
    <2>4. PICK p : Walk(N, count, f[i], p) /\ (Returns(count, f[i]) \/ p > i)
      BY <1>4, <2>3
    <2>5. CASE Returns(count, f[i])
      <3>1. f[i + 1] = f[i]
        BY <2>2, <2>4, <2>5, NextWalk
      <3>. QED  BY <2>4, <2>5, <3>1
    <2>6. CASE ~Returns(count, f[i])
      <3>1. Walk(N, count, f[i + 1], 2 * p)
        BY <2>2, <2>4, <2>6, NextWalk
      <3>2. p \in Nat /\ p > i
        BY <2>4, <2>6 DEF Walk, Powers
      <3>3. 2 * p > i + 1
        BY <3>2
      <3>. QED  BY <3>1, <3>3
    <2>. QED  BY <2>5, <2>6
  <1>. HIDE DEF S
  <1>5. count \in S
    BY <1>3, <1>4, AllNumbers
  <1>6. PICK p : Walk(N, count, f[count], p) /\ (Returns(count, f[count]) \/ p > count)
    BY <1>5 DEF S
  <1>7. Returns(count, f[count])
    <2>1. SUFFICES ASSUME p > count PROVE count < f[count].d
      BY <1>6 DEF Returns
    <2>2. p \in Nat \ {0} /\ f[count].d = Distance(N, p)
      BY <1>6 DEF Walk, Powers
    <2>3. Distance(N, p) \in Nat /\ Distance(N, p) >= p
      BY <2>2, DistanceIs
    <2>. QED  BY <2>1, <2>2, <2>3
  <1>. QED  BY <1>2, <1>6, <1>7

\* dropOldSnapshots erases what SnapshotPruning says.
LEMMA LoopIs ==
    ASSUME NEW N \in Nat \ {0}, NEW count \in Nat
    PROVE  LoopDropped(N, count) = Dropped(N, count)
  <1>1. PICK s, p : /\ Walk(N, count, s, p) /\ Returns(count, s)
                    /\ LoopDropped(N, count) = s.erased
    BY WalkEnds
  <1>2. /\ p \in Powers /\ p \in Nat \ {0}
        /\ s.y = Flipped(count + N + 1, p) /\ s.d = Distance(N, p)
        /\ s.erased = {count - Distance(N, q) : q \in {q \in Powers : q < p}}
        /\ \A q \in Powers : q < p => Reached(N, count, q)
    BY <1>1 DEF Walk, Powers
  <1>3. (count + N + 1) % (2 * p) # 0 \/ count < Distance(N, p)
    <2>1. count + N + 1 \in Nat
      OBVIOUS
    <2>2. Halved(s.y) = {} <=> (count + N + 1) % (2 * p) # 0
      BY <1>2, <2>1, Halves
    <2>. QED  BY <1>1, <1>2, <2>2 DEF Returns
  <1>4. ASSUME NEW q \in Powers, ~(q < p) PROVE ~Reached(N, count, q)
    <2>1. q \in Nat \ {0} /\ p <= q
      BY <1>2, <1>4 DEF Powers
    <2>2. CASE count < Distance(N, p)
      <3>1. Distance(N, p) \in Nat /\ Distance(N, q) \in Nat /\ Distance(N, p) <= Distance(N, q)
        <4>1. CASE p = q
          <5>1. Distance(N, p) \in Nat
            BY <1>2, DistanceIs
          <5>2. Distance(N, q) = Distance(N, p)
            BY <4>1
          <5>. QED  BY <5>1, <5>2
        <4>2. CASE p # q
          <5>1. p < q
            BY <1>2, <2>1, <4>2
          <5>2. Distance(N, p) \in Nat /\ Distance(N, q) \in Nat /\ Distance(N, p) < Distance(N, q)
            BY <1>2, <2>1, <5>1, DistanceIs
          <5>. QED  BY <5>2
        <4>. QED  BY <4>1, <4>2
      <3>. QED  BY <2>2, <3>1 DEF Reached
    <2>3. CASE (count + N + 1) % (2 * p) # 0
      <3>1. SUFFICES ASSUME (count + N + 1) % (2 * q) = 0 PROVE FALSE
        BY DEF Reached
      <3>2. PICK k \in Nat : q = p * k
        BY <1>2, <2>1, PowersDivide
      <3>3. count + N + 1 \in Nat /\ 2 * q \in Nat \ {0} /\ 2 * p \in Nat \ {0}
        BY <1>2, <2>1
      <3>4. PICK j \in Nat : count + N + 1 = (2 * q) * j
        BY <3>1, <3>3, Divides
      <3>5. count + N + 1 = (2 * p) * (k * j) /\ k * j \in Nat
        <4>1. (2 * (p * k)) * j = (2 * p) * (k * j)
          BY <1>2
        <4>. QED  BY <3>2, <3>4, <4>1
      <3>. QED  BY <2>3, <3>3, <3>5, Divides
    <2>. QED  BY <1>3, <2>2, <2>3
  <1>5. ASSUME NEW q \in Powers, Reached(N, count, q) PROVE q \in 1..(count + 1)
    <2>1. q \in Nat \ {0} /\ Distance(N, q) \in Nat /\ q <= Distance(N, q) /\ Distance(N, q) <= count
      BY <1>5, DistanceIs DEF Powers, Reached
    <2>. QED  BY <2>1
  <1>6. {q \in Powers : q < p} = {q \in 1..(count + 1) : Reached(N, count, q) /\ IsPowerOf2(q)}
    <2>1. ASSUME NEW q \in Powers, q < p
          PROVE  q \in 1..(count + 1) /\ Reached(N, count, q) /\ IsPowerOf2(q)
      BY <1>2, <1>5, <2>1 DEF Powers
    <2>2. ASSUME NEW q \in 1..(count + 1), Reached(N, count, q), IsPowerOf2(q)
          PROVE  q \in Powers /\ q < p
      <3>1. q \in Powers
        BY <2>2 DEF Powers
      <3>. QED  BY <1>4, <2>2, <3>1
    <2>. QED  BY <2>1, <2>2
  <1>. QED  BY <1>1, <1>2, <1>6 DEF Dropped

---------------------------------------------------------------------------
\* What is left of a recording that never goes back in time.

\* The closed form of what is left when the newest snapshot is c: those not yet
\* too old for the largest power of two that divides their index (p is that
\* power exactly when i % 2p = p).
Kept(N, c) ==
    {i \in 0..c : \A p \in Powers : i % (2 * p) = p => c - i < Distance(N, p)}

\* The inductive invariant of HistorySpec: LoopIsDropped alone says nothing of
\* which snapshots the earlier calls have left.
HistoryInv ==
    /\ perDistance \in Nat \ {0}
    /\ \E c \in Nat : left = Kept(perDistance, c)

LEMMA KeptRange ==
    ASSUME NEW N \in Nat \ {0}, NEW c \in Nat
    PROVE  Kept(N, c) \subseteq 0..c /\ 0 \in Kept(N, c) /\ c \in Kept(N, c)
  <1>1. ASSUME NEW p \in Powers
        PROVE  /\ p \in Nat \ {0} /\ 0 % (2 * p) # p /\ Distance(N, p) \in Nat \ {0}
    <2>1. p \in Nat \ {0}
      BY DEF Powers
    <2>2. 0 \in Nat /\ 2 * p \in Nat \ {0} /\ 0 < 2 * p /\ (2 * p) * 0 + 0 = 0
      BY <2>1
    <2>3. ((2 * p) * 0 + 0) % (2 * p) = 0
      BY <2>2, DivUnique
    <2>4. 0 % (2 * p) = 0
      BY <2>2, <2>3
    <2>. QED  BY <2>1, <2>4, DistanceIs
  <1>2. c - c = 0
    OBVIOUS
  <1>3. ASSUME NEW p \in Powers PROVE c - c < Distance(N, p)
    BY <1>1, <1>2
  <1>. QED  BY <1>1, <1>3 DEF Kept

LEMMA KeptNewest ==
    ASSUME HistoryInv, NEW c \in Nat, left = Kept(perDistance, c)
    PROVE  Newest = c
  <1>1. left \subseteq 0..c /\ c \in left
    BY KeptRange DEF HistoryInv
  <1>2. \A i \in left : i <= c /\ i \in Nat
    BY <1>1
  <1>. QED  BY <1>1, <1>2 DEF Newest

LEMMA DroppedIs ==
    ASSUME NEW N \in Nat \ {0}, NEW count \in Nat, NEW i \in Nat
    PROVE  i \in Dropped(N, count) <=>
              \E p \in Powers : Reached(N, count, p) /\ count - i = Distance(N, p)
  <1>1. i \in Dropped(N, count) <=>
           \E p \in 1..(count + 1) :
                Reached(N, count, p) /\ IsPowerOf2(p) /\ i = count - Distance(N, p)
    BY Zenon DEF Dropped
  <1>2. ASSUME NEW p \in Powers, Reached(N, count, p) PROVE p \in 1..(count + 1)
    <2>1. p \in Nat \ {0}
      BY DEF Powers
    <2>2. Distance(N, p) \in Nat /\ Distance(N, p) >= p
      BY <2>1, DistanceIs
    <2>. QED  BY <1>2, <2>1, <2>2 DEF Reached
  <1>3. ASSUME NEW p \in Powers
        PROVE  Distance(N, p) \in Nat /\ IsPowerOf2(p)
    <2>1. p \in Nat \ {0} /\ IsPowerOf2(p)
      BY DEF Powers
    <2>. QED  BY <2>1, DistanceIs
  <1>4. \A p \in 1..(count + 1) : IsPowerOf2(p) => p \in Powers
    BY DEF Powers
  <1>5. \A p \in Powers : i = count - Distance(N, p) <=> count - i = Distance(N, p)
    BY <1>3
  <1>. QED  BY <1>1, <1>2, <1>3, <1>4, <1>5

\* The snapshots that the next call erases are those that have become too old.
LEMMA KeptNext ==
    ASSUME NEW N \in Nat \ {0}, NEW c \in Nat
    PROVE  Kept(N, c + 1) = (Kept(N, c) \ Dropped(N, c + 1)) \cup {c + 1}
  <1>1. ASSUME NEW p \in Powers, NEW i \in 0..c
        PROVE  /\ p \in Nat \ {0} /\ Distance(N, p) \in Nat
               /\ c + 1 - i = Distance(N, p)
                    => (i % (2 * p) = p <=> (c + 1 + N + 1) % (2 * p) = 0)
    <2>0. p \in Nat \ {0} /\ i \in Nat
      BY DEF Powers
    <2>1. p \in Nat \ {0} /\ Distance(N, p) \in Nat /\ i \in Nat
      BY <2>0, DistanceIs
    <2>2. ASSUME c + 1 - i = Distance(N, p)
          PROVE  i % (2 * p) = p <=> (c + 1 + N + 1) % (2 * p) = 0
      <3>1. 2 * p \in Nat \ {0} /\ p < 2 * p /\ 0 \in Nat /\ 0 < 2 * p
        BY <2>1
      <3>2. c + 1 + N + 1 = i + (2*N + 1) * p
        <4>1. (2*N + 1) * p \in Nat
          BY <2>1
        <4>. QED  BY <2>1, <2>2, <4>1 DEF Distance
      <3>3. (2*N + 1) * p = (2 * p) * N + p
        BY <2>1
      <3>4. ASSUME i % (2 * p) = p PROVE (c + 1 + N + 1) % (2 * p) = 0
        <4>1. PICK k \in Nat : i = (2 * p) * k + p
          BY <2>1, <3>1, <3>4, DivMod
        <4>2. c + 1 + N + 1 = (2 * p) * k + p + (2 * p) * N + p
          <5>1. (2 * p) * k \in Nat /\ (2 * p) * N \in Nat
            BY <2>1
          <5>. QED  BY <2>1, <3>2, <3>3, <4>1, <5>1
        <4>3. (2 * p) * k + p + (2 * p) * N + p = (2 * p) * (k + N + 1)
          BY <2>1
        <4>4. k + N + 1 \in Nat /\ c + 1 + N + 1 \in Nat
          OBVIOUS
        <4>5. c + 1 + N + 1 = (2 * p) * (k + N + 1)
          BY <4>2, <4>3
        <4>. QED  BY <3>1, <4>4, <4>5, Divides
      <3>5. ASSUME (c + 1 + N + 1) % (2 * p) = 0 PROVE i % (2 * p) = p
        <4>1. PICK k \in Nat : c + 1 + N + 1 = (2 * p) * k
          <5>1. c + 1 + N + 1 \in Nat
            OBVIOUS
          <5>. QED  BY <3>1, <3>5, <5>1, Divides
        <4>2. PICK q \in Nat, r \in Nat : r < 2 * p /\ i = (2 * p) * q + r /\ r = i % (2 * p)
          BY <2>1, <3>1, DivMod
        <4>3. (2 * p) * k = (2 * p) * (q + N) + r + p
          <5>1. (2 * p) * (q + N) = (2 * p) * q + (2 * p) * N
            BY <2>1
          <5>2. (2 * p) * q \in Nat /\ (2 * p) * N \in Nat /\ (2 * p) * k \in Nat
            BY <2>1
          <5>. QED  BY <2>1, <3>2, <3>3, <4>1, <4>2, <5>1, <5>2
        <4>4. CASE r < p
          <5>1. r + p \in Nat /\ r + p < 2 * p /\ q + N \in Nat
            BY <2>1, <4>2, <4>4
          <5>2. ((2 * p) * (q + N) + (r + p)) % (2 * p) = r + p
            BY <3>1, <5>1, DivUnique
          <5>3. ((2 * p) * k + 0) % (2 * p) = 0
            BY <3>1, DivUnique
          <5>4. (2 * p) * k + 0 = (2 * p) * (q + N) + (r + p)
            <6>1. (2 * p) * k \in Nat /\ (2 * p) * (q + N) \in Nat
              BY <2>1
            <6>. QED  BY <2>1, <4>2, <4>3, <6>1
          <5>. QED  BY <2>1, <4>2, <5>2, <5>3, <5>4
        <4>5. CASE r >= p
          <5>1. r - p \in Nat /\ r - p < 2 * p /\ q + N + 1 \in Nat
            BY <2>1, <4>2, <4>5
          <5>2. ((2 * p) * (q + N + 1) + (r - p)) % (2 * p) = r - p
            BY <3>1, <5>1, DivUnique
          <5>3. ((2 * p) * k + 0) % (2 * p) = 0
            BY <3>1, DivUnique
          <5>4. (2 * p) * k + 0 = (2 * p) * (q + N + 1) + (r - p)
            <6>1. (2 * p) * k \in Nat /\ (2 * p) * (q + N) \in Nat
              BY <2>1
            <6>2. (2 * p) * (q + N + 1) = (2 * p) * (q + N) + 2 * p
              BY <2>1
            <6>. QED  BY <2>1, <4>2, <4>3, <6>1, <6>2
          <5>5. r - p = 0
            BY <5>2, <5>3, <5>4
          <5>. QED  BY <2>1, <4>2, <5>5
        <4>. QED  BY <2>1, <4>2, <4>4, <4>5
      <3>. QED  BY <3>4, <3>5
    <2>. QED  BY <2>1, <2>2
  <1>2. ASSUME NEW i \in 0..c PROVE i \in Dropped(N, c + 1) <=>
                \E p \in Powers : c + 1 - i = Distance(N, p) /\ i % (2 * p) = p
    <2>1. c + 1 \in Nat /\ i \in Nat
      OBVIOUS
    <2>2. i \in Dropped(N, c + 1) <=>
             \E p \in Powers : Reached(N, c + 1, p) /\ c + 1 - i = Distance(N, p)
      BY <2>1, DroppedIs
    <2>3. ASSUME NEW p \in Powers, c + 1 - i = Distance(N, p)
          PROVE  Reached(N, c + 1, p) <=> i % (2 * p) = p
      <3>1. Distance(N, p) <= c + 1
        BY <1>1, <2>3
      <3>2. i % (2 * p) = p <=> (c + 1 + N + 1) % (2 * p) = 0
        BY <1>1, <2>3
      <3>. QED  BY <3>1, <3>2 DEF Reached
    <2>. QED  BY <2>2, <2>3
  <1>3. ASSUME NEW i \in 0..c
        PROVE  i \in Kept(N, c + 1) <=> i \in Kept(N, c) /\ i \notin Dropped(N, c + 1)
    <2>1. ASSUME NEW p \in Powers
          PROVE  c + 1 - i < Distance(N, p) <=>
                    c - i < Distance(N, p) /\ c + 1 - i # Distance(N, p)
      <3>1. Distance(N, p) \in Nat
        BY <1>1
      <3>. QED  BY <3>1
    <2>2. i \in 0..(c + 1)
      OBVIOUS
    <2>3. i \in Kept(N, c + 1) <=>
            \A p \in Powers : i % (2 * p) = p => c + 1 - i < Distance(N, p)
      BY <2>2 DEF Kept
    <2>4. i \in Kept(N, c) <=>
            \A p \in Powers : i % (2 * p) = p => c - i < Distance(N, p)
      BY DEF Kept
    <2>. QED  BY <1>2, <2>1, <2>3, <2>4
  <1>4. c + 1 \in Kept(N, c + 1) /\ Kept(N, c + 1) \subseteq 0..(c + 1)
    <2>1. c + 1 \in Nat
      OBVIOUS
    <2>. QED  BY <2>1, KeptRange
  <1>5. Kept(N, c) \subseteq 0..c
    BY KeptRange
  <1>6. \A i \in 0..(c + 1) : i \in 0..c \/ i = c + 1
    OBVIOUS
  <1>7. c + 1 \notin 0..c
    OBVIOUS
  <1>8. ASSUME NEW i PROVE i \in Kept(N, c + 1) <=>
                            i \in (Kept(N, c) \ Dropped(N, c + 1)) \cup {c + 1}
    BY <1>3, <1>4, <1>5, <1>6, <1>7
  <1>. QED  BY <1>8

LEMMA HistoryInvariant == HistorySpec => []HistoryInv
  <1>1. HistoryInit => HistoryInv
    <2>1. SUFFICES ASSUME HistoryInit PROVE HistoryInv
      OBVIOUS
    <2>2. perDistance \in Nat \ {0} /\ left = {0}
      BY <2>1, HistoryAssumption DEF HistoryInit
    <2>3. Kept(perDistance, 0) = {0}
      <3>1. Kept(perDistance, 0) \subseteq 0..0 /\ 0 \in Kept(perDistance, 0)
        BY <2>2, KeptRange
      <3>2. \A i \in 0..0 : i = 0
        OBVIOUS
      <3>. QED  BY <3>1, <3>2
    <2>. QED  BY <2>2, <2>3 DEF HistoryInv
  <1>2. HistoryInv /\ [TakeNext]_historyVars => HistoryInv'
    <2>1. SUFFICES ASSUME HistoryInv, [TakeNext]_historyVars PROVE HistoryInv'
      OBVIOUS
    <2>2. CASE TakeNext
      <3>1. PICK c \in Nat : left = Kept(perDistance, c)
        BY <2>1 DEF HistoryInv
      <3>2. Newest = c
        BY <2>1, <3>1, KeptNewest
      <3>3. perDistance \in Nat \ {0} /\ c + 1 \in Nat
        BY <2>1 DEF HistoryInv
      <3>4. LoopDropped(perDistance, c + 1) = Dropped(perDistance, c + 1)
        BY <3>3, LoopIs
      <3>5. left' = Kept(perDistance, c + 1) /\ perDistance' = perDistance
        BY <2>2, <3>1, <3>2, <3>3, <3>4, KeptNext DEF TakeNext
      <3>. QED  BY <3>3, <3>5 DEF HistoryInv
    <2>3. CASE UNCHANGED historyVars
      BY <2>1, <2>3 DEF HistoryInv, historyVars
    <2>. QED  BY <2>1, <2>2, <2>3
  <1>. QED  BY <1>1, <1>2, PTL DEF HistorySpec

\* Whatever the template argument and however long the recording, the while
\* loop of dropOldSnapshots, with its shifted y and its growing d and d2, erases
\* what the divisibility rule of SnapshotPruning says.
THEOREM LoopAlwaysDropped == HistorySpec => []LoopIsDropped
  <1>1. HistoryInv => LoopIsDropped
    <2>1. SUFFICES ASSUME HistoryInv PROVE LoopIsDropped
      OBVIOUS
    <2>2. PICK c \in Nat : left = Kept(perDistance, c)
      BY <2>1 DEF HistoryInv
    <2>3. Newest + 1 \in Nat /\ perDistance \in Nat \ {0}
      <3>1. Newest = c
        BY <2>1, <2>2, KeptNewest
      <3>. QED  BY <2>1, <3>1 DEF HistoryInv
    <2>. QED  BY <2>3, LoopIs DEF LoopIsDropped
  <1>. QED  BY <1>1, HistoryInvariant, PTL

---------------------------------------------------------------------------
\* The distances between the snapshots that are left.

\* With m = Newest + N + 1: the multiples of q / 2 above it are left.
Edge(N, m, q) == q * ((m \div q) - N)

LEMMA EdgeIs ==
    ASSUME NEW N \in Nat \ {0}, NEW m \in Nat, NEW q \in Nat \ {0}
    PROVE  /\ Edge(N, m, q) \in Int /\ Edge(N, m, 2 * q) \in Int
           /\ \E e \in Int : Edge(N, m, q) = q * e
           /\ \E b \in {0, 1} :
                /\ m \div q = 2 * (m \div (2 * q)) + b
                /\ Edge(N, m, q) = Edge(N, m, 2 * q) + q * (N + b)
           /\ Edge(N, m, 2 * q) < Edge(N, m, q)
  <1>1. 2 * q \in Nat \ {0}
    OBVIOUS
  <1>2. PICK k \in Nat, r \in Nat : k = m \div (2 * q) /\ r < 2 * q /\ m = (2 * q) * k + r
    BY <1>1, DivMod
  <1>3. \E b \in {0, 1} : m \div q = 2 * k + b
    <2>1. (2 * q) * k = q * (2 * k)
      OBVIOUS
    <2>2. CASE r < q
      <3>1. m = q * (2 * k) + r /\ 2 * k \in Nat
        BY <1>2, <2>1
      <3>2. m \div q = 2 * k
        BY <1>2, <2>2, <3>1, DivUnique
      <3>. QED  BY <3>1, <3>2
    <2>3. CASE r >= q
      <3>1. q * (2 * k + 1) = q * (2 * k) + q
        OBVIOUS
      <3>2. r - q \in Nat /\ r - q < q /\ 2 * k + 1 \in Nat
        BY <1>2, <2>3
      <3>3. m = q * (2 * k + 1) + (r - q)
        <4>1. (2 * q) * k \in Nat
          OBVIOUS
        <4>. QED  BY <1>2, <2>1, <3>1, <4>1
      <3>4. m \div q = 2 * k + 1
        BY <3>2, <3>3, DivUnique
      <3>. QED  BY <3>4
    <2>. QED  BY <1>2, <2>2, <2>3
  <1>4. PICK b \in {0, 1} : m \div q = 2 * k + b
    BY <1>3
  <1>5. b \in Nat
    BY <1>4
  <1>6. Edge(N, m, q) = q * (2 * k + b - N) /\ Edge(N, m, 2 * q) = (2 * q) * (k - N)
    BY <1>2, <1>4 DEF Edge
  <1>7. q * (2 * k + b - N) = (2 * q) * (k - N) + q * (N + b)
    BY <1>5
  <1>8. q * (N + b) \in Nat /\ q * (N + b) > 0
    <2>1. N + b \in Nat /\ N + b > 0
      BY <1>5
    <2>. QED  BY <2>1
  <1>9. q * (2 * k + b - N) \in Int /\ (2 * q) * (k - N) \in Int /\ 2 * k + b - N \in Int
    BY <1>5
  <1>10. Edge(N, m, q) = Edge(N, m, 2 * q) + q * (N + b)
    BY <1>6, <1>7
  <1>11. Edge(N, m, q) \in Int /\ Edge(N, m, 2 * q) \in Int
    BY <1>6, <1>9
  <1>12. Edge(N, m, 2 * q) < Edge(N, m, q)
    BY <1>8, <1>10, <1>11
  <1>13. \E e \in Int : Edge(N, m, q) = q * e
    BY <1>6, <1>9
  <1>14. m \div q = 2 * (m \div (2 * q)) + b
    BY <1>2, <1>4
  <1>. QED  BY <1>10, <1>11, <1>12, <1>13, <1>14

\* The edges of larger powers of two are lower.
LEMMA EdgesFall ==
    ASSUME NEW N \in Nat \ {0}, NEW m \in Nat, NEW p \in Powers, NEW q \in Powers, p <= q
    PROVE  Edge(N, m, q) <= Edge(N, m, p)
  <1>1. p \in Nat \ {0} /\ q \in Nat \ {0}
    BY DEF Powers
  <1>2. PICK k \in Nat \ {0} : q = p * k
    BY PowersDivide
  <1>3. PICK a \in Nat, r \in Nat : a = m \div q /\ r < q /\ m = q * a + r
    BY <1>1, DivMod
  <1>4. PICK b \in Nat, s \in Nat : b = m \div p /\ s < p /\ m = p * b + s
    BY <1>1, DivMod
  <1>5. k * a <= b
    <2>1. p * (k * a) + 0 <= p * b + s
      <3>1. q * a = p * (k * a)
        BY <1>1, <1>2
      <3>2. q * a \in Nat /\ p * b \in Nat
        BY <1>1
      <3>3. p * (k * a) <= p * b + s
        BY <1>1, <1>3, <1>4, <3>1, <3>2
      <3>4. p * (k * a) + 0 = p * (k * a)
        BY <3>1, <3>2
      <3>. QED  BY <3>3, <3>4
    <2>2. k * a \in Nat /\ 0 \in Nat /\ 0 < p
      BY <1>1
    <2>3. k * a < b \/ (k * a = b /\ 0 <= s)
      BY <1>1, <1>4, <2>1, <2>2, DivModOrder
    <2>. QED  BY <2>2, <2>3
  <1>6. k * (a - N) <= b - N
    <2>1. k * (a - N) = k * a - k * N
      OBVIOUS
    <2>2. k * N >= N
      OBVIOUS
    <2>3. k * a \in Nat /\ k * N \in Nat
      OBVIOUS
    <2>. QED  BY <1>5, <2>1, <2>2, <2>3
  <1>7. PICK x \in Int, y \in Int : x = k * (a - N) /\ y = b - N /\ x <= y
    <2>1. k * (a - N) \in Int /\ b - N \in Int
      OBVIOUS
    <2>. QED  BY <1>6, <2>1
  <1>8. p * x <= p * y
    <2>1. PICK z \in Nat : y = x + z
      <3>1. y - x \in Nat /\ y = x + (y - x)
        BY <1>7
      <3>. QED  BY <3>1
    <2>2. p * y = p * x + p * z /\ p * z \in Nat /\ p * x \in Int
      BY <1>1, <2>1
    <2>. QED  BY <2>2
  <1>9. q * (a - N) = p * (k * (a - N))
    BY <1>1, <1>2
  <1>10. Edge(N, m, q) = p * x
    BY <1>3, <1>7, <1>9 DEF Edge
  <1>11. Edge(N, m, p) = p * y
    BY <1>4, <1>7 DEF Edge
  <1>. QED  BY <1>8, <1>10, <1>11

\* A power of two is the largest that divides i; all others leave another rest.
LEMMA LowestBit ==
    ASSUME NEW i \in Nat \ {0}
    PROVE  \E p \in Powers : i % (2 * p) = p
  <1>. DEFINE S == {n \in Nat : \E p \in Powers : p > n}
              Others == {q \in Powers : i % q # 0}
  <1>0. \A p \in Powers : p \in Nat \ {0}
    BY DEF Powers
  <1>1. i \in S
    <2>1. 0 \in S
      BY <1>0, OneIsPower
    <2>2. ASSUME NEW n \in Nat, n \in S PROVE n + 1 \in S
      <3>1. PICK p \in Powers : p > n
        BY <2>2
      <3>2. 2 * p \in Powers /\ 2 * p > n + 1
        BY <1>0, <3>1, TwiceIsPower
      <3>. QED  BY <3>2
    <2>. HIDE DEF S
    <2>. QED  BY <2>1, <2>2, AllNumbers
  <1>2. PICK p \in Powers : p > i
    BY <1>1
  <1>3. i % p # 0
    <2>1. p * 0 + i = i /\ 0 \in Nat /\ i < p
      BY <1>0, <1>2
    <2>2. (p * 0 + i) % p = i
      BY <1>0, <2>1, DivUnique
    <2>. QED  BY <2>1, <2>2
  <1>4. Others # {} /\ Others \subseteq Nat
    BY <1>0, <1>2, <1>3
  <1>5. PICK q \in Others : \A x \in Others : q <= x
    BY <1>4, MinOfNats
  <1>6. q # 1
    <2>1. i = 1 * i
      OBVIOUS
    <2>2. i % 1 = 0
      BY <2>1, Divides
    <2>. QED  BY <1>5, <2>2
  <1>7. PICK h \in Powers : q = 2 * h
    BY <1>5, <1>6, HalfIsPower
  <1>8. h \notin Others
    BY <1>0, <1>5, <1>7
  <1>9. PICK k \in Nat : i = h * k
    BY <1>0, <1>8, Divides
  <1>10. PICK a \in Nat, r \in {0, 1} : k = 2 * a + r
    <2>1. k \div 2 \in Nat /\ k % 2 \in {0, 1} /\ k = 2 * (k \div 2) + (k % 2)
      OBVIOUS
    <2>. QED  BY <2>1
  <1>11. i = (2 * h) * a + h * r /\ h * r \in Nat /\ h * r < 2 * h /\ 2 * h \in Nat \ {0}
    BY <1>0, <1>9, <1>10
  <1>12. i % (2 * h) = h * r
    BY <1>11, DivUnique
  <1>13. r = 1
    <2>1. SUFFICES ASSUME r = 0 PROVE FALSE
      BY <1>10
    <2>2. i % (2 * h) = 0
      BY <1>0, <1>12, <2>1
    <2>. QED  BY <1>5, <1>7, <2>2
  <1>14. h * r = h
    BY <1>0, <1>13
  <1>. QED  BY <1>12, <1>14

\* Twice a power divides what a larger one does.
LEMMA LargerDivides ==
    ASSUME NEW i \in Nat, NEW p \in Powers, NEW q \in Powers, p <= q, i % q = 0
    PROVE  i % p = 0 /\ (p < q => i % (2 * p) = 0)
  <1>1. p \in Nat \ {0} /\ q \in Nat \ {0} /\ 2 * p \in Nat \ {0}
    BY DEF Powers
  <1>2. PICK k \in Nat : i = q * k
    BY <1>1, Divides
  <1>3. i % p = 0
    <2>1. PICK j \in Nat : q = p * j
      BY PowersDivide
    <2>2. i = p * (j * k) /\ j * k \in Nat
      BY <1>1, <1>2, <2>1
    <2>. QED  BY <1>1, <2>2, Divides
  <1>4. ASSUME p < q PROVE i % (2 * p) = 0
    <2>1. PICK j \in Nat : q = (2 * p) * j
      BY <1>4, PowersDouble
    <2>2. i = (2 * p) * (j * k) /\ j * k \in Nat
      BY <1>1, <1>2, <2>1
    <2>. QED  BY <1>1, <2>2, Divides
  <1>. QED  BY <1>3, <1>4

\* A snapshot other than the oldest is left if a power of two that divides it
\* has its edge below it.
LEMMA KeptIs ==
    ASSUME NEW N \in Nat \ {0}, NEW c \in Nat, NEW i \in 1..c
    PROVE  i \in Kept(N, c) <=>
              \E p \in Powers : i % p = 0 /\ Edge(N, c + N + 1, 2 * p) < i
  <1>. DEFINE m == c + N + 1
  <1>0. m \in Nat /\ i \in Nat \ {0} /\ i \in 0..c
    OBVIOUS
  <1>1. ASSUME NEW p \in Powers, i % (2 * p) = p
        PROVE  i % p = 0 /\ (c - i < Distance(N, p) <=> Edge(N, m, 2 * p) < i)
    <2>1. p \in Nat \ {0} /\ 2 * p \in Nat \ {0}
      BY DEF Powers
    <2>2. PICK k \in Nat : i = (2 * p) * k + p
      BY <1>0, <1>1, <2>1, DivMod
    <2>3. i % p = 0
      <3>1. i = p * (2 * k + 1) /\ 2 * k + 1 \in Nat
        BY <2>1, <2>2
      <3>. QED  BY <1>0, <2>1, <3>1, Divides
    <2>4. PICK a \in Nat, r \in Nat : a = m \div (2 * p) /\ r < 2 * p /\ m = (2 * p) * a + r
      BY <1>0, <2>1, DivMod
    <2>5. Distance(N, p) = (2 * p) * N + p - (N + 1)
      <3>1. (2*N + 1) * p = (2 * p) * N + p
        BY <2>1
      <3>2. Distance(N, p) = (2*N + 1) * p - (N + 1)
        BY DEF Distance
      <3>3. (2*N + 1) * p - (N + 1) = (2 * p) * N + p - (N + 1)
        BY <2>1
      <3>. QED  BY <3>2, <3>3
    <2>6. PICK e \in Int : e = k + N - a
      OBVIOUS
    <2>7. (2 * p) * e = (2 * p) * k + (2 * p) * N - (2 * p) * a
      BY <2>1, <2>6
    <2>8. (2 * p) * k \in Nat /\ (2 * p) * N \in Nat /\ (2 * p) * a \in Nat /\ (2 * p) * e \in Int
      BY <2>1
    <2>9. c - i < Distance(N, p) <=> r < (2 * p) * e + 2 * p
      BY <1>0, <2>1, <2>2, <2>4, <2>5, <2>7, <2>8
    <2>10. Edge(N, m, 2 * p) = (2 * p) * a - (2 * p) * N
      BY <2>1, <2>4 DEF Edge
    <2>11. Edge(N, m, 2 * p) < i <=> 0 < (2 * p) * e + p
      BY <2>1, <2>2, <2>7, <2>8, <2>10
    <2>12. CASE e >= 0
      <3>1. (2 * p) * e >= 0
        BY <2>1, <2>12
      <3>. QED  BY <2>1, <2>3, <2>4, <2>8, <2>9, <2>11, <3>1
    <2>13. CASE e < 0
      <3>1. PICK z \in Nat : e = - 1 - z
        <4>1. - 1 - e \in Nat /\ e = - 1 - (- 1 - e)
          BY <2>13
        <4>. QED  BY <4>1
      <3>2. (2 * p) * e = - (2 * p) - (2 * p) * z /\ (2 * p) * z \in Nat
        BY <2>1, <3>1
      <3>3. ~(r < (2 * p) * e + 2 * p)
        BY <2>1, <2>4, <2>8, <3>2
      <3>4. ~(0 < (2 * p) * e + p)
        BY <2>1, <2>8, <3>2
      <3>. QED  BY <2>3, <2>9, <2>11, <3>3, <3>4
    <2>. QED  BY <2>12, <2>13
  <1>. HIDE DEF m
  <1>2. i \in Kept(N, c) <=> \A p \in Powers : i % (2 * p) = p => c - i < Distance(N, p)
    BY <1>0 DEF Kept
  <1>3. ASSUME i \in Kept(N, c)
        PROVE  \E p \in Powers : i % p = 0 /\ Edge(N, m, 2 * p) < i
    <2>1. PICK p \in Powers : i % (2 * p) = p
      BY <1>0, LowestBit
    <2>. QED  BY <1>1, <1>2, <1>3, <2>1
  <1>4. ASSUME NEW p \in Powers, i % p = 0, Edge(N, m, 2 * p) < i,
               NEW q \in Powers, i % (2 * q) = q
        PROVE  c - i < Distance(N, q)
    <2>0. p \in Nat \ {0} /\ q \in Nat \ {0}
      BY DEF Powers
    <2>1. p <= q
      <3>1. SUFFICES ASSUME q < p PROVE FALSE
        BY <2>0
      <3>2. i % (2 * q) = 0
        BY <1>0, <1>4, <2>0, <3>1, LargerDivides
      <3>. QED  BY <1>4, <2>0, <3>2
    <2>2. 2 * p \in Powers /\ 2 * q \in Powers /\ 2 * p <= 2 * q
      BY <2>0, <2>1, TwiceIsPower
    <2>3. Edge(N, m, 2 * q) <= Edge(N, m, 2 * p)
      BY <1>0, <2>2, EdgesFall
    <2>4. Edge(N, m, 2 * q) \in Int /\ Edge(N, m, 2 * p) \in Int
      BY <1>0, <2>0, EdgeIs
    <2>5. Edge(N, m, 2 * q) < i
      BY <1>0, <1>4, <2>3, <2>4
    <2>. QED  BY <1>1, <1>4, <2>5
  <1>5. (\E p \in Powers : i % p = 0 /\ Edge(N, m, 2 * p) < i) => i \in Kept(N, c)
    BY <1>2, <1>4
  <1>6. i \in Kept(N, c) <=> \E p \in Powers : i % p = 0 /\ Edge(N, m, 2 * p) < i
    BY <1>3, <1>5
  <1>. QED  BY <1>6 DEF m

\* The next older snapshot of i is at distance d.
At(N, m, i, d) ==
    d \in Powers /\ i % d = 0 /\ Edge(N, m, 2 * d) < i /\ i <= Edge(N, m, d)

LEMMA EdgeOne ==
    ASSUME NEW N \in Nat \ {0}, NEW c \in Nat
    PROVE  Edge(N, c + N + 1, 1) = c + 1
  <1>1. c + N + 1 \in Nat /\ 1 * (c + N + 1) + 0 = c + N + 1 /\ 1 \in Nat \ {0}
    OBVIOUS
  <1>2. (1 * (c + N + 1) + 0) \div 1 = c + N + 1
    BY <1>1, DivUnique
  <1>3. (c + N + 1) \div 1 = c + N + 1
    BY <1>1, <1>2
  <1>4. 1 * ((c + N + 1) - N) = c + 1
    OBVIOUS
  <1>. QED  BY <1>3, <1>4 DEF Edge

LEMMA AtSome ==
    ASSUME NEW N \in Nat \ {0}, NEW c \in Nat, NEW i \in Kept(N, c), i # 0
    PROVE  \E d \in Powers : At(N, c + N + 1, i, d)
  <1>. DEFINE m == c + N + 1
              Lower == {d \in Powers : Edge(N, m, 2 * d) < i}
  <1>0. m \in Nat /\ i \in 1..c
    BY KeptRange
  <1>1. \A p \in Powers : p \in Nat \ {0}
    BY DEF Powers
  <1>2. PICK p \in Powers : i % p = 0 /\ Edge(N, m, 2 * p) < i
    BY <1>0, KeptIs
  <1>3. Lower \subseteq Nat /\ Lower # {}
    BY <1>1, <1>2
  <1>4. PICK d \in Lower : \A e \in Lower : d <= e
    BY <1>3, MinOfNats
  <1>5. i % d = 0
    <2>1. d <= p
      BY <1>2, <1>4
    <2>. QED  BY <1>0, <1>2, <2>1, LargerDivides
  <1>6. i <= Edge(N, m, d)
    <2>1. CASE d = 1
      <3>1. Edge(N, m, d) = c + 1
        BY <2>1, EdgeOne
      <3>. QED  BY <1>0, <3>1
    <2>2. CASE d # 1
      <3>1. PICK h \in Powers : d = 2 * h
        BY <2>2, HalfIsPower
      <3>2. h \notin Lower
        BY <1>1, <1>4, <3>1
      <3>3. Edge(N, m, 2 * h) \in Int
        BY <1>0, <1>1, EdgeIs
      <3>. QED  BY <1>0, <3>1, <3>2, <3>3
    <2>. QED  BY <2>1, <2>2
  <1>. QED  BY <1>4, <1>5, <1>6 DEF At

LEMMA AtNext ==
    ASSUME NEW N \in Nat \ {0}, NEW c \in Nat, NEW i \in 1..c, NEW d,
           At(N, c + N + 1, i, d)
    PROVE  /\ d \in 1..i /\ i \in Kept(N, c) /\ i - d \in Kept(N, c)
           /\ \A e \in 1..(d - 1) : i - e \notin Kept(N, c)
  <1>. DEFINE m == c + N + 1
  <1>0. m \in Nat /\ i \in Nat \ {0}
    OBVIOUS
  <1>1. d \in Powers /\ i % d = 0 /\ Edge(N, m, 2 * d) < i /\ i <= Edge(N, m, d)
    BY DEF At
  <1>2. d \in Nat \ {0} /\ 2 * d \in Nat \ {0} /\ 2 * d \in Powers
    BY <1>1, TwiceIsPower DEF Powers
  <1>3. PICK k \in Nat : i = d * k
    BY <1>0, <1>1, <1>2, Divides
  <1>4. k >= 1 /\ d <= i
    <2>1. k # 0
      BY <1>0, <1>2, <1>3
    <2>2. d * k >= d
      BY <1>2, <2>1
    <2>. QED  BY <1>3, <2>1, <2>2
  <1>5. d \in 1..i
    BY <1>0, <1>2, <1>4
  <1>6. i \in Kept(N, c)
    BY <1>1, KeptIs
  <1>7. i - d \in Kept(N, c)
    <2>1. CASE i = d
      <3>1. i - d = 0
        BY <1>0, <2>1
      <3>. QED  BY <3>1, KeptRange
    <2>2. CASE i # d
      <3>1. i - d \in 1..c
        BY <1>0, <1>2, <1>4, <2>2
      <3>2. i - d = d * (k - 1) /\ k - 1 \in Nat
        BY <1>2, <1>3, <1>4
      <3>3. PICK e \in Int : Edge(N, m, 2 * d) = (2 * d) * e
        BY <1>0, <1>2, EdgeIs
      <3>4. (2 * d) * e = d * (2 * e) /\ 2 * e \in Int
        BY <1>2, <3>3
      <3>5. 2 * e <= k - 1
        <4>1. d * (2 * e) < d * k
          BY <1>1, <1>3, <3>3, <3>4
        <4>2. SUFFICES ASSUME 2 * e >= k PROVE FALSE
          BY <3>4
        <4>3. PICK z \in Nat : 2 * e = k + z
          <5>1. 2 * e - k \in Nat /\ 2 * e = k + (2 * e - k)
            BY <3>4, <4>2
          <5>. QED  BY <5>1
        <4>4. d * (2 * e) = d * k + d * z /\ d * z \in Nat /\ d * k \in Nat
          BY <1>2, <4>3
        <4>. QED  BY <4>1, <4>4
      <3>6. CASE 2 * e < k - 1
        <4>1. (i - d) % d = 0
          BY <1>2, <3>1, <3>2, Divides
        <4>2. d * (2 * e) < d * (k - 1)
          <5>1. PICK z \in Nat \ {0} : k - 1 = 2 * e + z
            <6>1. k - 1 - 2 * e \in Nat \ {0} /\ k - 1 = 2 * e + (k - 1 - 2 * e)
              BY <3>2, <3>4, <3>6
            <6>. QED  BY <6>1
          <5>2. d * (k - 1) = d * (2 * e) + d * z /\ d * z > 0 /\ d * z \in Nat
            BY <1>2, <3>4, <5>1
          <5>3. d * (2 * e) \in Int
            BY <1>2, <3>4
          <5>. QED  BY <5>2, <5>3
        <4>3. Edge(N, m, 2 * d) < i - d
          BY <3>2, <3>3, <3>4, <4>2
        <4>. QED  BY <1>1, <3>1, <4>1, <4>3, KeptIs
      <3>7. CASE 2 * e = k - 1
        <4>1. i - d = (2 * d) * e /\ e \in Nat
          <5>1. e \in Nat
            BY <3>2, <3>3, <3>7
          <5>. QED  BY <3>2, <3>4, <3>7, <5>1
        <4>2. (i - d) % (2 * d) = 0
          <5>1. PICK x \in Nat : x = i - d
            BY <3>1
          <5>2. \E j \in Nat : x = (2 * d) * j
            BY <4>1, <5>1
          <5>. QED  BY <1>2, <5>1, <5>2, Divides
        <4>3. Edge(N, m, 2 * (2 * d)) < Edge(N, m, 2 * d)
          BY <1>0, <1>2, EdgeIs
        <4>4. Edge(N, m, 2 * (2 * d)) < i - d
          BY <3>3, <4>1, <4>3
        <4>. QED  BY <1>2, <3>1, <4>2, <4>4, KeptIs
      <3>. QED  BY <3>2, <3>4, <3>5, <3>6, <3>7
    <2>. QED  BY <2>1, <2>2
  <1>8. ASSUME NEW e \in 1..(d - 1), i - e \in Kept(N, c) PROVE FALSE
    <2>1. i - e \in 1..c /\ i - e \in Nat /\ e \in Nat \ {0} /\ e < d
      BY <1>0, <1>2, <1>4
    <2>2. PICK p \in Powers : (i - e) % p = 0 /\ Edge(N, m, 2 * p) < i - e
      BY <1>8, <2>1, KeptIs
    <2>3. p \in Nat \ {0}
      BY DEF Powers
    <2>4. CASE d <= p
      <3>1. (i - e) % d = 0
        BY <1>1, <2>1, <2>2, <2>4, LargerDivides
      <3>2. PICK j \in Nat : i - e = d * j
        BY <1>2, <2>1, <3>1, Divides
      <3>3. d * k = d * j + e
        <4>1. d * j \in Nat
          BY <1>2
        <4>. QED  BY <1>0, <1>3, <2>1, <3>2, <4>1
      <3>4. (d * j + e) % d = e
        BY <1>2, <2>1, DivUnique
      <3>. QED  BY <1>1, <1>3, <2>1, <3>3, <3>4
    <2>5. CASE p < d
      <3>1. 2 * p <= d /\ 2 * p \in Powers
        BY <1>1, <2>5, PowersDouble, TwiceIsPower
      <3>2. Edge(N, m, d) <= Edge(N, m, 2 * p)
        BY <1>0, <1>1, <3>1, EdgesFall
      <3>3. Edge(N, m, d) \in Int /\ Edge(N, m, 2 * p) \in Int
        BY <1>0, <1>2, <2>3, EdgeIs
      <3>. QED  BY <1>0, <1>1, <2>1, <2>2, <3>2, <3>3
    <2>. QED  BY <1>2, <2>3, <2>4, <2>5
  <1>. QED  BY <1>5, <1>6, <1>7, <1>8

\* The quotients of the snapshots at distance d are those after Lowest, up to
\* Highest.
Lowest(N, m, d) == IF m \div (2 * d) > N THEN 2 * ((m \div (2 * d)) - N) ELSE 0
Highest(N, c, d) == IF d = 1 THEN c ELSE ((c + N + 1) \div d) - N

LEMMA BoundsAre ==
    ASSUME NEW N \in Nat \ {0}, NEW c \in Nat, NEW d \in Powers
    PROVE  /\ d \in Nat \ {0}
           /\ Lowest(N, c + N + 1, d) \in Nat
           /\ Highest(N, c, d) + (IF d = 1 THEN 1 ELSE 0) = ((c + N + 1) \div d) - N
           /\ Highest(N, c, d) \in Int
  <1>1. d \in Nat \ {0} /\ 2 * d \in Nat \ {0} /\ c + N + 1 \in Nat
    BY DEF Powers
  <1>2. (c + N + 1) \div d \in Nat /\ (c + N + 1) \div (2 * d) \in Nat
    BY <1>1, DivMod
  <1>3. Lowest(N, c + N + 1, d) \in Nat
    BY <1>2 DEF Lowest
  <1>4. CASE d = 1
    <2>1. (1 * (c + N + 1) + 0) \div 1 = c + N + 1
      BY <1>1, DivUnique
    <2>2. (c + N + 1) \div d = c + N + 1
      BY <1>1, <1>4, <2>1
    <2>3. Highest(N, c, d) = c
      BY <1>4 DEF Highest
    <2>. QED  BY <1>1, <1>3, <1>4, <2>2, <2>3
  <1>5. CASE d # 1
    <2>1. Highest(N, c, d) = ((c + N + 1) \div d) - N
      BY <1>5 DEF Highest
    <2>. QED  BY <1>1, <1>2, <1>3, <1>5, <2>1
  <1>. QED  BY <1>4, <1>5

LEMMA AtMultiples ==
    ASSUME NEW N \in Nat \ {0}, NEW c \in Nat, NEW d \in Powers, NEW k \in Nat \ {0}
    PROVE  (d * k \in 1..c /\ At(N, c + N + 1, d * k, d))
              <=> (Lowest(N, c + N + 1, d) < k /\ k <= Highest(N, c, d))
  <1>. DEFINE m == c + N + 1
  <1>1. d \in Nat \ {0} /\ 2 * d \in Nat \ {0} /\ m \in Nat
    BY DEF Powers
  <1>2. d * k \in Nat \ {0} /\ (d * k) % d = 0
    <2>1. d * k \in Nat \ {0}
      BY <1>1
    <2>. QED  BY <1>1, <2>1, Divides
  <1>3. PICK a \in Nat, r \in Nat : a = m \div d /\ r < d /\ m = d * a + r
    BY <1>1, DivMod
  <1>4. PICK b \in Nat : b = m \div (2 * d)
    BY <1>1, DivMod
  <1>5. ASSUME NEW x \in Int, NEW y \in Int PROVE d * x < d * y <=> x < y
    <2>1. CASE x < y
      <3>1. PICK z \in Nat \ {0} : y = x + z
        <4>1. y - x \in Nat \ {0} /\ y = x + (y - x)
          BY <2>1
        <4>. QED  BY <4>1
      <3>2. d * y = d * x + d * z /\ d * z \in Nat \ {0} /\ d * x \in Int
        BY <1>1, <3>1
      <3>. QED  BY <2>1, <3>2
    <2>2. CASE ~(x < y)
      <3>1. PICK z \in Nat : x = y + z
        <4>1. x - y \in Nat /\ x = y + (x - y)
          BY <2>2
        <4>. QED  BY <4>1
      <3>2. d * x = d * y + d * z /\ d * z \in Nat /\ d * y \in Int
        BY <1>1, <3>1
      <3>. QED  BY <2>2, <3>2
    <2>. QED  BY <2>1, <2>2
  <1>6. Edge(N, m, 2 * d) < d * k <=> Lowest(N, m, d) < k
    <2>1. Edge(N, m, 2 * d) = d * (2 * (b - N))
      <3>1. (2 * d) * (b - N) = d * (2 * (b - N))
        BY <1>1
      <3>. QED  BY <1>4, <3>1 DEF Edge
    <2>2. d * (2 * (b - N)) < d * k <=> 2 * (b - N) < k
      <3>1. 2 * (b - N) \in Int /\ k \in Int
        OBVIOUS
      <3>. QED  BY <1>5, <3>1
    <2>3. Lowest(N, m, d) = IF b > N THEN 2 * (b - N) ELSE 0
      BY <1>4 DEF Lowest
    <2>4. 2 * (b - N) < k <=> (IF b > N THEN 2 * (b - N) ELSE 0) < k
      OBVIOUS
    <2>. QED  BY <2>1, <2>2, <2>3, <2>4
  <1>7. d * k <= Edge(N, m, d) <=> k <= a - N
    <2>1. d * (a - N) < d * k <=> a - N < k
      <3>1. a - N \in Int /\ k \in Int
        OBVIOUS
      <3>. QED  BY <1>5, <3>1
    <2>2. Edge(N, m, d) = d * (a - N) /\ d * (a - N) \in Int
      BY <1>1, <1>3 DEF Edge
    <2>. QED  BY <1>2, <2>1, <2>2
  <1>8. CASE d = 1
    <2>1. Highest(N, c, d) = c /\ d * k = k
      BY <1>8 DEF Highest
    <2>2. Highest(N, c, d) + 1 = a - N
      <3>1. Highest(N, c, d) + (IF d = 1 THEN 1 ELSE 0) = a - N
        BY <1>3, BoundsAre
      <3>. QED  BY <1>8, <3>1
    <2>3. k <= c => k <= a - N
      BY <2>1, <2>2
    <2>. QED  BY <1>2, <1>6, <1>7, <2>1, <2>3 DEF At
  <1>9. CASE d # 1
    <2>1. Highest(N, c, d) = a - N
      BY <1>3, <1>9 DEF Highest
    <2>2. ASSUME k <= a - N PROVE d * k <= c
      <3>1. PICK z \in Nat : a = k + N + z
        <4>1. a - N - k \in Nat /\ a = k + N + (a - N - k)
          BY <2>2
        <4>. QED  BY <4>1
      <3>2. d * a = d * k + d * N + d * z
        BY <1>1, <3>1
      <3>3. d * N >= 2 * N
        <4>1. PICK w \in Nat : d = 2 + w
          <5>1. d - 2 \in Nat /\ d = 2 + (d - 2)
            BY <1>1, <1>9
          <5>. QED  BY <5>1
        <4>2. d * N = 2 * N + w * N /\ w * N \in Nat
          BY <4>1
        <4>. QED  BY <4>2
      <3>4. d * k \in Nat /\ d * N \in Nat /\ d * z \in Nat
        BY <1>1
      <3>. QED  BY <1>3, <3>2, <3>3, <3>4
    <2>. QED  BY <1>2, <1>6, <1>7, <2>1, <2>2 DEF At
  <1>. QED  BY <1>8, <1>9

LEMMA Counted ==
    ASSUME NEW N \in Nat \ {0}, NEW c \in Nat, NEW d \in Powers,
           Lowest(N, c + N + 1, d) <= Highest(N, c, d)
    PROVE  Cardinality({i \in 1..c : At(N, c + N + 1, i, d)})
              = Highest(N, c, d) - Lowest(N, c + N + 1, d)
  <1>. DEFINE m == c + N + 1
              There == {i \in 1..c : At(N, m, i, d)}
  <1>1. PICK a \in Nat : a = Lowest(N, m, d)
    BY BoundsAre
  <1>2. PICK b \in Int : b = Highest(N, c, d)
    BY BoundsAre
  <1>3. PICK n \in Nat : n = b - a
    <2>1. a <= b
      BY <1>1, <1>2
    <2>. QED  BY <2>1
  <1>4. d \in Nat \ {0}
    BY BoundsAre
  <1>. DEFINE f == [k \in 1..n |-> d * (a + k)]
  <1>5. ASSUME NEW k \in 1..n PROVE d * (a + k) \in There
    <2>1. a + k \in Nat \ {0} /\ a < a + k /\ a + k <= b
      BY <1>3
    <2>2. d * (a + k) \in 1..c /\ At(N, m, d * (a + k), d)
      BY <1>1, <1>2, <2>1, AtMultiples
    <2>. QED  BY <2>2
  <1>6. ASSUME NEW i \in There PROVE \E k \in 1..n : i = d * (a + k)
    <2>1. i \in Nat \ {0} /\ i \in 1..c /\ At(N, m, i, d)
      OBVIOUS
    <2>2. i % d = 0
      BY <2>1 DEF At
    <2>3. PICK j \in Nat : i = d * j
      BY <1>4, <2>1, <2>2, Divides
    <2>4. j \in Nat \ {0}
      BY <1>4, <2>1, <2>3
    <2>5. a < j /\ j <= b
      BY <1>1, <1>2, <2>1, <2>3, <2>4, AtMultiples
    <2>6. j - a \in 1..n /\ a + (j - a) = j
      BY <1>3, <2>5
    <2>. QED  BY <2>3, <2>6
  <1>. HIDE DEF There
  <1>7. f \in [1..n -> There]
    BY <1>5
  <1>8. ASSUME NEW j \in 1..n, NEW k \in 1..n, f[j] = f[k] PROVE j = k
    <2>1. d * (a + j) = d * (a + k)
      BY <1>8
    <2>2. a + j = a + k
      BY <1>4, <2>1
    <2>. QED  BY <2>2
  <1>9. \A i \in There : \E k \in 1..n : f[k] = i
    BY <1>6
  <1>. HIDE DEF f
  <1>10. f \in Bijection(1..n, There)
    BY <1>7, <1>8, <1>9 DEF Bijection, Injection, IsInjective, Surjection
  <1>11. ExistsBijection(1..n, There)
    BY <1>10 DEF ExistsBijection
  <1>12. Cardinality(There) = n
    BY <1>11, FS_CountingElements
  <1>. QED  BY <1>1, <1>2, <1>3, <1>12 DEF There

\* The distance that DistancesAsDocumented measures.
LEMMA GapIs ==
    ASSUME HistoryInv, NEW c \in Nat, left = Kept(perDistance, c),
           NEW i \in left \ {0}, NEW d, At(perDistance, c + perDistance + 1, i, d)
    PROVE  Gap[i] = d
  <1>1. perDistance \in Nat \ {0} /\ i \in 1..c
    <2>1. perDistance \in Nat \ {0}
      BY DEF HistoryInv
    <2>. QED  BY <2>1, KeptRange
  <1>2. /\ d \in 1..i /\ i - d \in left
        /\ \A e \in 1..(d - 1) : i - e \notin left
    BY <1>1, AtNext
  <1>3. ASSUME NEW x \in 1..i, i - x \in left, \A e \in 1..(x - 1) : i - e \notin left
        PROVE  x = d
    <2>1. d \in Nat /\ x \in Nat /\ d >= 1 /\ x >= 1
      BY <1>1, <1>2
    <2>2. ~(x < d)
      <3>1. x < d => x \in 1..(d - 1)
        BY <2>1
      <3>. QED  BY <1>2, <1>3, <3>1
    <2>3. ~(d < x)
      <3>1. d < x => d \in 1..(x - 1)
        BY <2>1
      <3>. QED  BY <1>2, <1>3, <3>1
    <2>. QED  BY <2>1, <2>2, <2>3
  <1>4. Gap[i] = CHOOSE x \in 1..i : i - x \in left /\ \A e \in 1..(x - 1) : i - e \notin left
    BY DEF Gap
  <1>. QED  BY <1>2, <1>3, <1>4

\* How many snapshots are at a distance that some snapshot has, or half of it.
LEMMA AtDistanceIs ==
    ASSUME HistoryInv, NEW c \in Nat, left = Kept(perDistance, c), NEW d \in Powers,
           Lowest(perDistance, c + perDistance + 1, d) <= Highest(perDistance, c, d)
    PROVE  AtDistance(Gap, d) = ((c + perDistance + 1) \div d) - perDistance
                                   - Lowest(perDistance, c + perDistance + 1, d)
  <1>. DEFINE N == perDistance
              m == c + N + 1
  <1>0. N \in Nat \ {0}
    BY DEF HistoryInv
  <1>1. DOMAIN Gap = left \ {0}
    BY DEF Gap
  <1>2. ASSUME NEW i PROVE i \in left \ {0} /\ Gap[i] = d <=> i \in 1..c /\ At(N, m, i, d)
    <2>1. ASSUME i \in left \ {0}, Gap[i] = d PROVE i \in 1..c /\ At(N, m, i, d)
      <3>1. i \in 1..c
        BY <1>0, <2>1, KeptRange
      <3>2. PICK e \in Powers : At(N, m, i, e)
        BY <1>0, <2>1, AtSome
      <3>3. Gap[i] = e
        BY <2>1, <3>2, GapIs
      <3>. QED  BY <2>1, <3>1, <3>2, <3>3
    <2>2. ASSUME i \in 1..c, At(N, m, i, d) PROVE i \in left \ {0} /\ Gap[i] = d
      <3>1. i \in left \ {0}
        <4>1. i \in Kept(N, c)
          BY <1>0, <2>2, AtNext
        <4>2. i # 0
          BY <2>2
        <4>. QED  BY <4>1, <4>2
      <3>. QED  BY <2>2, <3>1, GapIs
    <2>. QED  BY <2>1, <2>2
  <1>3. {i \in DOMAIN Gap : Gap[i] = d} = {i \in 1..c : At(N, m, i, d)}
    BY <1>1, <1>2
  <1>4. Cardinality({i \in 1..c : At(N, m, i, d)}) = Highest(N, c, d) - Lowest(N, m, d)
    BY <1>0, Counted
  <1>5. AtDistance(Gap, d) = Highest(N, c, d) - Lowest(N, m, d) + (IF d = 1 THEN 1 ELSE 0)
    BY <1>3, <1>4 DEF AtDistance
  <1>6. /\ Lowest(N, m, d) \in Nat /\ Highest(N, c, d) \in Int
        /\ Highest(N, c, d) + (IF d = 1 THEN 1 ELSE 0) = (m \div d) - N
    BY <1>0, BoundsAre
  <1>7. Highest(N, c, d) - Lowest(N, m, d) + (IF d = 1 THEN 1 ELSE 0)
           = Highest(N, c, d) + (IF d = 1 THEN 1 ELSE 0) - Lowest(N, m, d)
    BY <1>6
  <1>. QED  BY <1>5, <1>6, <1>7

\* dropOldSnapshots keeps what its comment says, for every template argument and
\* every length of the recording: distances that are powers of two and never
\* shrink with age, each there N or N+1 times but the largest, which is there
\* N+1 times at most.
THEOREM DistancesHold == HistorySpec => []DistancesAsDocumented
  <1>1. HistoryInv => DistancesAsDocumented
    <2>0. SUFFICES ASSUME HistoryInv PROVE DistancesAsDocumented
      OBVIOUS
    <2>1. PICK c \in Nat : left = Kept(perDistance, c)
      BY <2>0 DEF HistoryInv
    <2>. DEFINE N == perDistance
                m == c + N + 1
    <2>2. N \in Nat \ {0} /\ m \in Nat
      BY <2>0 DEF HistoryInv
    <2>3. DOMAIN Gap = left \ {0} /\ left \ {0} \subseteq 1..c
      <3>1. left \subseteq 0..c
        BY <2>1, <2>2, KeptRange
      <3>. QED  BY <3>1 DEF Gap
    <2>4. ASSUME NEW i \in DOMAIN Gap
          PROVE  /\ At(N, m, i, Gap[i]) /\ Gap[i] \in Powers
                 /\ Gap[i] \in Nat \ {0} /\ IsPowerOf2(Gap[i])
                 /\ Edge(N, m, Gap[i]) \in Int /\ Edge(N, m, 2 * Gap[i]) \in Int
      <3>1. PICK d \in Powers : At(N, m, i, d)
        BY <2>1, <2>2, <2>3, AtSome
      <3>2. Gap[i] = d
        BY <2>0, <2>1, <2>3, <3>1, GapIs
      <3>3. d \in Nat \ {0} /\ IsPowerOf2(d)
        BY DEF Powers
      <3>4. Edge(N, m, d) \in Int /\ Edge(N, m, 2 * d) \in Int
        BY <2>2, <3>3, EdgeIs
      <3>. QED  BY <3>1, <3>2, <3>3, <3>4
    <2>5. ASSUME NEW i \in DOMAIN Gap, NEW j \in DOMAIN Gap, i < j PROVE Gap[j] <= Gap[i]
      <3>1. SUFFICES ASSUME Gap[i] < Gap[j] PROVE FALSE
        BY <2>4
      <3>2. /\ Gap[i] \in Powers /\ Gap[j] \in Powers
            /\ Edge(N, m, 2 * Gap[i]) < i /\ j <= Edge(N, m, Gap[j])
        BY <2>4 DEF At
      <3>3. 2 * Gap[i] \in Powers /\ 2 * Gap[i] <= Gap[j]
        BY <3>1, <3>2, TwiceIsPower, PowersDouble
      <3>4. Edge(N, m, Gap[j]) <= Edge(N, m, 2 * Gap[i])
        BY <2>2, <3>2, <3>3, EdgesFall
      <3>5. i \in Nat /\ j \in Nat
        BY <2>3
      <3>. QED  BY <2>4, <2>5, <3>2, <3>4, <3>5
    <2>6. ASSUME NEW i \in DOMAIN Gap
          PROVE  LET d == Gap[i]
                 IN  /\ AtDistance(Gap, d) <= N + 1
                     /\ d > 1 => AtDistance(Gap, d \div 2) \in {N, N + 1}
      <3>. DEFINE d == Gap[i]
      <3>0. /\ d \in Powers /\ d \in Nat \ {0} /\ i \in 1..c
            /\ i % d = 0 /\ At(N, m, i, d) /\ i <= Edge(N, m, d)
        BY <2>3, <2>4 DEF At
      <3>. HIDE DEF d
      <3>1. Lowest(N, m, d) <= Highest(N, c, d)
        <4>1. PICK k \in Nat : i = d * k
          <5>1. i \in Nat
            BY <3>0
          <5>. QED  BY <3>0, <5>1, Divides
        <4>2. k \in Nat \ {0}
          BY <3>0, <4>1
        <4>3. Lowest(N, m, d) < k /\ k <= Highest(N, c, d)
          BY <2>2, <3>0, <4>1, <4>2, AtMultiples
        <4>4. Lowest(N, m, d) \in Nat /\ Highest(N, c, d) \in Int
          BY <2>2, <3>0, BoundsAre
        <4>. QED  BY <4>3, <4>4
      <3>2. ASSUME NEW q \in Powers
            PROVE  /\ q \in Nat \ {0} /\ m \div q \in Nat /\ m \div (2 * q) \in Nat
                   /\ \E t \in {0, 1} : m \div q = 2 * (m \div (2 * q)) + t
        <4>1. q \in Nat \ {0} /\ 2 * q \in Nat \ {0}
          BY DEF Powers
        <4>2. m \div q \in Nat /\ m \div (2 * q) \in Nat
          BY <2>2, <4>1, DivMod
        <4>3. \E t \in {0, 1} : m \div q = 2 * (m \div (2 * q)) + t
          <5>1. PICK t \in {0, 1} :
                   /\ m \div q = 2 * (m \div (2 * q)) + t
                   /\ Edge(N, m, q) = Edge(N, m, 2 * q) + q * (N + t)
            BY <2>2, <4>1, EdgeIs
          <5>. QED  BY <5>1
        <4>. QED  BY <4>1, <4>2, <4>3
      <3>3. AtDistance(Gap, d) <= N + 1
        <4>1. AtDistance(Gap, d) = (m \div d) - N - Lowest(N, m, d)
          BY <2>0, <2>1, <3>0, <3>1, AtDistanceIs
        <4>2. PICK b \in Nat, t \in {0, 1} : b = m \div (2 * d) /\ m \div d = 2 * b + t
          BY <3>0, <3>2
        <4>3. Lowest(N, m, d) = IF b > N THEN 2 * (b - N) ELSE 0
          BY <4>2 DEF Lowest
        <4>. QED  BY <2>2, <4>1, <4>2, <4>3
      <3>4. ASSUME d > 1 PROVE AtDistance(Gap, d \div 2) \in {N, N + 1}
        <4>1. PICK h \in Powers : d = 2 * h
          BY <3>0, <3>4, HalfIsPower
        <4>2. PICK b \in Nat, t \in {0, 1} : b = m \div (2 * h) /\ m \div h = 2 * b + t
          BY <3>2
        <4>3. h \in Nat \ {0} /\ d \div 2 = h
          BY <3>2, <4>1
        <4>4. b > N
          <5>1. Edge(N, m, d) = d * (b - N)
            BY <4>1, <4>2 DEF Edge
          <5>2. SUFFICES ASSUME b <= N PROVE FALSE
            BY <2>2
          <5>3. d * (b - N) <= 0
            <6>1. PICK z \in Nat : b - N = - z
              <7>1. N - b \in Nat /\ b - N = - (N - b)
                BY <2>2, <5>2
              <7>. QED  BY <7>1
            <6>2. d * (- z) = - (d * z) /\ d * z \in Nat
              BY <3>0
            <6>. QED  BY <6>1, <6>2
          <5>4. d * (b - N) \in Int
            BY <2>2, <3>0
          <5>. QED  BY <3>0, <5>1, <5>3, <5>4
        <4>5. Lowest(N, m, h) = 2 * (b - N)
          BY <4>2, <4>4 DEF Lowest
        <4>6. Lowest(N, m, h) <= Highest(N, c, h)
          <5>1. /\ Highest(N, c, h) + (IF h = 1 THEN 1 ELSE 0) = (m \div h) - N
                /\ Highest(N, c, h) \in Int
            BY <2>2, BoundsAre
          <5>. QED  BY <2>2, <4>2, <4>4, <4>5, <5>1
        <4>7. AtDistance(Gap, h) = (m \div h) - N - Lowest(N, m, h)
          BY <2>0, <2>1, <4>6, AtDistanceIs
        <4>8. AtDistance(Gap, h) = N + t
          BY <2>2, <4>2, <4>4, <4>5, <4>7
        <4>9. N + t \in {N, N + 1}
          BY <2>2
        <4>. QED  BY <4>3, <4>8, <4>9
      <3>. QED  BY <3>3, <3>4 DEF d
    <2>7. ASSUME NEW d \in {Gap[i] : i \in DOMAIN Gap}
          PROVE  /\ IsPowerOf2(d)
                 /\ AtDistance(Gap, d) <= N + 1
                 /\ d > 1 => AtDistance(Gap, d \div 2) \in {N, N + 1}
      <3>1. PICK i \in DOMAIN Gap : d = Gap[i]
        OBVIOUS
      <3>. QED  BY <2>4, <2>6, <3>1
    <2>. QED  BY <2>5, <2>7 DEF DistancesAsDocumented
  <1>. QED  BY <1>1, HistoryInvariant, PTL
=============================================================================
