--------------------------- MODULE ReverseManager --------------------------
(* Recording, replay and time travel (src/src/ReverseManager.cc), with the   *)
(* StateChangeDistributor that tells live input from replayed input, the     *)
(* host input EventDelay holds back, and the emulation thread that runs both *)
(* the machine and the Reactor's main loop.                                  *)
(*                                                                           *)
(* The state of the emulated machine is the sequence of inputs it has        *)
(* received: two runs of a deterministic machine agree at a moment exactly   *)
(* when they received the same inputs, so that is what a savestate stores.   *)
EXTENDS SnapshotPruning, FiniteSets, SequencesExt

CONSTANTS Period,     \* SNAPSHOT_PERIOD (one second), in ticks
          PreDelta,   \* dur2frames, in ticks
          KeepN,      \* template argument of dropOldSnapshots (25 in the code)
          MaxStep,    \* bound: ticks an instruction takes
          MaxTime,    \* bound: emulated time the user lets pass
          MaxInput,   \* bound: live inputs
          MaxTake,    \* bound: snapshot requests waiting in the event queue
          WithFiles,  \* whether replays are saved and loaded
          \* Situations the code gets wrong, explored only when set:
          GoToBeforeTake,    \* goto on this board with a snapshot request queued
          GoToWithHeldInput, \* goto while replaying with host input held back
          HeldInputTies,     \* held input delivered just before a replayed one
                             \* of the same time
          SaveAtInputTime    \* save a snapshot taken at the time of an input

ASSUME BoundsAssumption ==
    /\ {Period, KeepN, MaxStep} \subseteq Nat \ {0}
    /\ {PreDelta, MaxTime, MaxInput, MaxTake} \subseteq Nat
    /\ {WithFiles, GoToBeforeTake, GoToWithHeldInput, HeldInputTies, SaveAtInputTime} \subseteq BOOLEAN

VARIABLES board,      \* the active MSXMotherBoard and its ReverseManager
          viewOnly,   \* StateChangeDistributor::viewOnlyMode
          takeQueued, \* TAKE_REVERSE_SNAPSHOT events in the EventDistributor
          file,       \* a saved replay, or NoFile
          trip,       \* locals of the goTo() in progress
          nextInput,  \* the next live input
          pc          \* where the emulation thread is

vars == <<board, viewOnly, takeQueued, file, trip, nextInput, pc>>

EndLog == 0                       \* EndLogEvent, among the input numbers
Time   == 0..(MaxTime + MaxStep)
Event  == [time : Time, input : 0..MaxInput]
Inputs == Seq(1..MaxInput)
Chunk  == [time : Time, eventCount : 0..(MaxInput + 1), received : Inputs]
NoChunk == [time |-> -1, eventCount |-> 0, received |-> <<>>]
SeqNums == 0..((MaxTime + MaxStep) \div Period + 1)
NoChunks == [i \in SeqNums |-> NoChunk]
NoFile == [events |-> <<>>, chunks |-> NoChunks]
NoTrip == [target |-> 0, preTarget |-> 0, last |-> 0, goal |-> 0, reused |-> FALSE]

Board ==
    [now        : Time,         \* Scheduler::getCurrentTime()
     insEnd     : Time,         \* end of the current instruction
     received   : Inputs,       \* inputs the machine has processed
     collecting : BOOLEAN,
     pendingTakeSnapshot : BOOLEAN,
     events     : Seq(Event),   \* history.events
     replayIndex : 0..(MaxInput + 1),
     chunks     : [SeqNums -> Chunk \cup {NoChunk}], \* history.chunks
     snapSync   : Seq(Nat),     \* sync points of syncNewSnapshot
     inputSync  : Seq(Time),    \* sync points of syncInputEvent
     held       : 0..1]         \* host input in EventDelay

\* main: Reactor::run()   run: the CPU loop   warp: head of the loop in goTo()
\* ff: in its fastForward()   show: in the fastForward() after that loop
PCs == {"main", "run", "warp", "ff", "show"}
Running == pc \in {"run", "ff", "show"}

Init ==
    /\ board = [now |-> 0, insEnd |-> 0, received |-> <<>>, collecting |-> FALSE,
                pendingTakeSnapshot |-> FALSE, events |-> <<>>, replayIndex |-> 0,
                chunks |-> NoChunks, snapSync |-> <<>>, inputSync |-> <<>>, held |-> 0]
    /\ viewOnly = FALSE
    /\ takeQueued = 0
    /\ file = NoFile
    /\ trip = NoTrip
    /\ nextInput = 1
    /\ pc = "main"

---------------------------------------------------------------------------
\* The event log and the snapshots.

Present(chunks) == {i \in SeqNums : chunks[i] # NoChunk}
First(chunks)   == Min(Present(chunks))
Only(chunks, S) == [i \in SeqNums |-> IF i \in S THEN chunks[i] ELSE NoChunk]
Replaying(b)    == b.replayIndex # Len(b.events)
HasEnd(events)  == events # <<>> /\ Last(events).input = EndLog
\* Mutant: the log is taken over as it is.
WithEndAlready(b) == b.events
WithEnd(b)      == IF HasEnd(b.events) THEN b.events
                   ELSE Append(b.events, [time |-> b.now, input |-> EndLog])
EndTime(b)      == IF HasEnd(b.events) THEN Last(b.events).time ELSE b.now

\* lrint(): ties go to the even number.
RoundHalfEven(x, p) ==
    LET q == x \div p
        r == 2 * (x % p)
    IN  IF r > p \/ (r = p /\ q % 2 = 1) THEN q + 1 ELSE q

SeqNum(chunks, time) ==
    IF chunks = NoChunks THEN 0
    ELSE RoundHalfEven(time - chunks[First(chunks)].time, Period)

Schedule(b) == [b EXCEPT !.snapSync = Append(@, b.now + Period)]

\* Schedulable::removeSyncPoint() takes out the first point, if there is one.
Unscheduled(s) == IF s = <<>> THEN s ELSE Tail(s)

\* Mutant: all events known are taken for received.
TakeSnapshotOfLog(b) ==
    LET n == SeqNum(b.chunks, b.now)
    IN  [b EXCEPT !.chunks =
          [Only(@, SeqNums \ Dropped(KeepN, n)) EXCEPT ![n] =
             [time |-> b.now, eventCount |-> Len(b.events), received |-> b.received]]]

TakeSnapshot(b) ==
    LET n == SeqNum(b.chunks, b.now)
    IN  [b EXCEPT !.chunks =
          [Only(@, SeqNums \ Dropped(KeepN, n)) EXCEPT ![n] =
             [time |-> b.now, eventCount |-> b.replayIndex, received |-> b.received]]]

\* The code asserts that there is a next event.
ReplayNextEvent(b) ==
    IF b.replayIndex >= Len(b.events) THEN b ELSE
    [b EXCEPT !.inputSync = Append(@, b.events[b.replayIndex + 1].time)]

Receive(b, input) == [b EXCEPT !.received = Append(@, input)]

\* The machine receives live inputs, one after the other.
Record(b, inputs) ==
    [b EXCEPT !.events = @ \o [i \in DOMAIN inputs |-> [time |-> b.now, input |-> inputs[i]]],
              !.replayIndex = @ + Len(inputs),
              !.received = @ \o inputs]

\* Mutant: the planned replay of the next event is not cancelled.
StopReplayScheduled(b, keys) ==
    IF ~Replaying(b) THEN b
    ELSE Record([b EXCEPT
             !.events = SubSeq(@, 1, b.replayIndex),
             !.chunks = Only(@, {i \in SeqNums : @[i].time <= b.now})], keys)

\* Keyboard::stopReplay records the keys the host holds when they differ.
StopReplay(b, keys) ==
    IF ~Replaying(b) THEN b
    ELSE LET s == [b EXCEPT
                     !.inputSync = Unscheduled(@),
                     !.events = SubSeq(@, 1, b.replayIndex),
                     !.chunks = Only(@, {i \in SeqNums : @[i].time <= b.now})]
         IN  Record(s, keys)

DistributeNew(b, keys, input) ==
    IF ~b.collecting THEN Receive(b, input)
    ELSE IF Replaying(b) /\ viewOnly THEN b
    ELSE Record(StopReplay(b, keys), <<input>>)

---------------------------------------------------------------------------
\* The machine: instructions, and the sync points that fall due in them.

NextSync == {board.snapSync[i] : i \in DOMAIN board.snapSync}
            \cup {board.inputSync[i] : i \in DOMAIN board.inputSync}
NoneDue  == \A t \in NextSync : t > board.now
AtInstruction == board.now = board.insEnd /\ NoneDue

\* Emulated time goes on to the next sync point or the end of the instruction;
\* EventDelay may have a sync point of its own before that.
Advance(end) ==
    LET stop == Min({end} \cup {t \in NextSync : t < end})
    IN  \E t \in {stop} \cup (IF board.held > 0 THEN (board.now + 1)..stop ELSE {}) :
            board' = [board EXCEPT !.insEnd = end, !.now = t]

StartInstruction ==
    /\ Running /\ AtInstruction
    /\ board.now < IF pc = "run" THEN MaxTime ELSE trip.goal
    /\ \E d \in 1..MaxStep : Advance(board.now + d)
    /\ UNCHANGED <<viewOnly, takeQueued, file, trip, nextInput, pc>>

\* The rest of an instruction that sync points have cut in pieces.
ResumeInstruction ==
    /\ Running /\ board.now < board.insEnd /\ NoneDue
    /\ Advance(board.insEnd)
    /\ UNCHANGED <<viewOnly, takeQueued, file, trip, nextInput, pc>>

\* SyncNewSnapshot::executeUntil
ExecNewSnapshot ==
    /\ Running
    /\ board.snapSync # <<>> /\ Head(board.snapSync) <= board.now
    /\ board' = [board EXCEPT !.snapSync = Tail(@), !.pendingTakeSnapshot = TRUE]
    /\ takeQueued' = takeQueued + 1
    /\ UNCHANGED <<viewOnly, file, trip, nextInput, pc>>

\* Live inputs numbered nextInput on; "used" of them are taken.
Fresh(n)   == [i \in 1..n |-> nextInput + i - 1]
CanUse(n)  == nextInput + n - 1 <= MaxInput
Use(n)     == nextInput' = nextInput + n

\* SyncInputEvent::executeUntil: the EndLogEvent ends the replay, any other
\* event is handed to the machine at the time it was recorded.
ExecInputEvent ==
    /\ Running
    /\ board.inputSync # <<>> /\ Head(board.inputSync) <= board.now
    /\ LET b == [board EXCEPT !.inputSync = Tail(@)]
           e == b.events[b.replayIndex + 1]
       IN  \/ /\ e.input = EndLog
              /\ \E k \in 0..1 : /\ CanUse(k) /\ Use(k)
                                 /\ board' = StopReplay(b, Fresh(k))
           \/ /\ e.input # EndLog
              /\ board' = ReplayNextEvent(Receive([b EXCEPT !.replayIndex = @ + 1], e.input))
              /\ UNCHANGED nextInput
    /\ UNCHANGED <<viewOnly, takeQueued, file, trip, pc>>

\* A new input, with k keyboard events first if it ends a replay.
NewInput(b) ==
    \E k \in 0..1 :
        /\ k = 1 => Replaying(b) /\ ~viewOnly
        /\ CanUse(k + 1) /\ Use(k + 1)
        /\ board' = DistributeNew(b, Fresh(k), nextInput + k)

\* EventDelay::executeUntil: the held input reaches the machine.
DeliverHeld ==
    /\ Running /\ board.held > 0
    /\ HeldInputTies \/ \A i \in DOMAIN board.inputSync : board.inputSync[i] > board.now
    /\ NewInput([board EXCEPT !.held = 0])
    /\ UNCHANGED <<viewOnly, takeQueued, file, trip, pc>>

EnterCPU ==
    /\ pc = "main"
    /\ pc' = "run"
    /\ UNCHANGED <<board, viewOnly, takeQueued, file, trip, nextInput>>

ExitCPU ==
    /\ pc = "run" /\ AtInstruction
    /\ pc' = "main"
    /\ UNCHANGED <<board, viewOnly, takeQueued, file, trip, nextInput>>

---------------------------------------------------------------------------
\* What the main loop does: host events and commands.

\* signalEvent: every machine gets the event, only one that asked acts on it.
DeliverTake ==
    /\ pc = "main" /\ takeQueued > 0
    /\ takeQueued' = takeQueued - 1
    /\ board' = IF board.pendingTakeSnapshot
                THEN Schedule(TakeSnapshot([board EXCEPT !.pendingTakeSnapshot = FALSE]))
                ELSE board
    /\ UNCHANGED <<viewOnly, file, trip, nextInput, pc>>

\* A key or joystick event of the host: EventDelay holds it.
HostInput ==
    /\ pc = "main" /\ board.held = 0 /\ nextInput <= MaxInput
    /\ board' = [board EXCEPT !.held = 1]
    /\ UNCHANGED <<viewOnly, takeQueued, file, trip, nextInput, pc>>

\* A RecordedCommand (plug, diska, keymatrixdown, ...).
LiveInput ==
    /\ pc = "main"
    /\ NewInput(board)
    /\ UNCHANGED <<viewOnly, takeQueued, file, trip, pc>>

SetViewOnlyMode ==
    /\ pc = "main" /\ board.collecting
    /\ viewOnly' = ~viewOnly
    /\ UNCHANGED <<board, takeQueued, file, trip, nextInput, pc>>

\* What is left of the replay is dropped: the history goes on from here.
TruncateReplay ==
    /\ pc = "main" /\ Replaying(board)
    /\ \E k \in 0..1 : CanUse(k) /\ Use(k) /\ board' = StopReplay(board, Fresh(k))
    /\ UNCHANGED <<viewOnly, takeQueued, file, trip, pc>>

Start ==
    /\ pc = "main" /\ ~board.collecting /\ takeQueued < MaxTake /\ board.now <= MaxTime
    /\ board' = Schedule(TakeSnapshot([board EXCEPT !.collecting = TRUE]))
    /\ UNCHANGED <<viewOnly, takeQueued, file, trip, nextInput, pc>>

Stop ==
    /\ pc = "main" /\ board.collecting
    /\ board' = [board EXCEPT !.snapSync = Unscheduled(@), !.inputSync = Unscheduled(@),
                              !.events = <<>>, !.chunks = NoChunks, !.replayIndex = 0,
                              !.collecting = FALSE, !.pendingTakeSnapshot = FALSE]
    /\ UNCHANGED <<viewOnly, takeQueued, file, trip, nextInput, pc>>

---------------------------------------------------------------------------
\* goTo()

\* The destination in a history: not before its first snapshot, not past its
\* end, and the warp stops two frames short of it.
TripTo(target, noVideo, chunks, end) ==
    LET first == chunks[First(chunks)].time
        to == Min({Max({target, first}), end})
        delta == IF noVideo THEN 0 ELSE PreDelta
    IN  [NoTrip EXCEPT !.target = to,
                       !.preTarget = IF to - first > delta THEN to - delta ELSE first]

\* The last snapshot before the first one that is newer than "time".
Closest(chunks, time) ==
    Max({i \in Present(chunks) :
          \A j \in Present(chunks) : j <= i => chunks[j].time <= time})

\* Mutant: the replay starts at the first event of the log.
RestoredAtZero(chunk, events, chunks) ==
    ReplayNextEvent(Schedule(
        [now |-> chunk.time, insEnd |-> chunk.time, received |-> chunk.received,
         collecting |-> TRUE, pendingTakeSnapshot |-> FALSE,
         events |-> events, replayIndex |-> 0, chunks |-> chunks,
         snapSync |-> <<>>, inputSync |-> <<>>, held |-> 0]))

\* A new board made of "chunk", its manager given the history: transferHistory.
Restored(chunk, events, chunks) ==
    ReplayNextEvent(Schedule(
        [now |-> chunk.time, insEnd |-> chunk.time, received |-> chunk.received,
         collecting |-> TRUE, pendingTakeSnapshot |-> FALSE,
         events |-> events, replayIndex |-> chunk.eventCount, chunks |-> chunks,
         snapSync |-> <<>>, inputSync |-> <<>>, held |-> 0]))

\* It is cheaper to go on from here than from that snapshot.
FromHere(t, chunk) ==
    /\ board.now <= t.preTarget
    /\ chunk.time <= board.now \/ t.preTarget - board.now < Period

GoToOnThisBoard(t) ==
    /\ GoToBeforeTake \/ ~board.pendingTakeSnapshot
    /\ board' = [board EXCEPT !.snapSync = Unscheduled(@)]
    /\ trip' = [t EXCEPT !.last = board.now, !.reused = TRUE]
    /\ UNCHANGED nextInput

\* eventDelay->flush() may end the replay on the old board and erase "chunk",
\* which the code goes on using.
GoToOnNewBoard(t, chunk) ==
    LET go(b) == /\ board' = Restored(chunk, WithEnd(b), b.chunks)
                 /\ trip' = [t EXCEPT !.last = chunk.time]
    IN  \/ /\ board.held = 0
           /\ go(board)
           /\ UNCHANGED nextInput
        \/ /\ board.held > 0
           /\ \/ GoToWithHeldInput
              \/ viewOnly \/ ~Replaying(board) \/ chunk.time <= board.now
           /\ \E k \in 0..1 :
                /\ k = 1 => Replaying(board) /\ ~viewOnly
                /\ CanUse(k + 1) /\ Use(k + 1)
                /\ go(DistributeNew(board, Fresh(k), nextInput + k))

GoTo(target, noVideo) ==
    /\ pc = "main" /\ board.collecting /\ takeQueued < MaxTake
    /\ LET t == TripTo(target, noVideo, board.chunks, EndTime(board))
           chunk == board.chunks[Closest(board.chunks, t.preTarget)]
       IN  IF FromHere(t, chunk) THEN GoToOnThisBoard(t) ELSE GoToOnNewBoard(t, chunk)
    /\ pc' = "warp"
    /\ UNCHANGED <<viewOnly, takeQueued, file>>

\* The loop of goTo(): snapshots at least a period apart, further apart the
\* more there is to go.
NextSnapshotTarget ==
    Min({trip.preTarget,
         trip.last + Max({Period, (trip.preTarget - trip.last) \div 2})})

WarpForward ==
    /\ pc = "warp" /\ board.now < NextSnapshotTarget
    /\ trip' = [trip EXCEPT !.goal = Min({NextSnapshotTarget, board.now + Period})]
    /\ pc' = "ff"
    /\ UNCHANGED <<board, viewOnly, takeQueued, file, nextInput>>

WarpForwarded ==
    /\ pc = "ff" /\ AtInstruction /\ board.now >= trip.goal
    /\ pc' = "warp"
    /\ UNCHANGED <<board, viewOnly, takeQueued, file, trip, nextInput>>

\* Mutant: the next snapshot target is not moved.
WarpSnapshotStuck ==
    /\ pc = "warp" /\ board.now < trip.preTarget /\ board.now >= NextSnapshotTarget
    /\ board' = TakeSnapshot(board)
    /\ UNCHANGED <<viewOnly, takeQueued, file, trip, nextInput, pc>>

WarpSnapshot ==
    /\ pc = "warp" /\ board.now < trip.preTarget /\ board.now >= NextSnapshotTarget
    /\ board' = TakeSnapshot(board)
    /\ trip' = [trip EXCEPT !.last = NextSnapshotTarget]
    /\ UNCHANGED <<viewOnly, takeQueued, file, nextInput, pc>>

\* Mutants: no snapshot is planned; the trip ends where the warp does.
WarpDoneUnplanned ==
    /\ pc = "warp" /\ board.now >= trip.preTarget
    /\ IF board.now < trip.target
       THEN pc' = "show" /\ trip' = [trip EXCEPT !.goal = trip.target]
       ELSE pc' = "main" /\ trip' = NoTrip
    /\ UNCHANGED <<board, viewOnly, takeQueued, file, nextInput>>

WarpDoneEarly ==
    /\ pc = "warp" /\ board.now >= trip.preTarget
    /\ board' = IF trip.reused THEN Schedule(board) ELSE board
    /\ pc' = "main" /\ trip' = NoTrip
    /\ UNCHANGED <<viewOnly, takeQueued, file, nextInput>>

\* "re-enable automatic snapshots" does so on the manager goTo() was called on.
WarpDone ==
    /\ pc = "warp" /\ board.now >= trip.preTarget
    /\ board' = IF trip.reused THEN Schedule(board) ELSE board
    /\ IF board.now < trip.target
       THEN pc' = "show" /\ trip' = [trip EXCEPT !.goal = trip.target]
       ELSE pc' = "main" /\ trip' = NoTrip
    /\ UNCHANGED <<viewOnly, takeQueued, file, nextInput>>

Shown ==
    /\ pc = "show" /\ AtInstruction /\ board.now >= trip.goal
    /\ pc' = "main"
    /\ trip' = NoTrip
    /\ UNCHANGED <<board, viewOnly, takeQueued, file, nextInput>>

---------------------------------------------------------------------------
\* Replay files.

\* Mutant: events of the very moment count.
LoadedCountUpTo(events, time) ==
    Cardinality({i \in DOMAIN events : \A j \in 1..i : events[j].time <= time})

\* What loadReplay() takes as the replay index of a snapshot made at "time".
LoadedCount(events, time) ==
    Cardinality({i \in DOMAIN events : \A j \in 1..i : events[j].time < time})

\* The first snapshot, and a selection of the others that has the last one.
SaveReplay ==
    /\ WithFiles /\ pc = "main" /\ board.collecting /\ file = NoFile
    /\ \E S \in SUBSET Present(board.chunks) :
        /\ First(board.chunks) \in S
        /\ S = {First(board.chunks)} \/ Max(Present(board.chunks)) \in S
        /\ SaveAtInputTime \/ \A i \in S : \A j \in 1..board.chunks[i].eventCount :
              board.events[j].time < board.chunks[i].time
        /\ file' = [events |-> WithEnd(board), chunks |-> Only(board.chunks, S)]
    /\ UNCHANGED <<board, viewOnly, takeQueued, trip, nextInput, pc>>

\* loadReplay(), then goTo() in the time-line of the file: always a new board.
LoadReplay(target, onlyView) ==
    /\ pc = "main" /\ file # NoFile /\ takeQueued < MaxTake
    /\ LET Loaded(c) == IF c = NoChunk THEN c
                        ELSE [c EXCEPT !.eventCount = LoadedCount(file.events, c.time)]
           chunks == [i \in SeqNums |-> Loaded(file.chunks[i])]
           t == TripTo(target, FALSE, chunks, Last(file.events).time)
           chunk == chunks[Closest(chunks, t.preTarget)]
       IN  /\ board' = Restored(chunk, file.events, chunks)
           /\ trip' = [t EXCEPT !.last = chunk.time]
    /\ viewOnly' = onlyView
    /\ pc' = "warp"
    /\ UNCHANGED <<takeQueued, file, nextInput>>

---------------------------------------------------------------------------
Emulate == \/ StartInstruction \/ ResumeInstruction
           \/ ExecNewSnapshot \/ ExecInputEvent \/ DeliverHeld
Warp    == WarpForward \/ WarpForwarded \/ WarpSnapshot \/ WarpDone \/ Shown
Command == \/ DeliverTake \/ HostInput \/ LiveInput \/ SetViewOnlyMode
           \/ TruncateReplay \/ Start \/ Stop \/ SaveReplay
           \/ \E t \in 0..MaxTime, b \in BOOLEAN : GoTo(t, b) \/ LoadReplay(t, b)

Next == Emulate \/ Warp \/ Command \/ EnterCPU \/ ExitCPU

\* The emulation thread never sleeps inside a command: a goTo() in progress
\* keeps taking steps.
Fairness == WF_vars((pc \notin {"main", "run"}) /\ (Emulate \/ Warp))

Spec == Init /\ [][Next]_vars /\ Fairness

---------------------------------------------------------------------------
TypeOK ==
    /\ board \in Board
    /\ viewOnly \in BOOLEAN
    /\ takeQueued \in 0..MaxTake
    /\ file \in [events : Seq(Event), chunks : [SeqNums -> Chunk \cup {NoChunk}]]
    /\ trip \in [target : 0..MaxTime, preTarget : 0..MaxTime, last : Time, goal : Time,
                 reused : BOOLEAN]
    /\ nextInput \in 1..(MaxInput + 1)
    /\ pc \in PCs

\* What a machine has received after the first n events of the log, by the
\* first snapshot and the log.
InputsUpTo(n) ==
    LET base == board.chunks[First(board.chunks)]
    IN  base.received
        \o [i \in 1..(n - base.eventCount) |-> board.events[base.eventCount + i].input]

\* The machine is always in the state that replaying the log from the first
\* snapshot leads to: no input is lost, replayed twice or taken out of order,
\* through recording, time travel, saving and loading.
MachineFollowsLog ==
    board.collecting => board.received = InputsUpTo(board.replayIndex)

\* Each snapshot holds the machine as it was after the first eventCount events
\* ("Number of recorded events (or replay index) when this snapshot was
\* created", ReverseManager.hh), so time travel through it continues the log.
\* They are ordered by sequence number; goTo() and stopReplay() search them by
\* time and rely on the two orders agreeing.
SnapshotsFollowLog ==
    \A i \in Present(board.chunks) :
        LET c == board.chunks[i]
        IN  /\ c.eventCount <= Len(board.events)
            /\ c.received = InputsUpTo(c.eventCount)
            /\ \A k \in Present(board.chunks) : i < k => c.time < board.chunks[k].time
            /\ \A j \in DOMAIN board.events :
                  IF j <= c.eventCount THEN board.events[j].time <= c.time
                                       ELSE board.events[j].time >= c.time

\* While recording exactly one next snapshot is planned: a sync point, or a
\* request on its way through the event queue.  None is during the warp of
\* this board, and none when not recording.
OneSnapshotPlanned ==
    LET planned == Len(board.snapSync) + (IF board.pendingTakeSnapshot THEN 1 ELSE 0)
    IN  planned = IF board.collecting /\ ~(pc \in {"warp", "ff"} /\ trip.reused)
                  THEN 1 ELSE 0

\* stop() asserts !pendingTakeSnapshot (ReverseManager.cc); the user may call
\* it at any time, and the destructor does.
StopFindsNothingPending == ~board.collecting => ~board.pendingTakeSnapshot

\* While replaying, exactly the next event of the log is scheduled, at its own
\* time, and the log ends in its only EndLogEvent; live, nothing is scheduled.
NextEventScheduled ==
    /\ IF Replaying(board)
       THEN /\ board.replayIndex < Len(board.events)
            /\ board.inputSync = <<board.events[board.replayIndex + 1].time>>
            /\ board.inputSync[1] >= board.now
            /\ HasEnd(board.events)
       ELSE board.inputSync = <<>> /\ ~HasEnd(board.events)
    /\ \A i \in DOMAIN board.events : i < Len(board.events) =>
          /\ board.events[i].input # EndLog
          /\ board.events[i].time <= board.events[i + 1].time

\* transferHistory asserts that the log has an event left to replay.
TransferFindsEvent ==
    [][(pc = "main" /\ pc' = "warp" /\ ~trip'.reused)
         => board'.replayIndex < Len(board'.events)]_vars

\* goTo() leaves the machine at the requested time or at most one instruction
\* past it, never short of it, on a board that is recording.
GoToLands ==
    [][(pc \in {"warp", "show"} /\ pc' = "main")
         => /\ trip.target <= board'.now /\ board'.now < trip.target + MaxStep
            /\ board'.collecting]_vars

\* Every goTo() returns to the main loop.
GoToReturns == pc \in {"warp", "ff", "show"} ~> pc = "main"
=============================================================================
