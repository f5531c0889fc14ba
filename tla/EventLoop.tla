------------------------------ MODULE EventLoop -----------------------------
(* The main loop: Reactor (src/src/Reactor.cc), the EventDistributor's queue *)
(* (src/src/events/EventDistributor.cc) and the flag that makes a CPU loop   *)
(* return (CPUCore::exitLoop).  Helper threads (serial ports, MIDI, control  *)
(* connections, timers) queue events; the main thread runs one machine at a  *)
(* time, delivers the events, and may switch and delete machines while it    *)
(* does, also from a Tcl callback inside the CPU loop.                       *)
EXTENDS Integers, Sequences, SequencesExt

CONSTANTS Boards,        \* names for MSXMotherBoards
          First,         \* the one of the machine openMSX starts with
          Threads,       \* helper threads
          Main,          \* the main thread
          Global,        \* a listener that is not part of any board
          None,
          MaxEvent,      \* bound: events queued
          ActivateEmpty  \* activate_machine on a machine without configuration,
                         \* which the code gets wrong: a run of its own shows it

ASSUME ConstantsAssumption ==
    /\ MaxEvent \in Nat
    /\ First \in Boards
    /\ Main \notin Threads /\ None \notin Threads
    /\ None \notin Boards /\ Global \notin Boards
    /\ ActivateEmpty \in BOOLEAN

VARIABLES queue,      \* scheduledEvents
          batch,      \* what is left of eventsCopy
          left,       \* what is left of priorityMapCopy, for the first of batch
          allow,      \* allowPriority
          boards,     \* Reactor::boards
          loaded,     \* boards with a machine configuration
          active,     \* Reactor::activeBoard
          held,       \* the board run() executes, kept alive by its copy
          exitLoop,   \* CPUCore::exitLoop, per board and CPU
          cpu,        \* MSXCPU::z80Active, per board
          newCpu,     \* MSXCPU::newZ80Active, per board
          paused,     \* Reactor::paused
          running,    \* Reactor::running
          mbMutex,    \* who holds Reactor::mbMutex
          target,     \* the flag a thread is about to set
          nextEvent,  \* number of the next event
          delivered,  \* number of the last event delivered
          pc          \* where each thread is

eventVars == <<queue, batch, left, allow, nextEvent, delivered>>
boardVars == <<boards, loaded, active, held, exitLoop, cpu, newCpu>>
vars == <<eventVars, boardVars, paused, running, mbMutex, target, pc>>

CPUs == {"z80", "r800"}
NoExit == [c \in CPUs |-> FALSE]
Priorities == {"other", "msx", "lowest"}
Alive == (boards \cup {held}) \ {None}     \* boards somebody holds on to
Registered == {Global} \cup Alive          \* every board has its listeners

\* poll: InputEventGenerator, Tcl and RTScheduler  lock, deliver, signal: the
\* loops of deliverEvents  execute, cpu, leaving: Reactor::run, the CPU loop,
\* between the test and the reset of exitLoop
MainPCs   == {"poll", "lock", "deliver", "signal", "execute", "cpu", "leaving", "ended"}
ThreadPCs == {"idle", "enter", "flag"}

Init ==
    /\ queue = <<>> /\ batch = <<>> /\ left = <<>> /\ allow = "lowest"
    /\ nextEvent = 1 /\ delivered = 0
    /\ boards = {First} /\ loaded = {First} /\ active = First
    /\ held = None
    /\ exitLoop = [b \in Boards |-> NoExit]
    /\ cpu = [b \in Boards |-> "z80"] /\ newCpu = cpu
    /\ paused = FALSE /\ running = TRUE
    /\ mbMutex = None
    /\ target = [t \in Threads |-> None]
    /\ pc = [t \in Threads \cup {Main} |-> IF t = Main THEN "poll" ELSE "idle"]

Goto(t, label) == pc' = [pc EXCEPT ![t] = label]

---------------------------------------------------------------------------
\* Helper threads: distributeEvent(), then enterMainLoop().

Push == queue' = Append(queue, nextEvent) /\ nextEvent' = nextEvent + 1

ThreadDistribute(t) ==
    /\ pc[t] = "idle" /\ nextEvent <= MaxEvent
    /\ Push
    /\ Goto(t, "enter")
    /\ UNCHANGED <<batch, left, allow, delivered, boardVars, paused, running, mbMutex, target>>

\* Under mbMutex: MSXCPU::exitCPULoopAsync reads which CPU is active ...
ThreadEnter(t) ==
    /\ pc[t] = "enter" /\ mbMutex = None
    /\ IF active # None /\ active \in loaded
       THEN /\ target' = [target EXCEPT ![t] = <<active, cpu[active]>>]
            /\ mbMutex' = t
            /\ Goto(t, "flag")
       ELSE Goto(t, "idle") /\ UNCHANGED <<target, mbMutex>>
    /\ UNCHANGED <<eventVars, boardVars, paused, running>>

\* ... and sets the flag of that one.
ThreadFlag(t) ==
    /\ pc[t] = "flag"
    /\ exitLoop' = [exitLoop EXCEPT ![target[t][1]][target[t][2]] = TRUE]
    /\ target' = [target EXCEPT ![t] = None]
    /\ mbMutex' = None
    /\ Goto(t, "idle")
    /\ UNCHANGED <<eventVars, boards, loaded, active, held, cpu, newCpu, paused, running>>

---------------------------------------------------------------------------
\* What commands and callbacks do, in the main thread.

InCommand == pc[Main] \in {"poll", "signal", "cpu"}

\* exitCPULoopSync on board b: no lock, the main thread owns the boards.
ExitCPULoopSync(b) ==
    exitLoop' = IF b = None THEN exitLoop ELSE [exitLoop EXCEPT ![b][cpu[b]] = TRUE]

MainDistribute ==
    /\ InCommand /\ nextEvent <= MaxEvent
    /\ Push
    /\ ExitCPULoopSync(active)
    /\ UNCHANGED <<batch, left, allow, delivered, boards, loaded, active, held, cpu, newCpu,
                   paused, running, mbMutex, target, pc>>

\* Mutant: activeBoard is changed without mbMutex.
SwitchBoardUnlocked(b) ==
    /\ nextEvent <= MaxEvent
    /\ active' = b
    /\ Push

\* switchBoard(): the new board is active before MachineLoadedEvent is queued.
SwitchBoard(b) ==
    /\ mbMutex = None /\ nextEvent <= MaxEvent
    /\ active' = b
    /\ Push

\* A new board object on the CPU c, which is to go on with n; MachineLoadedEvent
\* makes its CPU loop return when it is the active one already.
Fresh(b, c, n) ==
    /\ exitLoop' = [exitLoop EXCEPT ![b] = [NoExit EXCEPT ![c] = b = active']]
    /\ cpu' = [cpu EXCEPT ![b] = c]
    /\ newCpu' = [newCpu EXCEPT ![b] = n]

\* switchMachine(): a new board is loaded and takes over from the active one.
SwitchMachine(b) ==
    /\ InCommand /\ b \in Boards \ Alive
    /\ SwitchBoard(b)
    /\ Fresh(b, "z80", "z80")
    /\ boards' = (boards \ {active}) \cup {b}
    /\ loaded' = (loaded \ {active}) \cup {b}
    /\ UNCHANGED <<batch, left, allow, delivered, held, paused, running, mbMutex, target, pc>>

\* replaceBoard(): a 'reverse goto' puts b, made of a savestate, in place of
\* board o.  A turboR goes on with the CPU it had when that was made.
ReplaceBoard(o, b) ==
    /\ InCommand /\ o \in loaded /\ b \in Boards \ Alive
    /\ IF o = active THEN SwitchBoard(b) ELSE UNCHANGED <<queue, nextEvent, active>>
    /\ \E c, n \in CPUs : Fresh(b, c, n)
    /\ boards' = (boards \ {o}) \cup {b}
    /\ loaded' = (loaded \ {o}) \cup {b}
    /\ UNCHANGED <<batch, left, allow, delivered, held, paused, running, mbMutex, target, pc>>

CreateMachine(b) ==
    /\ InCommand /\ b \in Boards \ Alive
    /\ boards' = boards \cup {b}
    /\ UNCHANGED <<eventVars, loaded, active, held, paused, running, mbMutex, target, pc>>
    /\ Fresh(b, "z80", "z80")

\* A savestate in a file becomes a board beside the others.
RestoreMachine(b) ==
    /\ InCommand /\ b \in Boards \ Alive
    /\ boards' = boards \cup {b}
    /\ loaded' = loaded \cup {b}
    /\ UNCHANGED <<eventVars, active, held, paused, running, mbMutex, target, pc>>
    /\ \E c, n \in CPUs : Fresh(b, c, n)

LoadMachine(b) ==
    /\ InCommand /\ b \in boards \ loaded
    /\ loaded' = loaded \cup {b}
    /\ UNCHANGED <<eventVars, boards, active, held, exitLoop, cpu, newCpu, paused, running,
                   mbMutex, target, pc>>

ActivateMachine(b) ==
    /\ InCommand /\ b \in boards
    /\ ActivateEmpty \/ b \in loaded
    /\ SwitchBoard(b)
    /\ ExitCPULoopSync(b)
    /\ UNCHANGED <<batch, left, allow, delivered, boards, loaded, held, cpu, newCpu, paused,
                   running, mbMutex, target, pc>>

\* deleteBoard(): no board is active any more when it was the active one.
DeleteMachine(b) ==
    /\ InCommand /\ b \in boards
    /\ IF b = active THEN SwitchBoard(None)
                     ELSE UNCHANGED <<queue, nextEvent, active>>
    /\ boards' = boards \ {b}
    /\ loaded' = loaded \ {b}
    /\ UNCHANGED <<batch, left, allow, delivered, held, exitLoop, cpu, newCpu, paused,
                   running, mbMutex, target, pc>>

Pause ==
    /\ InCommand /\ ~paused
    /\ paused' = TRUE
    /\ ExitCPULoopSync(active)
    /\ UNCHANGED <<eventVars, boards, loaded, active, held, cpu, newCpu, running, mbMutex,
                   target, pc>>

Unpause ==
    /\ InCommand /\ paused
    /\ paused' = FALSE
    /\ UNCHANGED <<eventVars, boardVars, running, mbMutex, target, pc>>

---------------------------------------------------------------------------
\* Reactor::run() and deliverEvents().

MainOnly == UNCHANGED <<boards, loaded, active, newCpu, paused, mbMutex, target>>

Polled ==
    /\ pc[Main] = "poll"
    /\ Goto(Main, "lock")
    /\ UNCHANGED <<eventVars, held, exitLoop, cpu, running>> /\ MainOnly

\* Mutant: copies the queue and clears it only when it is empty.
TakeBatchCopy ==
    /\ pc[Main] = "lock"
    /\ IF queue = <<>> THEN Goto(Main, "execute") ELSE Goto(Main, "deliver")
    /\ batch' = queue
    /\ UNCHANGED <<queue, left, allow, nextEvent, delivered, held, exitLoop, cpu, running>>
    /\ MainOnly

TakeBatch ==
    /\ pc[Main] = "lock"
    /\ IF queue = <<>> THEN Goto(Main, "execute") ELSE Goto(Main, "deliver")
    /\ batch' = queue /\ queue' = <<>>
    /\ UNCHANGED <<left, allow, nextEvent, delivered, held, exitLoop, cpu, running>> /\ MainOnly

\* A copy of the listeners, highest priority first.
StartEvent ==
    /\ pc[Main] = "deliver"
    /\ left' = <<Global>> \o SetToSeq(Alive)
    /\ allow' = "lowest"
    /\ Goto(Main, "signal")
    /\ UNCHANGED <<queue, batch, nextEvent, delivered, held, exitLoop, cpu, running>> /\ MainOnly

Priority(l) == IF l = Global THEN "other" ELSE "msx"
Allowed(l)  == allow = "lowest" \/ Priority(l) = allow
Gets(l)     == l \in Registered /\ Allowed(l)

\* signalEvent() of the next listener, which may block the ones below it.
Signal ==
    /\ pc[Main] = "signal" /\ left # <<>>
    /\ \/ /\ Gets(Head(left))
          /\ allow' \in {allow, Priority(Head(left))}
          /\ left' = Tail(left)
       \/ /\ ~Gets(Head(left))
          /\ left' = IF Head(left) \in Registered THEN <<>> ELSE Tail(left)
          /\ UNCHANGED allow
    /\ UNCHANGED <<queue, batch, nextEvent, delivered, held, exitLoop, cpu, running, pc>>
    /\ MainOnly

\* Reactor::signalEvent for a QuitEvent.
SignalQuit ==
    /\ pc[Main] = "signal" /\ left # <<>> /\ Head(left) = Global /\ running
    /\ running' = FALSE
    /\ ExitCPULoopSync(active)
    /\ left' = Tail(left)
    /\ UNCHANGED <<queue, batch, allow, nextEvent, delivered, held, cpu, pc>> /\ MainOnly

\* Mutant: a listener that blocks an event ends the whole delivery.
FinishEventBlocked ==
    /\ pc[Main] = "signal" /\ left = <<>>
    /\ delivered' = Head(batch)
    /\ batch' = IF allow = "lowest" THEN Tail(batch) ELSE <<>>
    /\ Goto(Main, IF batch' = <<>> THEN "lock" ELSE "deliver")
    /\ UNCHANGED <<queue, left, allow, nextEvent, held, exitLoop, cpu, running>> /\ MainOnly

FinishEvent ==
    /\ pc[Main] = "signal" /\ left = <<>>
    /\ delivered' = Head(batch) /\ batch' = Tail(batch)
    /\ Goto(Main, IF Tail(batch) = <<>> THEN "lock" ELSE "deliver")
    /\ UNCHANGED <<queue, left, allow, nextEvent, held, exitLoop, cpu, running>> /\ MainOnly

LoopHead == IF running THEN "poll" ELSE "ended"

\* Mutant: the CPU loop starts without exit requests.
ExecuteAfresh ==
    /\ pc[Main] = "execute" /\ ~paused /\ active \in loaded
    /\ held' = active
    /\ cpu' = [cpu EXCEPT ![active] = newCpu[active]]
    /\ exitLoop' = [exitLoop EXCEPT ![active] = NoExit]
    /\ Goto(Main, "cpu")
    /\ UNCHANGED <<eventVars, running>> /\ MainOnly

\* MSXCPU::execute makes the wanted CPU the active one.
Execute ==
    /\ pc[Main] = "execute" /\ ~paused /\ active \in loaded
    /\ held' = active
    /\ cpu' = [cpu EXCEPT ![active] = newCpu[active]]
    /\ Goto(Main, "cpu")
    /\ UNCHANGED <<eventVars, exitLoop, running>> /\ MainOnly

\* Paused, no active board, or a board that is not powered on.
Blocked ==
    /\ pc[Main] = "execute"
    /\ Goto(Main, LoopHead)
    /\ UNCHANGED <<eventVars, held, cpu, exitLoop, running>> /\ MainOnly

\* Mutant: makes the loop of the active board return, whichever runs.
MixerExitActive ==
    /\ pc[Main] = "cpu"
    /\ ExitCPULoopSync(active)
    /\ UNCHANGED <<eventVars, held, cpu, running, pc>> /\ MainOnly

\* MSXMixer::executeUntil, several times per frame, for the board it is part of.
MixerExit ==
    /\ pc[Main] = "cpu"
    /\ ExitCPULoopSync(held)
    /\ UNCHANGED <<eventVars, held, cpu, running, pc>> /\ MainOnly

\* MSXCPU::setActiveCPU, from the turboR's system controller.
SetActiveCPU ==
    /\ pc[Main] = "cpu"
    /\ \E c \in CPUs \ {cpu[held]} : newCpu' = [newCpu EXCEPT ![held] = c]
    /\ ExitCPULoopSync(held)
    /\ UNCHANGED <<eventVars, boards, loaded, active, held, cpu, paused, running, mbMutex,
                   target, pc>>

\* needExitCPULoop(): the test and the reset are two steps.
TestExit ==
    /\ pc[Main] = "cpu" /\ exitLoop[held][cpu[held]]
    /\ Goto(Main, "leaving")
    /\ UNCHANGED <<eventVars, held, exitLoop, cpu, running>> /\ MainOnly

ResetExit ==
    /\ pc[Main] = "leaving"
    /\ exitLoop' = [exitLoop EXCEPT ![held][cpu[held]] = FALSE]
    /\ held' = None
    /\ Goto(Main, LoopHead)
    /\ UNCHANGED <<eventVars, cpu, running>> /\ MainOnly

---------------------------------------------------------------------------
Thread(t) == ThreadDistribute(t) \/ ThreadEnter(t) \/ ThreadFlag(t)
Command == \/ MainDistribute \/ Pause \/ Unpause
           \/ \E o, b \in Boards : ReplaceBoard(o, b)
           \/ \E b \in Boards : \/ SwitchMachine(b) \/ CreateMachine(b) \/ LoadMachine(b)
                                \/ RestoreMachine(b) \/ ActivateMachine(b)
                                \/ DeleteMachine(b)
Step == \/ Polled \/ TakeBatch \/ StartEvent \/ Signal \/ FinishEvent
        \/ Execute \/ Blocked \/ TestExit \/ ResetExit

Next == \/ \E t \in Threads : Thread(t)
        \/ Command \/ Step \/ SignalQuit \/ MixerExit \/ SetActiveCPU

\* The main thread goes on by itself, and the mixer of the running machine has
\* a sync point in every frame.  Nothing is assumed of the other threads.
Fairness == WF_vars(Step) /\ WF_vars(MixerExit)

Spec == Init /\ [][Next]_vars /\ Fairness

---------------------------------------------------------------------------
TypeOK ==
    /\ queue \in Seq(1..MaxEvent) /\ batch \in Seq(1..MaxEvent)
    /\ left \in Seq(Boards \cup {Global}) /\ allow \in Priorities
    /\ boards \subseteq Boards /\ loaded \subseteq boards
    /\ active \in boards \cup {None} /\ held \in Boards \cup {None}
    /\ exitLoop \in [Boards -> [CPUs -> BOOLEAN]]
    /\ cpu \in [Boards -> CPUs] /\ newCpu \in [Boards -> CPUs]
    /\ paused \in BOOLEAN /\ running \in BOOLEAN
    /\ mbMutex \in Threads \cup {None}
    /\ target \in [Threads -> (Boards \X CPUs) \cup {None}]
    /\ nextEvent \in 1..(MaxEvent + 1) /\ delivered \in 0..MaxEvent
    /\ pc \in [Threads \cup {Main} -> MainPCs \cup ThreadPCs]
    /\ pc[Main] \in MainPCs /\ \A t \in Threads : pc[t] \in ThreadPCs

\* Events are delivered in the order they were queued in, each once, whatever
\* threads and callbacks queue meanwhile (deliverEvents swaps the queue out).
DeliveredInOrder ==
    batch \o queue = [i \in 1..(nextEvent - 1 - delivered) |-> delivered + i]

\* A helper thread only touches the CPU of a board that exists and has one:
\* the board cannot go between reading activeBoard and setting the flag.
FlagsLiveBoard ==
    \A t \in Threads : pc[t] = "flag" => target[t][1] \in Alive \cap loaded

\* The active board has a CPU: exitCPULoopSync calls getCPU(), which asserts
\* a machine configuration, on it whenever the main thread queues an event.
ActiveHasConfig == active # None => active \in loaded

Waiting == /\ pc[Main] = "cpu" /\ held = active /\ queue # <<>>
           /\ \A t \in Threads : pc[t] = "idle"

\* A wake-up is not lost: once the queueing threads are done with
\* enterMainLoop(), the board in its CPU loop with an event in the queue has an
\* exit flag set, whatever happened between the two.  (A loop whose board a
\* callback has replaced is stopped by its mixer.)
WakeupNotLost == Waiting => \E c \in CPUs : exitLoop[held][c]

\* ... and it is the flag of the CPU that runs: "The worst that can happen is
\* that we occasionally needlessly exit the CPU loop" (CPUCore.cc).
WakeupReachesCPU == Waiting => exitLoop[held][cpu[held]]

\* Every event is delivered, unless the program ends first.
EventDelivered ==
    \A e \in 1..MaxEvent : nextEvent > e ~> (delivered >= e \/ pc[Main] = "ended")

\* The loop of a machine that is no longer the active one ends.
OldBoardStops == (pc[Main] = "cpu" /\ held # active) ~> pc[Main] # "cpu"
=============================================================================
