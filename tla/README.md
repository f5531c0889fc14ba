# openMSX in TLA+

openMSX emulates MSX home computers. What it computes (Z80 instructions,
pixels, samples) is well covered by comparing it with real machines. What is
hard to test is *when* things happen: a CPU that runs ahead of the devices it
talks to, recordings that must replay to the last cycle, machines that are
replaced while they run, and helper threads that hand bytes and events to a
single emulation thread. This directory specifies that part.

1. [Parts of the system](#1-parts-of-the-system)
2. [What is modelled, and how it corresponds to the code](#2-what-is-modelled-and-how-it-corresponds-to-the-code)
3. [The runs](#3-the-runs): what each one asks and shows, its bounds
4. [Where the code does something else](#4-where-the-code-does-something-else)
5. [Fairness](#5-fairness)
6. [Proofs](#6-proofs)
7. [What is not modelled](#7-what-is-not-modelled)
8. [Plan](#8-plan)

To run a model: `tlc -config X.cfg M`, with the pairs of the table in section 3.
To check the proofs: `tlapm SchedulerProofs.tla`, and the same for
`ReverseManagerProofs`, `EventLoopProofs`, `MSXPiProofs`, `UnapiNetProofs`,
`UnapiWorkersProofs`, `RS232NetProofs` and `CliConnectionProofs`. All paths below are relative to
`src/src/` of the repository.

## 1. Parts of the system

One thread, called the main thread or the emulation thread, runs everything
that touches a machine: the CPU, the devices, commands, Tcl callbacks and the
delivery of events. Helper threads exist per serial port, MIDI port, network
cartridge, MSXPi, control connection and for the audio callback. They may only
queue events and share a few guarded buffers with one device.

| part | state | operations | interacts with |
|---|---|---|---|
| **Scheduler, CPU loop** (`Scheduler`, `Schedulable`, `CPUCore::execute2`, `CPUClock`) | pending sync points, emulated time, the CPU's clock and its run-ahead limit, `slowInstructions`, `exitLoop` | set and remove sync points, `schedule`, execute an instruction, halt, I/O access, leave the loop | every device calls it, and is called back by it |
| **SchedulerQueue** | an array with spare room at both ends | insert, remove first, remove of a device, remove all of a device | owned by Scheduler |
| **ReverseManager** | the event log, the replay index, snapshots by number, two kinds of sync points, a pending request | start, stop, goto, goback, truncate, save and load replays, record, replay, take and drop snapshots | Scheduler (sync points), StateChangeDistributor (live and replayed input), EventDelay (input held back), EventDistributor (snapshot requests), Reactor (replaces boards) |
| **Reactor, EventDistributor** | boards, the active board, the event queue, listeners by priority, `mbMutex`, exit flags of the CPUs | queue and deliver events; create, load, restore, activate, replace and delete machines; pause, quit | all threads; every listener |
| **MSXPiDevice** | visible offers, the state of the link, the socket, the connection count, a transfer, wait mode | port reads and writes, wait-mode stalls, frames from the server, reconnection, a change of the port setting | emulation thread, reader thread, a server process |
| **UNAPI network cartridge** (`UnapiNet`) | TCP slots with socket, state and two buffers; sockets to be closed; a lookup; the echoes and their replies | open, send, receive, close, abort, reset; connect, accept, receive, send; look a name up; echo; the destructor | emulation thread, socket thread, DNS worker, echo worker, the host's sockets |
| **Serial over a socket** (`RS232Net`, `I8251`) | the socket, a byte queue, the control lines, the protocol's state; what the receiver and the transmitter hold | plug and unplug, read the stream, queue and hand over a byte, send, change a line | emulation thread, reader thread, event queue, the other end |
| other serial and MIDI (`MidiInReader`, `RS232Raw`) | byte queues, timing | plug, unplug, receive, transmit | Plugging, EventDistributor, helper threads |
| Real time, EventDelay | host clock against emulated clock; events with time stamps | sync, resync, delay, flush | Scheduler, main loop |
| **Control connections** (`CliConnection`, `CliServer`, `GlobalCliComm`) | the list of listeners with its mutex, a socket per connection, queued commands | accept, start, parse and queue, execute and reply, log, clear away, end | main thread, a thread of the server, a thread per connection, the clients |
| `after`, key bindings | queues of commands | timed commands, commands for keys | event queue, Tcl |
| Plugging | connectors and what is plugged | plug, unplug | recorded by ReverseManager |
| Device state machines (FDC, IDE, SCSI, flash, EEPROM, SD card, cassette, VDP commands) | registers, phases, buffers | register accesses, sync points | Scheduler, CPU |
| CPU instruction set, video, sound, files, GUI, settings, Tcl | data | | |

What makes each modelled part correct, and what makes that hard:

- **Scheduler and CPU loop.** The CPU may run ahead of the devices only as far
  as nobody can tell: no instruction may start while a sync point is due, and
  the time a device reads never goes back. The CPU keeps a *copy* of the
  earliest sync point (its limit). Any device may register an earlier point at
  any moment, from an I/O handler, from another device's call-back or from a
  command, and the limit is switched on and off by four different paths.
- **SchedulerQueue.** Points of one time run in the order of registration:
  replays rely on it, and the container moves elements in both directions and
  reallocates to keep the order.
- **ReverseManager.** A recording must lead to the state the machine is in, by
  way of any snapshot. Its state is shared with four asynchronous mechanisms:
  two sync points, a request in the event queue and input held back in
  EventDelay. Each can arrive after the recording was stopped, replaced by a
  replay or moved to a new board.
- **Main loop and events.** A helper thread that queued an event must make the
  running CPU loop return, without touching a board that is being replaced or
  deleted, from a Tcl callback inside that very loop perhaps. Events are
  delivered from a copy of the queue to a copy of the listeners.
- **MSXPi.** A byte that the emulation takes must have been offered on the
  connection the reply goes to, although the reader thread may lose, replace
  and cancel everything between any two steps of the emulation.
- **UNAPI.** `select()`, `recv()`, `accept()` and lookups run without the slot's
  mutex. When they return, the MSX may have closed the slot, reset the
  cartridge, or opened the slot again, perhaps with the same socket number. Data
  must not be lost or mixed on the way, no socket may be closed twice, and what was
  asked for before a reset may not be answered after it.
- **Serial.** The reader and the unplug share a socket that both may close. A
  queued byte is handed over by an event, and when the receiver is busy at that
  moment something else has to try again. The stream carries the control lines too.
- **Control connections.** Three threads write to a connection, and it is
  destroyed by a fourth. A reply must reach the client that asked, within one
  well-formed element, in order.

## 2. What is modelled, and how it corresponds to the code

    SyncQueue <- Scheduler <- MCScheduler, SchedulerProofs
    SyncQueue <- SortedQueue <= SchedulerQueue <- MCSchedulerQueue, SchedulerProofs
    SnapshotPruning <- PruningHistory, ReverseManager; both <- ReverseManagerProofs
    EventLoop <- EventLoopProofs
    MSXPiDevice <- MSXPiProofs
    UnapiNet <- UnapiNetProofs
    UnapiWorkers <- UnapiWorkersProofs
    RS232Net <- RS232NetProofs
    CliConnection <- CliConnectionProofs

`<-` is EXTENDS or a composition, `<=` is "is implemented by".

### Scheduler (with SyncQueue)

One machine's emulation thread. `queue` is the set of pending points; a point's
`ticket` tells apart points of one time, in the order they were registered, so
that the set is ordered (`IsFront`, `Before` of SyncQueue). `pc` says whose code
runs:

| `pc` | code |
|---|---|
| `main` | outside `execute2` (commands, events) |
| `loop` | head of the loop of `execute2`: fast or slow? |
| `instr` | an instruction is about to start or go on |
| `io` | the handler of a device that the instruction accessed |
| `ended` | `executeInstructions` has returned |
| `device` | `executeUntil` of a device, inside `scheduleHelper` |
| `check` | before `needExitCPULoop` |

`Schedule` and `DeviceReturns` are the call `Scheduler::schedule(limit)`: its
loop, then its end with `setLimit`. `ret` is where the call returns to.
An instruction takes any number of ticks up to `MaxStep` and may access devices
any number of times; `Access` is also what `wait()` and `waitCycles()` do.
`SetSyncPoint`, `RemoveSyncPoint`, `RemoveSyncPoints`, `SetFreq`,
`SetSlowInstructions` (raising an interrupt, EI, ...) and `ExitSync` may happen
whenever code of a device or command runs; `ExitAsync` at any moment.
`getNext()` reads the front of the queue without a test: like the code the model
relies on some device (the VDP) always having a point. A model state in which
nothing is pending has no `Schedule` step; removing the last point is not
forbidden, and a new one can always be set in the same handler.

### SchedulerQueue and SortedQueue

SortedQueue is the promise: a set of points, with insert and three ways of
removing. SchedulerQueue is the container: the array, `useBegin`, `useEnd`,
the three ways of making room for an element and the reallocation to twice the
size, slot by slot. `ImplementsSortedQueue` is the refinement, with the used
part of the array as the set. The Scheduler model uses the same
operators (SyncQueue) that SortedQueue does.

### SnapshotPruning, PruningHistory and ReverseManager

`Dropped(N, count)` is which snapshots `dropOldSnapshots<N>(count)` erases. The
loop over the bits of `(count + N) ^ (count + N + 1)` is stated as a set over the
powers of two that divide `count + N + 1`. PruningHistory has the loop itself
(`FirstRound`, `Round`), with `y` as the set of its one bits, each as the power of two it
stands for, and a recording that takes one snapshot per period (`TakeNext`): it
shows that the set is what the loop erases, and what repeated pruning leaves. Numbers are
not cut to the 32 bits of the code's `unsigned`, which at one snapshot per second last for decades.

ReverseManager describes the active board (`board`), the distributor's
view-only mode, the event queue's snapshot requests, a saved replay, and the
`goTo()` in progress (`trip`).

- The state of the emulated machine is the sequence of inputs it has received
  (`received`). Two runs of a deterministic machine agree exactly when they
  received the same inputs at the same times, so a savestate stores just that.
- `events`, `replayIndex`, `chunks`, `collecting`, `pendingTakeSnapshot` are
  the fields of the same names; `snapSync` and `inputSync` are the sync points
  of `syncNewSnapshot` and `syncInputEvent`, which the Scheduler keeps; `held`
  is input waiting in EventDelay.
- `pc` is `main` in `Reactor::run`, `run` in the CPU loop, and inside `goTo()`
  `warp` at the head of its loop, `ff` in the `fastForward` of that loop and
  `show` in the last one.
- An instruction is cut into pieces by sync points (`StartInstruction`,
  `ResumeInstruction`), as the Scheduler does it.
- `WithEnd` is what appends the EndLogEvent, `SeqNum` is `getNextSeqNum` with the
  rounding of `lrint`, `StopReplay` includes the events the keyboard adds when
  the keys held differ from the replayed ones.
- `TruncateReplay` is `reverse truncatereplay`: what `StopReplay` does, without an
  input that calls for it.
- `GoTo` covers `goTo` and `goBack`, on this board or a new one; `LoadReplay`
  covers `loadReplay` up to the `goTo` it ends in.

Snapshots of the model are numbered from 0, as in the code: `getNextSeqNum`
returns 0 for an empty history, although the comment at `ReverseManager.cc:917`
says that the first element should have index 1. PruningHistory uses the code's
numbering, and the distances documented there still come out.

### EventLoop

`pc[Main]` is `poll` (input, Tcl and real-time call-backs), `lock`, `deliver`
and `signal` (the two loops of `deliverEvents`), `execute`, `cpu` (inside the CPU
loop), `leaving` (between the test and the reset of `exitLoop`) and `ended`. A
helper thread queues an event (`idle`), takes `mbMutex` and reads the active
board and its active CPU (`enter`), and sets the flag of what it read (`flag`):
these are the separate steps of `distributeEvent`, `enterMainLoop` and
`exitCPULoopAsync`. `held` is the `shared_ptr` copy that keeps the running board
alive. Commands are enabled wherever code of a command or a Tcl callback can run:
while polling, in a listener and inside the CPU loop. `allow` and the copies
`batch` and `left` are those of `deliverEvents`, with the order of priorities.
A new board starts on its Z80, unless it is made of a savestate (`ReplaceBoard`,
`RestoreMachine`): that has the CPU that ran and the one a turboR was about to
go on with, so both are arbitrary (`Fresh`). Which of the two boards openMSX starts with
is a constant (`First`), as they are alike.

### MSXPiDevice

One step per section under `mtx`. `tryBind` tests `link` and `offerCount` without
the mutex and is therefore two steps (`TryBind`, `Bind`); the reader's
`connectSocket` is three (`Connect`, `Adopt`, `Probe`), and the port setting's
observer two (`ChangePort`, `PortChanged`). `sock` is the connection together
with what went over it in both directions, so that properties can speak about the
wire. Bytes are identified with the frame that offered them; transfers complete at
any time, as the MSX program decides when to look. The server may send any
sequence of frames, sensible or not, and hang up at any moment.

### UnapiNet

`slot[h]` is a `TcpConnection`; a section under its mutex is one step. `due` stands
for the time that has passed since `closeDeadline` was set. `fds` are the host's
sockets by number: a number is given out again, the lowest first, once it
was closed, while `id` tells the sockets apart. A byte names its connection and
its place there, so the properties can tell whose data is where.

| `spc` | `socketLoop()` |
|---|---|
| `close` | closing what `deferSockClose` handed over |
| `arm`, `armFin`, `armDrop` | choosing what to watch; a slot in FinWait1: its FIN, and its end |
| `select` | `select()`; nothing ready is also a poke or the time-out |
| `handle` | the slot's socket is compared with the one that was watched |
| `up`, `accept`, `take`, `flush` | connected; `accept()`, and the lock after it; sending the queue |
| `recv`, `store`, `closeWait` | `recv()`, and the two ends of it under the lock |
| `drop` | `requestClose` |

`cmdTcpClose`, `cmdTcpAbort` and `reset` go over several slots and lock each:
`cmd` is what is still to be done. `gracefulClose` unlocks before it drops a listener or
a connection attempt, so there is a step `drop` in between. `conn`, `seen` and
`accepted` of a slot and everything about the peer are not in the code.

### UnapiWorkers

The lookup and the echo workers have one shape: wait for a request, copy it, call
without the mutex, publish under it. They differ in the token: the name stays in
`dns.request` and is compared at the end (`StillAsked`); the echo carries the
generation. `parking` is a worker that has found nothing to do and still has the
mutex, before the wait releases it; that is the window the destructor's empty critical
section closes. The echo worker exists in Windows builds only, where the host has
`IcmpSendEcho`; other builds have the DNS worker alone.

### RS232Net

`uart` is the receiver of the I8251: the receive enable bit, `recvReady`,
STAT_RXRDY, and whether the sync point at the end of a byte is pending. `trans` is
its transmitter: the enable bit, the byte that is being sent and the one that waits
(`sendByte` and `sendBuffer`, as far as STAT_TXEMPTY and STAT_TXRDY say they hold one), and
its sync point. A third byte replaces the second, and switching the transmitter off
forgets both; the ghost `unheard` follows what the MSX wrote until the other end
has heard it. `Signal`
is `RS232Net::signal` with `I8251::recvByte`, which may be called from an event, from
the end of a byte, from a command that switches the receiver and from a reset.
`rpc` is where `run()` is, `mpc` where the emulation thread is inside a call that
the reader can interleave with: before `net_put` (`put`, `bye`), before
`sock_close` (`close`), before `Poller::abort` (`abort`) and before `join`. A command that switches the
receiver calls `signal` last: with the bytes for DTR before it (`tell`, `signal`) or
without (`signal`).
A send reaches the other end as a whole. The baud rate clock is taken to be
periodic, as it is once the MSX has set it. The protocol is modelled byte by byte,
since it is what can go wrong: `Feed` is its step, in both directions.

### CliConnection

`obj[c].life` is what became of a connection object: `made` by the server's thread
(and registered as an event listener), a `listener` of GlobalCliComm, `ending`
while its destructor waits for its thread, `gone`. `rpc[c]` is where
`SocketConnection::run` is (`StdioConnection::run` is the same loop without a tag of its
own and without an end): in `recv` before it reads, in `parse` while the parser may find
another command in the buffer, which it does without a look at the socket; `spc` where the server is: waiting, inside
`addListener` with the mutex (`look`), in the destructor of a closed connection (`join`).
`Outputs` is `output()`; a client that has gone may fail it, which closes the
socket and wakes the thread.

## 3. The runs

| run | module, configuration | asks | distinct states |
|---|---|---|---|
| `scheduler` | MCScheduler, `MCScheduler.cfg` | does the CPU's limit keep every device on time? | 727 k |
| `scheduler_queue` | MCSchedulerQueue, `MCSchedulerQueue.cfg` | is the array a sorted queue? | 98 k |
| `pruning` | PruningHistory, `PruningHistory.cfg` | which snapshots remain after n of them? | 905 |
| `time_travel` | ReverseManager, `ReverseManager.cfg` | recording, replay and goto | 1.9 M |
| `replay_files` | ReverseManager, `ReplayFiles.cfg` | the same with replays saved and loaded, and termination of goto | 452 k |
| `event_loop` | EventLoop, `EventLoop.cfg` | events, wake-ups and machines that come and go | 1.09 M |
| `msxpi` | MSXPiDevice, `MSXPiDevice.cfg` | offers, replies and connections | 1.01 M |
| `unapi_net` | UnapiNet, `UnapiNet.cfg` | do the streams survive closing, reuse and reset? | 1.58 M |
| `unapi_net_underneath` | UnapiNet, `UnapiNetUnderneath.cfg` | section 4 | a counterexample |
| `unapi_workers` | UnapiWorkers, `UnapiWorkers.cfg` | lookups, echoes, resets and the end | 33 k |
| `rs232` | RS232Net, `RS232Net.cfg` | the reader, the UART and the protocol | 4.17 M |
| `cli` | CliConnection, `CliConnection.cfg` | commands, replies, the log and connections that come and go | 928 k |

`TypeOK` of each module documents the values of its variables. It is no
property of a run; the inductive invariants of section 6 contain the part of it that the
proofs need.

**scheduler** shows `LimitIsFresh` (the comment of `CPUClock.hh`: the earliest
sync point is kept up to date), `NothingDueAtInstruction` (what that is for) and
`TimeNeverGoesBack`. Two devices, times up to 4, steps up to 2, three points of one
moment. Two devices are enough for each to register a point before the
other's; two ticks are enough for a point to fall inside an instruction; three
tickets for a point to be inserted between others. The devices are symmetric.
Deadlock is checked: the emulation thread never gets stuck within the bounds.

**scheduler_queue** shows the refinement, and with it the order: the used part of
the array is the sorted sequence of the abstract set. From a capacity of 3 up
to 6, so that every way of making room (moving left, moving right, reallocating)
is taken with and without spare room.

**pruning** follows 180 snapshots for `N` in {1, 2, 3, 7, 25}; 25 is the value in
the code, the others make the boundaries of the powers of two fall differently.
`LoopIsDropped` compares the set with the loop of the code,
`DistancesAsDocumented` is the promise of its comment: the last snapshots are all kept, and
further back the distances grow geometrically. It stops at the bound, so deadlock is not checked.
Both are proved for every `N` and every length of the recording (section 6).

**time_travel**: snapshots two ticks apart, two frames are one tick, `N` is 1 so
that pruning happens within the bound, instructions of up to two ticks (so they
overshoot sync points), two live inputs, time up to 4, two requests in the event
queue. `MachineFollowsLog` and `SnapshotsFollowLog` are the core: machine and
snapshots are always what the log leads to, and snapshots are in the order of
time, which the searches in `goTo` and `stopReplay` rely on; `OneSnapshotPlanned` says that the
sync point, the request in the queue and the pending flag never add up to two or to
none; `NextEventScheduled` that the planned replay is the next event's; `TransferFindsEvent`
is the assertion of `transferHistory`; `GoToLands` is what a user notices. The bounds are the least in which a replay is stopped half
way, a snapshot falls on the time of an event, two snapshots round to the
same number, and a goto starts during each kind of pending request.

**replay_files** has smaller times (period 1, time up to 2) as the saved
history doubles the state. A replay is saved with any selection of snapshots the
code may make and loaded into any later state. `GoToReturns` is checked here and
covers the warps of `time_travel` as well.

**event_loop**: two boards, the least with one that is replaced while it is held
by the main loop, and whose name is used again when nobody holds it any more; two
threads, so that one waits for `mbMutex` while the other has it; two events, so
that one is queued while the other is delivered. The proofs cover more of each. The properties are
`DeliveredInOrder`, `FlagsLiveBoard`, `WakeupNotLost`, and for liveness
`EventDelivered` and `OldBoardStops`. With events exhausted or after a
quit the system stops, so deadlock is not checked.

**msxpi**: two ports, two connections, three frames on each: a greeting, a hold
and an offer, or an offer and a cancel. Two connections are what a stale offer
needs. When the frames are used up all may rest, so deadlock is not checked.

**unapi_net**: one slot, two socket numbers, two sockets over the run, two bytes a
connection, a receive buffer for one. One slot is what the hazards
need: the slot opened again while the socket thread has its old socket in hand,
with another number or, once it is free, the same; a listener that becomes a
connection takes both numbers. Slots share nothing but numbers, the list of sockets to close and the
order in which commands and the socket thread go over them. One byte of room makes every other
byte wait. `ReceivedInOrder` (whole, in order, nothing of an earlier
connection, and the end not before the last byte), `FinAfterData`,
`SocketsOwned` (each socket has one owner, numbers are not given out under a
watcher, no slot is lost), `OnlyWhatItWatched` and `CloseEnds`.

**unapi_workers**: two names, three echoes, a queue of two, two resets: a lookup of
another name while an old one is still running, and a queue that overflows.
`AnswerIsForQuestion`, `NoEchoAcrossReset`, and for liveness `QueryAnswered` and
`ShutdownEnds`. After the destructor all stops, so deadlock is not checked. A
lookup of the *same* name after a reset may be answered by the old call; the
answer is about the question, so the property holds, as the comment at the
comparison intends.

**rs232**: data are the protocol's mark and another byte; the other end does two
things (bytes or line changes), the MSX writes as often as it likes (the UART holds two
bytes at most), two plugs, two events on their way. The mark as data, split from its second half, before a hang-up and
before an unplug all occur. `StreamsAreUnderstood` relates what both ends sent with what
is in each buffer between them, the UART's included, `NoByteStuck` a queued byte with the event, or the
signal of a command, that will hand it over, `AssertionsHold` the assertions of `execRecv`, `execTrans` and `run`.

**cli**: stdin and two clients, two commands, one log message. The second client
is what makes the server clear the first away. `RepliesInOrder`, `OneElement`
and, for liveness, `Answered`. The thread that destroys a connection
holds the mutex of the listeners meanwhile, which the log needs: that no one
waits for another in a circle is part of `Answered` and of the deadlock check.

Every property of a passing run is violated when a line of the code is changed in
the way named by its mutant (the definitions marked "Mutant" in the modules).

## 4. Where the code does something else

Some situations make the code break a property. Each is named by a constant that
excludes it from the passing runs, so that the models say exactly what is
excluded. One of them has a run:

- `Underneath` (`unapi_net_underneath`: `NotUnderneath`). The socket thread
  decides to drop a connection, or finds the end of the peer's data, and then does
  it; a command of the MSX comes in between. Where it calls `requestClose` it
  does not compare the socket again: a slot that was aborted and opened again loses
  the new connection. `UnapiNet.hh:105` says that this cannot happen. And with a
  TCP_CLOSE in the same window before the lock of line 761, CloseWait overwrites FinWait1,
  the deadline is never looked at again and `CloseEnds` fails.

The others are seen by changing a configuration of section 3 as the table says,
with the last column as its only property. Each takes TLC seconds, and at most
some twenty steps:

| change | situation | what fails |
|---|---|---|
| `GoToBeforeTake = TRUE` in `ReverseManager.cfg` | `reverse goto` on the current board while a snapshot request is in the event queue (`ReverseManager.cc:438`): two next snapshots are planned, and one outlives `stop()` | `StopFindsNothingPending` |
| `GoToWithHeldInput = TRUE`, `MaxTime = 5`, `MaxInput = 3` in `ReverseManager.cfg` | a goto forward during a replay with host input held back: the flushed input stops the replay and erases the snapshot that `goTo` still refers to (`ReverseManager.cc:404`) | `TransferFindsEvent` |
| `HeldInputTies = TRUE` in `ReverseManager.cfg` | during a replay, host input that EventDelay delivers at the time of a recorded event, just before it: the replay is stopped and the event erased; a snapshot made at that very moment, after the event, stays, although its machine has received it. With two events of that time (`MaxInput = 3`) the snapshot counts more of them than are left, and a goto to it finds no event to replay | `SnapshotsFollowLog`; with `MaxInput = 3`, `TransferFindsEvent` |
| `SaveAtInputTime = TRUE` in `ReplayFiles.cfg` | a replay saved with a snapshot made at the time of an event, after it: `loadReplay` counts the events *before* the snapshot's time and would replay that event twice | `SnapshotsFollowLog` |
| none, `EventLoop.cfg` | an event wakes the Z80 while a switch to the R800 is pending (`MSXCPU.cc:127`): the flag is set on the CPU that does not run, against the comment at `CPUCore.cc:388` | `WakeupReachesCPU` |
| `ActivateEmpty = TRUE` in `EventLoop.cfg` | `activate_machine` on a machine without configuration (`MSXMotherBoard.cc:766`), then any event: the assertion of `getCPU` fails | `ActiveHasConfig` |
| `CloseBeforePoll = TRUE` in `MSXPiDevice.cfg` | the port setting changes between the reader's test of the socket and its `poll` (`MSXPiDevice.cc:347`): it polls -1, for ever | `Retries` |
| `BindAcross = TRUE` in `MSXPiDevice.cfg` | a byte is bound after the reader has set `sock` to a new connection and before it has taken `mtx` to forget the offers of the old one: the reply to an old offer goes out on the new connection | `RepliesAnswerOffers` |
| `LateReads = TRUE` in `RS232Net.cfg` | the MSX reads a byte only when the time of that byte is over: `ready()` was false when the receiver called `signal()`, and `readTrans` tells no one that there is room again (`I8251.cc:240`); what is queued waits for the next byte | `NoByteStuck` |
| `OldQueue = TRUE` in `RS232Net.cfg` | unplugged with bytes queued for a busy receiver, whose events are over, and plugged in again: nothing has cleared the queue, RTS does not rise, and the old bytes wait for a new one | `NoByteStuck` |
| none, `RS232Net.cfg` | `setDTR`, `recvByte` or `unplugHelper` has tested the socket, the reader finds the connection broken and forgets it, and `net_put` asserts it (`RS232Net.cc:365`) | `NetPutAssert` |
| `Races = {"tag"}` in `CliConnection.cfg` | a message of the log between `established = true` and the opening tag (`CliConnection.cc:309`, "needs locking?") is written before the tag | `OneElement` |
| `Races = {"address"}` in `CliConnection.cfg` | a connection is destroyed with commands queued, and a new one gets its address, which is the id in the events: it executes them and gets the replies (`CliConnection.cc:115`) | `RepliesInOrder` |

One more is excluded because no model can say what happens: the server's thread
destroys a closed connection while the main thread executes its command or goes over a
copy of the listeners that names it (`GlobalCliComm.cc:29`). `Races = {"erase"}` lets it,
with a reply that goes nowhere, and all properties hold; in the code it is a use of
a destroyed object. For the same reason the registration of a listener by that thread,
while `isRegistered` (`EventDistributor.cc:66`) reads the list without the mutex, is only
noted here.

`HeldInputTies` and `SaveAtInputTime` depend on the main loop delivering both between
the same two instructions, which the model allows.

A sender that closes has its unsent data discarded when the peer has closed first:
in FinWait1 with data queued, a `recv()` of 0 drops the slot with its `sendBuf`
(`UnapiNet.cc:755`), although the comment at `UnapiNet.cc:1260` says that what is queued
is delivered. `FinAfterData` speaks of what precedes a FIN, so it is not affected.

In a build without assertions `net_put` then sends to an invalid socket, fails and
closes it; that is how the model goes on. That the socket is closed in one thread while it is in use
in another (`RS232Net.cc:194`, `MSXPiDevice.cc:66`) is modelled as an error of that use;
what happens if the number was given out again to another part of the program
meanwhile is not.

`WakeupNotLost`, the property that holds, is the weaker half of
`WakeupReachesCPU`: some flag is set, and the mixer's sync point ends the loop
in any case, so a lost wake-up costs at most a fraction of a frame.

## 5. Fairness

- **EventLoop**: weak fairness of the steps of the main loop and of the CPU loop
  (`Step`), because the main thread never waits for another thread except for
  `mbMutex`, which is held for a few instructions; and of `MixerExit`, because the
  mixer of every powered machine has a sync point in every frame that calls
  `exitCPULoopSync`. Nothing is assumed of helper threads, commands, listeners or
  the user. The mutant without the mixer shows that `OldBoardStops` needs it.
- **ReverseManager**: weak fairness of the steps inside `goTo()` only: it is
  a plain loop in the main thread. That a user lets time pass is not assumed.
- **MSXPiDevice**: weak fairness of the reader's loop (`ReadLoop`). The emulation
  may stop at any point, the server never has to answer or to hang up.
- **UnapiNet**: weak fairness of the socket thread, which waits for a mutex only as
  long as the emulation thread needs for a few assignments, and of `TimePasses`, the
  clock. Nothing of the MSX, which need not read, and nothing of the network.
- **UnapiWorkers**: weak fairness of each worker, whose calls return in the end (a
  resolver and an echo have time-outs), and of the steps of a destructor that has
  begun. A wake-up without a notify is possible and never relied on.
- **CliConnection**: weak fairness of each connection's thread, the server's
  thread, the start-up, the delivery of events and the steps of an exit. Whether
  clients, the user and the log do anything is left open. That a command
  ends, and that a client reads what is written to it, is assumed: `send()` blocks
  while it does not.
- **Scheduler, SchedulerQueue, PruningHistory, RS232Net**: no fairness, safety only.

## 6. Proofs

The proofs hold for every set of devices, boards and threads and for every
value of the bounds, under the assumptions named in the modules
(`BoundsAssumption`, `ConstantsAssumption`: bounds are natural numbers, names are distinct;
`NoneAssumption` of UnapiNet: the value for "no socket" is not a socket). Some theorems
exclude a situation of section 4, in which the property is false, by the constant that
stands for it.

**SchedulerProofs.** The properties of `Scheduler` are not inductive: that nothing is
due when an instruction starts depends on the limit, which depends on where the
thread is. `SchedInv` adds

- where the thread is while a `schedule()` call is in progress, and that its
  argument is then the CPU's time (`CallInProgress`);
- that after such a call nothing is due until code of a device runs again, not
  only at an instruction (`NothingDue`);
- that an enabled limit belongs to a fast loop without slow instructions, apart
  from one that an earlier `execute2` left behind (`LimitMeansFast`);

to `NeverInThePast`, `LimitIsFresh` and `SchedulerNotAhead`.

`SchedInvHolds` proves it invariant with one step per action. `NoSyncPointMissed`
(`NothingDueAtInstruction`, and `NeverInThePast`), `LimitKeptUpToDate` (`LimitIsFresh`) and `TimeIsMonotonic`
(`TimeNeverGoesBack`, an action property from the same invariant) follow.

The second part proves the refinement: `ArrayImplementsQueue` says that SchedulerQueue (here the instance `Array`)
implements SortedQueue, for every capacity, number of points and set of devices; `Sizes` is what
`CapacityAssumption` assumes. The invariant is the array's `TypeOK` with `Ordered`: the slots in use are in
the order in which they will be served, by time and then by ticket. Each step is taken apart in two:

- where the elements go. `Inserted(t, it, o)` is what the three ways of making room have in common: what was in use
  moves by `o` and leaves a place for the new element (`InsertEffect`). A removal moves the elements that stay to
  other places without changing their order (`KeptInv`); `GapClosed` is the case of one that goes, from either side;
- what that means for the set. The new element's time is not before that of those in front of it, its ticket is the highest, and it is
  before those behind it; the first match in the array is the first of the set.

That `remove_all` fills its places without a gap is a matter of counting: as many places as
elements stay, and no two elements at one place.

**ReverseManagerProofs.** Pruning first. Snapshot 0 is never dropped (`OldestNeverDropped`):
erasing it would need `count + N + 1 = (2N + 1) p` for a `p` of which `2p` divides
`count + N + 1`, so that the odd number `2N + 1` would be even. `OnlyOlderDropped`:
for `N > 0` all that is erased lies between 1 and `count - 1`. Both hold for all counts.

That the set is what the loop of the code computes (`LoopAlwaysDropped`) is an
induction over the rounds: before round `n`, for `p` the `n`-th power of two, `y` is the set of the powers `q`
for which `pq` divides `count + N + 1` (`BitsThatFlip`: these are the ones of the exclusive or), `d` is
`Distance(N, p)`, and one snapshot is erased for each smaller power (`Walk`). A round that
returns leaves nothing to a later one, since distances grow and a power that divides is
divided by the smaller ones (`LoopIs`).

`DistancesHold` is the comment of `dropOldSnapshots`. Its invariant is the closed form
of what is left (`Kept`): snapshot `i` of `c + 1` is there as long as `c - i` is less than
`Distance(N, p)`, with `p` the largest power of two that divides `i`. It is inductive, because what a call erases is
what has just become too old (`KeptNext`). With `Edge(q) = q ((c + N + 1) div q - N)`, the snapshots left are those `i`
with a power `p` that divides them and `Edge(2p) < i` (`KeptIs`). Edges fall as powers grow (`EdgesFall`), so each
`i` lies between two of them, `Edge(2d) < i <= Edge(d)`, and `d` is its distance to the next older snapshot (`AtNext`). The rest is
counting the multiples of `d` between two edges (`Counted`), of which there are `N` or `N + 1`
if there is a snapshot beyond.

The properties of ReverseManager are not inductive, least of all one by one: that the machine follows the log after
a goto depends on the snapshot it was loaded from, whose place in the log depends on which events
were erased by `stopReplay` and which numbers `getNextSeqNum` gave. `RevInv` says, besides the types and
`OneSnapshotPlanned`:

- `Log`: the log is ordered by time, and only its last element may be the EndLogEvent; `Planned`: a sync point
  for exactly the next event while replaying, none otherwise;
- `History`: snapshot 0 exists and counts no events; each snapshot's number is its rounded distance from snapshot 0, so
  that numbers and times have one order (`RoundOrder`: `lrint` keeps it); it divides the log at its time (`Fits`);
  and it holds the inputs of snapshot 0 followed by those of the events it counts;
- `Recording`: the machine holds those of the first `replayIndex` events; a snapshot that is planned
  comes a period after snapshot 0 at least, so that the number 0 is never given out again;
- `Past`: no snapshot up to now is ahead in the log. This is what lets `stopReplay` erase the events after
  `replayIndex` and keep these snapshots. It holds when no sync point is due, and not in between: a snapshot and
  an event of one time are handled one after the other;
- `FileInv`: a saved replay has such a history too, and with `Exact` its snapshots count the events strictly before
  them, which is what `loadReplay` counts;
- `TripInv`: where `goTo()` is, that it has not gone past the target by an instruction, nor past the
  time before the target up to which it runs without output.

TLC checked `RevInv` on both configurations before it was proved. The proof has an effect lemma for each piece that
several actions share (taking a snapshot, recording an input, `stopReplay`, `WithEnd`, a step of the CPU, the
two sync points, the loading of a board), and one lemma for each action. The step that takes
most is `RecordInv`: an input erases what the log and the chunks have ahead of it, and can be the one
that a goto's flush delivers.

`MachineAlwaysFollowsLog`, `SnapshotsAlwaysFollowLog`, `SnapshotAlwaysPlanned`, `NextEventAlwaysScheduled`, and
the action properties `TransferAlwaysFindsEvent` and `GoToAlwaysLands` follow, for any periods, lengths of instructions,
numbers of inputs and last time, with what each assumes:

- `SnapshotAlwaysPlanned` only excludes a goto on this board while a snapshot request is queued
  (`~GoToBeforeTake`), in which it is false. It has an invariant of its own, `PlanInv`, which says nothing of
  the log: the machine is a record, during the warp it records, and what is planned is counted (`PlanFits`);
- the others assume `Usual`, which also excludes the two situations in which held-back host input ends
  a replay too early, and which break the history itself; in each of the two TLC finds these properties false, apart from
  `GoToLands`;
- `MachineAlwaysFollowsLog` and `SnapshotsAlwaysFollowLog` assume `Exact` as well: no snapshot of the time of an
  input is saved (`~SaveAtInputTime`). Without it `RevInv` no longer says what was received, but all else still
  holds, because the count that `loadReplay` gives a snapshot divides the log at its time too, even when it is
  a smaller one (`EventsBefore`, `LoadedHistory`).

**EventLoopProofs.** `LoopInv` is the type invariant of the parts the properties
need, with `Locked`: a thread about to set a flag holds `mbMutex` and has the
active board, which is loaded, as its target. As `switchBoard` needs `mbMutex`,
that board cannot be replaced meanwhile. Two further invariants build on it:

- `Numbered`: what is left of the batch, followed by the queue, are consecutive
  numbers up to the last event queued, which is `DeliveredInOrder` element by
  element;
- `Flagged`: once the main thread has found the queue empty and is on its way
  to the CPU loop or in it, an event in the queue has a thread on its way to the
  flag, or some flag of the active board is set. `WakeupNotLost` follows, and it
  needs `ActiveHasConfig`: `enterMainLoop` sets no flag of a board without CPU.

`LoopInvHolds`, `NoFlagOfDeadBoard`, `EventsInOrder` are unconditional;
`ActiveBoardHasCPU` and `NoWakeupLost` assume `~ActivateEmpty`, the situation of
section 4 (with it, the first is false).

**MSXPiProofs.** `PiTypes` is the typing the proofs need. `RunsAreClosed` and
`PortIsCurrent` are inductive with it. For `RepliesAnswerOffers`, frames are
numbered per connection, and `AnswerInv` says that the replies on the wire, the visible offers, the
frames held back and the frames in the reader's buffer, in this order, are
frames of the present connection from older to newer:

- `Received`: frames are numbered as the server sent them, the buffer is empty
  unless it is being handled, and nothing is sent before the connection is probed;
- `Outstanding`: each of the three sequences rises, each is below the next, and
  nothing in them has been replied to;
- `Replied`: the replies rise, and are for frames of this connection;
- `Greeted`: the first thing sent is the hello, and it was sent before an offer
  can be visible.

For `CancelSeparates`, `AckInv` says that some number `k` of frames of the
connection has been handled (`Acknowledged(k)`): the buffer has exactly those that
follow; after the greeting, as many acknowledgements were sent as there are cancels
among the `k`; what is visible or held is among the `k` and no cancel comes between
it and the `k`-th, since a cancel forgets both; and each reply on the wire has the
right count before it (`Counted`). Binding a byte then counts right because the
cancels before its offer are all the cancels among the `k`. The numbers come from
`AnswerInv`; that `k` exists was checked with TLC before it was proved.

`ConnectedToCurrentPort` and `NoOpenRunIsVisible` are unconditional;
`RepliesAreForOffers` and `CancelsAreAnsweredFirst` assume `~BindAcross`, the situation
of section 4: between `Adopt` and `Probe` the offers are those of the old connection.

**UnapiNetProofs.** Effect lemmas first (`TcpOpenEffect` and so on): what each step does
to slots, sockets and the thread's locals, with the types (`NetTypes`), so that the invariants are argued
about without opening the actions again. `NetInv` is inductive by itself:

- `OwnInv`: the sockets of the slots, those to be closed and the one just accepted are
  pairwise different, and are all that are open;
- `WatchInv`: what is watched or in hand is open and the one it was, and nothing is watched
  when sockets are closed, which is why a number cannot be given out under a watcher;
- `StateInv`: a slot has a socket exactly when it is not closed.

`SocketsAreOwned` adds the count that `SocketsOwned` states. It is unconditional: even what
happens "underneath" neither loses a socket nor closes one twice. `SafeInv` says that a slot
that is dropped, or whose deadline is looked at, has the socket that was
tested; it is what `~Underneath` buys, and `OnlyTheWatchedChanges` follows.

For `TheFinIsLast`, `Sends` says of a slot and its socket that what is queued follows what is out, that
together they are what was accepted, and that nothing is queued once the FIN is
out. `AcceptInv` carries it over the step in which a listener becomes a connection: the accepted
socket is new and the slot still is a listener. It assumes `~Underneath`, because the FIN is sent for `sd`
and tested for the slot.

`NothingIsTruncated` does without: the thread compares the socket before it stores.
Its invariant follows a byte from the host to the MSX:

- `ReceiveInv`: a slot's `recvBuf` follows what the MSX has read, and with what is in hand
  they are all that was received, and fit into the capacity; in CloseWait all has been received;
- `ChunkInv`: what is in hand is the end of what was received, and the peer's end is only
  reported when nothing was left;
- `ReadyInv`: a socket that `select()` reported stays ready until its slot's turn, so that a
  `recv()` of 0 is the end and not a false alarm;
- `StageInv`: which states a slot can be in where the thread is, if it still has the socket.

The model lets nothing happen to a socket after it was handed over for closing, which
no slot looks at any more.

**UnapiWorkersProofs.** Two invariants, one for each worker. `DnsInv` adds to
`AnswerIsForQuestion` that a pending request is the name asked for last, which with the
comparison of `StillAsked` makes a late answer one about the question. `EchoInv` adds
the order of what an echo passes through (`EchoOrder`): replies, the worker's copy and the
pending request are of the present generation or will be dropped, with rising
numbers. `AnswersAreForQuestions` and `NoEchoSurvivesReset` are unconditional, for any names, queue
length and number of echoes and resets.

**RS232NetProofs.** `StreamsUnderstood` (`StreamsAreUnderstood`) comes first, without any
assumption. The property relates what a parser makes of a whole stream with
what is in the buffers between the two ends, so the first part is about the parser alone, a
recursive function over the bytes: it reads a prefix and then the rest from where it stands
(`ParseAppend`, `ParseHead`), what is sent as data comes out as data whatever its value, doubled or not
(`ParseData`), what is sent as a line change comes out as one (`ParseLine`), and a byte fed to it changes what
comes out only at the end (`FeedBehind`). The invariant `StreamInv` then says for each direction (`InUnderstood`, `OutUnderstood`)
where between the ends each byte is: in the wire, in the reader's buffer, in the queue, on
its way through an event, in the UART; `Reading` is where the parser of the reader stands. It was
checked with TLC first.

`SerialInv` is `ReceiverOK` with the types of the receiver and
the device; `TransInv` says of the transmitter that it holds at most two bytes, and has
a sync point just when it holds one, which is its half of `AssertionsHold`. `SignalEffect` says what `signal()` leaves behind, whoever called it: either it
could not hand over a byte, or there is none left, or the receiver is busy
now. With it `SerialAssertions` needs one step per action. `NoByteIsStuck` assumes
`~LateReads` and `~OldQueue` (section 4); its strengthening is `ReadInTime`: while a byte is unread,
the receiver is busy, so that the end of its time will try again.

**CliConnectionProofs.** `CliTypes` and `LifeInv` say how far a connection object, its thread and
its client can be apart. For `RepliesAreInOrder`, the commands of one client are
numbered as it sent them, and `AnswerInv` says for each connection: those it has not
read are the last ones; those it has read and not yet handed over are in the shared queue, in
order, without a gap (`QueuedAre`); and for some `b`, all up to `b` were executed or dropped,
with one reply each as long as the client is there (`Handed`). A connection that is
destroyed drops what follows `b`, so replies may be missing at the end, never in between. The
theorem assumes `"address" \notin Races`: an id names one connection only.

`ElementInv` is about the order of the tags against the flags that `output()` tests: what is written
starts with the opening tag before anyone else can write, and the descriptor is
gone, or openMSX is ending, when the closing tag is there. `OutputIsOneElement` also
assumes `"tag" \notin Races`.

Every safety property of a run is stated by one of these theorems. Only model-checked are the
liveness properties (`GoToReturns`, `EventDelivered`, `OldBoardStops`, `Retries`, `HangUpSeen`,
`CloseEnds`, `QueryAnswered`, `ShutdownEnds` and `Answered`): liveness under fairness and
ENABLED are out of reach of the prover. Facts about a recursive function for
every length (the parser of the stream, the rounds of `dropOldSnapshots`) are proved by induction
all the same, without the library's induction theorems, which take an operator as a parameter: the numbers
for which a fact fails are a set, and its least member leads to a contradiction (`AllNumbers`).

## 7. What is not modelled

Within the modelled parts:

- Scheduler: what instructions compute, and saving and loading of sync points.
- ReverseManager: the re-record count, a savestate or a file that fails, the
  contents of savestates (they restore the whole machine), the transfer of
  settings and debugger state to the new board, and the status queries.
- EventLoop: the contents of events, SDL's wake-up of a main loop that sleeps
  while it is blocked, saving the setup at exit, and the work of listeners.
- MSXPi: values of bytes, a partly shifted register, the time spent waiting for the
  server, frames split over two reads and the destructor.
- UNAPI: UDP, endpoints and close reasons, the parameters of commands and the commands that only
  read, resident connections (a TCP_CLOSE of all takes any set of slots), pokes, which only shorten a
  wait, and the transport of command bytes through the ports. An error of
  `select()` is a time-out, as in the code.
- Serial: the length of a byte's time, modes, parity and
  interrupts, the overrun flag (a byte is never handed to a full receiver), partial sends, RI, and the reader of the
  Windows build, which has no `Poller`.
- Control connections: the XML parser, what updates a client has asked for, the authentication and the
  pipe of the Windows build, partial sends, a client that never reads, and the
  postponed commands of start-up scripts.

Not at all: the parts with status `not_modelled` in `PROJECT.json`, each with its
reason. In short: instruction set, video, sound, memory mappers and image formats
are data, out of proportion for a model; GUI, settings, Tcl, files and
configuration are sequential code or plain I/O; third-party code, scripts and
machine descriptions are not the emulator's core. The rest is in the plan.

## 8. Plan

Done, in this order: Scheduler and its queue, snapshots and ReverseManager,
EventLoop, MSXPiDevice, UnapiNet and its workers, RS232Net with
the I8251, the control connections. Next to model:

1. **EventDelay and RTScheduler**: order of delayed events against their sync points,
   flush, and call-backs that re-register; EventDelay composed with ReverseManager
   in place of the counter `held`. Hazards: events are delivered in the order of their
   arrival at sync points that come from time stamps (`EventDelay.cc:161`); a call-back
   that registers itself again at once must not hold up the others (`RTScheduler.cc:54`).
2. **MidiInReader and RS232Raw**: the reader of RS232Net with a file in place of the socket; their
   queue survives an unplug too (`MidiInReader.cc:113`).
3. **Savestates in Scheduler**: a loaded machine registers its sync points again device by device, so
   that points of one time may be ordered differently (`Schedulable.cc:60`).
4. **Device state machines**: AmdFlash and EEPROM command automata against a
   reference, WD2793 and TC8566AF with their sync points on the Scheduler, IDE
   and SCSI phases, cassette motor and sync points, VDP command engine.
5. **IRQHelper and MSXCPU**: shared interrupt lines as a count, CPU switches.

To prove next: `GoToLands` without `Usual`, where TLC finds no violation of it; and the invariants of the
modules above when they are written.

Hazards of the modelled parts that no property covers, and why:

| where | hazard | reason |
|---|---|---|
| `Scheduler.hh:55` | `getNext()` reads the front of an empty queue | the VDP always has a point; the model has no step there |
| `ReverseManager.cc:622` | `saveReplay` adds an event to the live log and must take it back | one step, in one thread; both ends of the `try` do it |
| `ReverseManager.cc:857` | numbers of snapshots are skipped when pruning | what should be kept then is documented nowhere |
| `EventDistributor.cc:99` | a listener unregisters another in the same copy | the guard of the step in the model is the test of the code |
| `EventDistributor.cc:104` | a listener throws and the static copy keeps its elements | the program ends then |
| `MSXPiDevice.cc:66` | the socket's number is given out again while the reader uses it | section 4 |
