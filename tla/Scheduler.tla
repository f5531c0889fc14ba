----------------------------- MODULE Scheduler -----------------------------
(* The emulation thread: Scheduler (src/src/Scheduler.cc), the CPU loop that *)
(* drives it (CPUCore<T>::execute2) and the run-ahead limit the two share    *)
(* (CPUClock).  Devices register sync points; the CPU runs instructions up   *)
(* to the limit, then hands its time to schedule(), which lets every device  *)
(* that is due run at exactly the time it asked for.                         *)
EXTENDS SyncQueue

CONSTANTS Devices,    \* the Schedulables of one machine
          MaxTime,    \* bound: emulated time is 0..MaxTime
          MaxStep,    \* bound: clock ticks between two points of an instruction
          MaxTicket   \* bound: sync points told apart at one moment

ASSUME BoundsAssumption ==
    MaxTime \in Nat /\ MaxStep \in Nat \ {0} /\ MaxTicket \in Nat \ {0}

VARIABLES queue,              \* pending sync points
          scheduleTime,       \* Scheduler::scheduleTime
          scheduleInProgress, \* Scheduler::scheduleInProgress
          limitArg,           \* argument of the schedule() call in progress
          ret,                \* where that call returns to
          cpuTime,            \* CPUClock::getTime()
          cpuLimit,           \* CPUClock::limit as an absolute time, Off if disabled
          slow,               \* CPUCore::slowInstructions
          mode,               \* which loop of execute2 runs
          exitLoop,           \* CPUCore::exitLoop
          pc                  \* where the emulation thread is

schedVars == <<queue, scheduleTime, scheduleInProgress, limitArg, ret>>
cpuVars   == <<cpuTime, cpuLimit, slow, mode, exitLoop, pc>>
vars      == <<schedVars, cpuVars>>

Time  == 0..MaxTime
Off   == -1
Point == [time : Time, device : Devices, ticket : 1..MaxTicket]

\* main: outside execute2   loop: choosing fast or slow   instr: an instruction
\* starts   io: in a device's I/O handler   ended: out of executeInstructions
\* device: in executeUntil, inside schedule()   check: before needExitCPULoop
PCs == {"main", "loop", "instr", "io", "ended", "device", "check"}

\* The states in which code of a device or of a command runs.
InDeviceCode == pc \in {"main", "io", "device"}

TypeOK ==
    /\ queue \subseteq Point
    /\ scheduleTime \in Time
    /\ scheduleInProgress \in BOOLEAN
    /\ limitArg \in Time
    /\ ret \in {"loop", "io", "check"}
    /\ cpuTime \in Time
    /\ cpuLimit \in Time \cup {Off}
    /\ slow \in 0..2
    /\ mode \in {"fast", "step"}
    /\ exitLoop \in BOOLEAN
    /\ pc \in PCs

Init ==
    /\ queue = {}
    /\ scheduleTime = 0 /\ scheduleInProgress = FALSE
    /\ limitArg = 0 /\ ret = "loop"
    /\ cpuTime = 0 /\ cpuLimit = Off
    /\ slow = 0 /\ mode = "fast" /\ exitLoop = FALSE
    /\ pc = "main"

-----------------------------------------------------------------------------
\* CPUClock::setLimit(time): a no-op while the limit is disabled.
SetLimit(time) == cpuLimit' = IF cpuLimit = Off THEN Off ELSE time

\* Mutant of Due: a point at the limit itself is left.
DueStrictly(p, limit) == p.time < limit

Due(p, limit) == p.time <= limit

(* The calls a Schedulable makes.  setSyncPoint asserts time >= scheduleTime *)
(* and tells the CPU only when no schedule() call is in progress.            *)
\* Mutant of Announce: setSyncPoint does not tell the CPU.
AnnounceNothing(Q) == UNCHANGED cpuLimit

Announce(Q) ==
    IF scheduleInProgress THEN UNCHANGED cpuLimit
    ELSE \E p \in Q : IsFront(p, Q) /\ SetLimit(p.time)

SetSyncPoint(d, time) ==
    /\ InDeviceCode
    /\ time >= scheduleTime
    /\ \E k \in 1..MaxTicket :
         /\ IsNextTicket(k, queue)
         /\ queue' = queue \cup {[time |-> time, device |-> d, ticket |-> k]}
    /\ Announce(queue')
    /\ UNCHANGED <<scheduleTime, scheduleInProgress, limitArg, ret,
                   cpuTime, slow, mode, exitLoop, pc>>

RemoveSyncPoint(d) ==
    /\ InDeviceCode
    /\ queue' = WithoutFirstOf(d, queue)
    /\ UNCHANGED <<scheduleTime, scheduleInProgress, limitArg, ret, cpuVars>>

RemoveSyncPoints(d) ==
    /\ InDeviceCode
    /\ queue' = WithoutAllOf(d, queue)
    /\ UNCHANGED <<scheduleTime, scheduleInProgress, limitArg, ret, cpuVars>>

-----------------------------------------------------------------------------
(* schedule(limit), called with cpuTime' as its argument.  getNext() reads   *)
(* *useBegin, so it needs a pending point: every machine has a device (the   *)
(* VDP) that always keeps one.                                               *)

\* What the caller does when schedule() returns: the call at the start of
\* execute2 is followed by setSlowInstructions().
Return(r, newLimit) ==
    /\ pc' = r
    /\ IF r = "loop" THEN slow' = 2 /\ cpuLimit' = Off
                     ELSE slow' = slow /\ cpuLimit' = newLimit

\* One iteration of scheduleHelper: take the first point and run its device.
RunFront(p, limit, r) ==
    /\ queue' = queue \ {p}
    /\ scheduleTime' = p.time
    /\ scheduleInProgress' = TRUE
    /\ limitArg' = limit /\ ret' = r
    /\ pc' = "device"
    /\ UNCHANGED <<slow, cpuLimit>>

Schedule(limit, r) ==
    \E p \in queue :
      /\ IsFront(p, queue)
      /\ \/ /\ Due(p, limit)
            /\ RunFront(p, limit, r)
         \/ /\ ~Due(p, limit)
            /\ scheduleTime' = limit
            /\ Return(r, cpuLimit)
            /\ UNCHANGED <<queue, scheduleInProgress, limitArg, ret>>

\* executeUntil() returns: go on with the next point that is due, or leave
\* scheduleHelper, telling the CPU the next limit, and leave schedule.
DeviceReturns ==
    /\ pc = "device"
    /\ \E p \in queue :
         /\ IsFront(p, queue)
         /\ \/ /\ Due(p, limitArg)
               /\ RunFront(p, limitArg, ret)
            \/ /\ ~Due(p, limitArg)
               /\ scheduleInProgress' = FALSE
               /\ scheduleTime' = limitArg
               /\ Return(ret, IF cpuLimit = Off THEN Off ELSE p.time)
               /\ UNCHANGED <<queue, limitArg, ret>>
    /\ UNCHANGED <<cpuTime, mode, exitLoop>>

-----------------------------------------------------------------------------
(* CPUCore::execute2.                                                        *)

\* Entering: one schedule() up to the CPU's own time, then two slow ones.
Execute(m) ==
    /\ pc = "main"
    /\ mode' = m
    /\ Schedule(cpuTime, "loop")
    /\ UNCHANGED <<cpuTime, exitLoop>>

\* The fast loop: enableLimit(), and instructions as long as it is not reached.
StartFast ==
    /\ pc = "loop" /\ mode = "fast" /\ slow = 0
    /\ \E p \in queue :
         /\ IsFront(p, queue)
         /\ cpuLimit' = p.time
         /\ pc' = IF cpuTime >= p.time THEN "ended" ELSE "instr"
    /\ UNCHANGED <<schedVars, cpuTime, slow, mode, exitLoop>>

\* executeSlow() and the stepping loop: one instruction.
StartSlow ==
    /\ pc = "loop" /\ (slow > 0 \/ mode = "step")
    /\ slow' = IF slow > 0 THEN slow - 1 ELSE 0
    /\ pc' = "instr"
    /\ UNCHANGED <<schedVars, cpuTime, cpuLimit, mode, exitLoop>>

\* READ_PORT, WRITE_PORT, uncached memory accesses, wait(), waitCycles():
\* schedule() up to the moment of the access, then the device's handler.
Access(k) ==
    /\ pc \in {"instr", "io"}
    /\ cpuTime + k <= MaxTime
    /\ cpuTime' = cpuTime + k
    /\ Schedule(cpuTime + k, "io")
    /\ UNCHANGED <<mode, exitLoop>>

\* EI, RETN, ... inside an instruction; raiseIRQ() or raiseNMI() by a device.
SetSlowInstructions ==
    /\ pc = "instr" \/ InDeviceCode
    /\ slow' = 2 /\ cpuLimit' = Off
    /\ UNCHANGED <<schedVars, cpuTime, mode, exitLoop, pc>>

\* CPUClock::setFreq: disables the limit, nothing else tells the loop.
SetFreq ==
    /\ InDeviceCode
    /\ cpuLimit' = Off
    /\ UNCHANGED <<schedVars, cpuTime, slow, mode, exitLoop, pc>>

\* The end of an instruction: the next one follows unless the limit is reached.
EndInstruction(k) ==
    /\ pc = "io" \/ (pc = "instr" /\ k > 0)
    /\ cpuTime + k <= MaxTime
    /\ cpuTime' = cpuTime + k
    /\ pc' = IF cpuTime + k >= cpuLimit THEN "ended" ELSE "instr"
    /\ UNCHANGED <<schedVars, cpuLimit, slow, mode, exitLoop>>

\* executeSlow() while halted: the clock jumps to the next sync point, rounded
\* up to a whole number of halt cycles.
Halt(k) ==
    /\ pc = "loop" /\ slow > 0
    /\ \E p \in queue :
         /\ IsFront(p, queue)
         /\ p.time + k <= MaxTime
         /\ cpuTime' = p.time + k
    /\ slow' = 2 /\ cpuLimit' = Off
    /\ pc' = "ended"
    /\ UNCHANGED <<schedVars, mode, exitLoop>>

AfterInstructions ==
    /\ pc = "ended"
    /\ Schedule(cpuTime, "check")
    /\ UNCHANGED <<cpuTime, mode, exitLoop>>

\* needExitCPULoop(), or a breakpoint that is hit in the stepping loop.
CheckExit ==
    /\ pc = "check"
    /\ exitLoop' = FALSE
    /\ pc' = IF exitLoop THEN "main" ELSE "loop"
    /\ UNCHANGED <<schedVars, cpuTime, cpuLimit, slow, mode>>

BreakPoint ==
    /\ pc = "check" /\ mode = "step"
    /\ pc' = "main"
    /\ UNCHANGED <<schedVars, cpuTime, cpuLimit, slow, mode, exitLoop>>

\* exitCPULoopSync() by code on the emulation thread, exitCPULoopAsync() by
\* another thread at any moment.
ExitSync ==
    /\ InDeviceCode
    /\ exitLoop' = TRUE /\ cpuLimit' = Off
    /\ UNCHANGED <<schedVars, cpuTime, slow, mode, pc>>

ExitAsync ==
    /\ exitLoop' = TRUE
    /\ UNCHANGED <<schedVars, cpuTime, cpuLimit, slow, mode, pc>>

Next ==
    \/ \E d \in Devices, t \in Time : SetSyncPoint(d, t)
    \/ \E d \in Devices : RemoveSyncPoint(d)
    \/ \E d \in Devices : RemoveSyncPoints(d)
    \/ DeviceReturns
    \/ \E m \in {"fast", "step"} : Execute(m)
    \/ StartFast
    \/ StartSlow
    \/ \E k \in 0..MaxStep : Access(k)
    \/ SetSlowInstructions
    \/ SetFreq
    \/ \E k \in 0..MaxStep : EndInstruction(k)
    \/ \E k \in 0..MaxStep : Halt(k)
    \/ AfterInstructions
    \/ CheckExit
    \/ BreakPoint
    \/ ExitSync
    \/ ExitAsync

Spec == Init /\ [][Next]_vars

-----------------------------------------------------------------------------
\* No pending sync point lies in the past: scheduleHelper never meets one
\* (its assert, Scheduler.cc:94), whatever devices register and cancel.
NeverInThePast == \A p \in queue : p.time >= scheduleTime

\* "The earliest SP must always be kept up-to-date" (CPUClock.hh:82): outside
\* scheduleHelper an enabled limit is never later than the earliest point.
LimitIsFresh ==
    ~scheduleInProgress /\ cpuLimit # Off => \A p \in queue : cpuLimit <= p.time

\* No instruction starts while a sync point is due: the fast loop, which only
\* compares its clock with the limit, never runs past one.
NothingDueAtInstruction ==
    pc = "instr" => \A p \in queue : p.time > cpuTime

\* executeSlow and the stepping loop run one instruction at a time: the limit
\* is off whenever they start one (asserts at CPUCore.cc:2472 and 2543).
OneInstructionWhenSlow ==
    pc = "loop" /\ (slow > 0 \/ mode = "step") => cpuLimit = Off

\* Outside schedule() devices never see a time ahead of the CPU's.
SchedulerNotAhead == scheduleTime <= cpuTime

\* Emulated time, as every device reads it, never goes back.
TimeNeverGoesBack == [][scheduleTime' >= scheduleTime]_vars
=============================================================================
