-------------------------- MODULE SchedulerProofs --------------------------
(* Scheduler's invariants for every set of devices, every bound on time and  *)
(* every instruction length.  SchedInv is the inductive invariant: the       *)
(* properties that TLC checks, plus what holds at each point of the loop.    *)
(* The second part shows that the array of SchedulerQueue is the queue.      *)
EXTENDS Scheduler, FiniteSetTheorems, WellFoundedInduction, TLAPS

\* A schedule() call was made with the CPU's own time and has not reached it.
CallInProgress ==
    /\ scheduleInProgress = (pc = "device")
    /\ pc = "device" => limitArg = cpuTime

\* Right after schedule() nothing is due, until device code runs again.
NothingDue ==
    pc \in {"loop", "check", "instr"} => \A p \in queue : p.time > cpuTime

\* An enabled limit belongs to a fast loop without slow instructions; only
\* execute2's first schedule() meets one that an earlier call left behind.
LimitMeansFast ==
    cpuLimit # Off =>
      /\ slow = 0
      /\ mode = "fast" \/ pc = "main" \/ (pc = "device" /\ ret = "loop")

SchedInv ==
    /\ TypeOK
    /\ NeverInThePast
    /\ LimitIsFresh
    /\ SchedulerNotAhead
    /\ CallInProgress
    /\ NothingDue
    /\ LimitMeansFast

-----------------------------------------------------------------------------
\* The front of the queue is a point of it that no other point precedes.
LEMMA FrontIsEarliest ==
    ASSUME NEW Q, Q \subseteq Point, NEW p, IsFront(p, Q)
    PROVE  p \in Q /\ \A q \in Q : p.time <= q.time
BY BoundsAssumption DEF IsFront, Before, Point, Time

\* Cancelling only takes points away.
LEMMA RemovalShrinks ==
    ASSUME NEW d, NEW Q
    PROVE  WithoutFirstOf(d, Q) \subseteq Q /\ WithoutAllOf(d, Q) \subseteq Q
BY DEF WithoutFirstOf, WithoutAllOf

\* The program starts in SchedInv.
LEMMA SchedInvInit == Init => SchedInv
<1> SUFFICES ASSUME Init PROVE SchedInv
  OBVIOUS
<1>1. 0 \in Time
  BY BoundsAssumption DEF Time
<1>2. TypeOK
  <2>1. queue \subseteq Point /\ scheduleInProgress \in BOOLEAN /\ exitLoop \in BOOLEAN
    BY DEF Init
  <2>2. cpuLimit \in Time \cup {Off}
    BY DEF Init
  <2>3. slow \in 0..2
    BY DEF Init
  <2>4. pc \in PCs
    BY DEF Init, PCs
  <2> QED
    BY <1>1, <2>1, <2>2, <2>3, <2>4 DEF Init, TypeOK
<1>3. NeverInThePast /\ LimitIsFresh /\ SchedulerNotAhead
  BY DEF Init, NeverInThePast, LimitIsFresh, SchedulerNotAhead
<1>4. CallInProgress /\ NothingDue /\ LimitMeansFast
  BY DEF Init, CallInProgress, NothingDue, LimitMeansFast
<1> QED
  BY <1>2, <1>3, <1>4 DEF SchedInv

-----------------------------------------------------------------------------
(* The two outcomes of schedule(): a device runs, or nothing is due and the  *)
(* call returns.  Both are reached from its first lines and from each turn   *)
(* of the loop in scheduleHelper.                                            *)

\* Starting the device of the earliest point, which is due, keeps SchedInv.
LEMMA RunFrontPreserves ==
    ASSUME SchedInv,
           NEW limit \in Time, limit >= cpuTime, cpuTime' = limit,
           NEW r \in {"loop", "io", "check"},
           NEW p \in queue, IsFront(p, queue), Due(p, limit),
           RunFront(p, limit, r),
           exitLoop' \in BOOLEAN, mode' \in {"fast", "step"},
           cpuLimit # Off => mode' = "fast" \/ r = "loop"
    PROVE  SchedInv'
<1>1. TypeOK /\ queue \subseteq Point /\ p \in Point
  BY DEF SchedInv, TypeOK
<1>2. \A q \in queue : p.time <= q.time
  BY <1>1, FrontIsEarliest
<1>3. TypeOK'
  <2>1. (queue \subseteq Point)' /\ (scheduleTime \in Time)' /\ (limitArg \in Time)'
        /\ (ret \in {"loop", "io", "check"})' /\ (cpuTime \in Time)'
    BY <1>1 DEF RunFront, Point
  <2>2. (cpuLimit \in Time \cup {Off})' /\ (slow \in 0..2)'
    BY <1>1 DEF RunFront, TypeOK
  <2>3. (scheduleInProgress \in BOOLEAN)' /\ (pc \in PCs)'
    BY DEF RunFront, PCs
  <2> QED
    BY <2>1, <2>2, <2>3 DEF TypeOK
<1>4. NeverInThePast' /\ SchedulerNotAhead'
  BY <1>1, <1>2 DEF RunFront, NeverInThePast, SchedulerNotAhead, Due
<1>5. LimitIsFresh' /\ CallInProgress' /\ NothingDue'
  BY DEF RunFront, LimitIsFresh, CallInProgress, NothingDue
<1>6. LimitMeansFast'
  BY DEF RunFront, LimitMeansFast, SchedInv
<1> QED
  BY <1>3, <1>4, <1>5, <1>6 DEF SchedInv

\* Returning from schedule() when the earliest point is beyond the argument.
LEMMA ReturnPreserves ==
    ASSUME SchedInv,
           NEW limit \in Time, limit >= cpuTime, cpuTime' = limit,
           NEW r \in {"loop", "io", "check"},
           NEW p \in queue, IsFront(p, queue), ~Due(p, limit),
           NEW newLimit \in Time \cup {Off},
           newLimit # Off => cpuLimit # Off /\ newLimit <= p.time,
           Return(r, newLimit), scheduleTime' = limit, queue' = queue,
           scheduleInProgress' = FALSE, limitArg' = limitArg, ret' = ret,
           exitLoop' \in BOOLEAN, mode' \in {"fast", "step"},
           cpuLimit # Off => mode' = "fast" \/ r = "loop"
    PROVE  SchedInv'
<1>1. TypeOK /\ queue \subseteq Point /\ p \in Point
  BY DEF SchedInv, TypeOK
<1>2. \A q \in queue : p.time <= q.time
  BY <1>1, FrontIsEarliest
<1>a. \A q \in queue : q.time > limit
  BY <1>1, <1>2, BoundsAssumption DEF Due, Time, Point
<1>3. TypeOK'
  <2>1. (queue \subseteq Point)' /\ (scheduleTime \in Time)' /\ (limitArg \in Time)'
        /\ (ret \in {"loop", "io", "check"})' /\ (cpuTime \in Time)'
    BY <1>1 DEF TypeOK
  <2>2. (cpuLimit \in Time \cup {Off})' /\ (slow \in 0..2)'
    BY <1>1 DEF Return, TypeOK
  <2>3. (scheduleInProgress \in BOOLEAN)' /\ (pc \in PCs)'
    BY DEF Return, PCs
  <2> QED
    BY <2>1, <2>2, <2>3 DEF TypeOK
<1>4. NeverInThePast' /\ SchedulerNotAhead'
  BY <1>1, <1>a, BoundsAssumption DEF NeverInThePast, SchedulerNotAhead, Time, Point
<1>5. LimitIsFresh'
  BY <1>1, <1>2, BoundsAssumption DEF Return, LimitIsFresh, Time, Point, Off
<1>6. CallInProgress' /\ NothingDue'
  BY <1>a DEF Return, CallInProgress, NothingDue
<1>7. LimitMeansFast'
  BY DEF Return, LimitMeansFast, SchedInv
<1> QED
  BY <1>3, <1>4, <1>5, <1>6, <1>7 DEF SchedInv

\* A schedule() call, made while none is in progress.
LEMMA SchedulePreserves ==
    ASSUME SchedInv, pc # "device",
           NEW limit \in Time, limit >= cpuTime, cpuTime' = limit,
           NEW r \in {"loop", "io", "check"}, Schedule(limit, r),
           exitLoop' \in BOOLEAN, mode' \in {"fast", "step"},
           cpuLimit # Off => mode' = "fast" \/ r = "loop"
    PROVE  SchedInv'
<1>1. PICK p \in queue :
        /\ IsFront(p, queue)
        /\ \/ Due(p, limit) /\ RunFront(p, limit, r)
           \/ /\ ~Due(p, limit)
              /\ scheduleTime' = limit
              /\ Return(r, cpuLimit)
              /\ UNCHANGED <<queue, scheduleInProgress, limitArg, ret>>
  BY DEF Schedule
<1>2. scheduleInProgress = FALSE
  BY DEF SchedInv, CallInProgress
<1>3. ~scheduleInProgress /\ cpuLimit \in Time \cup {Off} /\ LimitIsFresh
  BY <1>2 DEF SchedInv, TypeOK
<1>4. cpuLimit # Off => cpuLimit <= p.time
  BY <1>3 DEF LimitIsFresh
<1>5. CASE Due(p, limit)
  BY <1>1, <1>5, RunFrontPreserves
<1>6. CASE ~Due(p, limit)
  BY <1>1, <1>2, <1>3, <1>4, <1>6, ReturnPreserves
<1> QED
  BY <1>5, <1>6

-----------------------------------------------------------------------------
\* The calls of a Schedulable.  A new point is announced to the CPU, or lies in
\* a call that announces the front when it ends.
LEMMA SetSyncPointPreserves ==
    ASSUME SchedInv, NEW d \in Devices, NEW time \in Time, SetSyncPoint(d, time)
    PROVE  SchedInv'
<1>1. TypeOK /\ NeverInThePast
  BY DEF SchedInv
<1>2. PICK k \in 1..MaxTicket :
        queue' = queue \cup {[time |-> time, device |-> d, ticket |-> k]}
  BY DEF SetSyncPoint
<1>3. queue' \subseteq Point
  BY <1>1, <1>2 DEF TypeOK, Point
<1>4. UNCHANGED <<scheduleTime, scheduleInProgress, limitArg, ret,
                  cpuTime, slow, mode, exitLoop, pc>>
  BY DEF SetSyncPoint
<1>5. CASE scheduleInProgress
  <2>1. UNCHANGED cpuLimit
    BY <1>5 DEF SetSyncPoint, Announce
  <2>2. TypeOK'
    BY <1>1, <1>3, <1>4, <2>1 DEF TypeOK
  <2>3. NeverInThePast'
    BY <1>1, <1>2, <1>4 DEF SetSyncPoint, NeverInThePast
  <2>4. LimitIsFresh' /\ SchedulerNotAhead' /\ CallInProgress' /\ NothingDue' /\ LimitMeansFast'
    BY <1>4, <1>5, <2>1 DEF SetSyncPoint, InDeviceCode, SchedInv, LimitIsFresh,
       SchedulerNotAhead, CallInProgress, NothingDue, LimitMeansFast
  <2> QED
    BY <2>2, <2>3, <2>4 DEF SchedInv
<1>6. CASE ~scheduleInProgress
  <2>1. PICK p \in queue' : IsFront(p, queue') /\ SetLimit(p.time)
    BY <1>6 DEF SetSyncPoint, Announce
  <2>2. p \in Point /\ \A q \in queue' : p.time <= q.time
    BY <1>3, <2>1, FrontIsEarliest
  <2>3. (cpuLimit \in Time \cup {Off})'
    BY <2>1, <2>2 DEF SetLimit, Point
  <2>4. TypeOK'
    BY <1>1, <1>3, <1>4, <2>3 DEF TypeOK
  <2>5. NeverInThePast'
    BY <1>1, <1>2, <1>4 DEF SetSyncPoint, NeverInThePast
  <2>6. LimitIsFresh'
    BY <2>1, <2>2 DEF SetLimit, LimitIsFresh
  <2>7. SchedulerNotAhead' /\ CallInProgress' /\ NothingDue' /\ LimitMeansFast'
    BY <1>4, <2>1 DEF SetSyncPoint, InDeviceCode, SchedInv, SetLimit,
       SchedulerNotAhead, CallInProgress, NothingDue, LimitMeansFast
  <2> QED
    BY <2>4, <2>5, <2>6, <2>7 DEF SchedInv
<1> QED
  BY <1>5, <1>6

\* Cancelling leaves the limit too early at worst.
LEMMA RemovePreserves ==
    ASSUME SchedInv, queue' \subseteq queue,
           UNCHANGED <<scheduleTime, scheduleInProgress, limitArg, ret, cpuVars>>
    PROVE  SchedInv'
BY DEF SchedInv, TypeOK, NeverInThePast, LimitIsFresh, SchedulerNotAhead,
   CallInProgress, NothingDue, LimitMeansFast, cpuVars

\* Disabling the limit, requesting an exit and asking for slow instructions.
LEMMA LimitOffPreserves ==
    ASSUME SchedInv, UNCHANGED schedVars, UNCHANGED <<cpuTime, mode, pc>>,
           slow' \in 0..2, exitLoop' \in BOOLEAN,
           cpuLimit' = Off \/ (cpuLimit' = cpuLimit /\ slow' = slow)
    PROVE  SchedInv'
<1>1. TypeOK'
  BY DEF SchedInv, TypeOK, schedVars
<1>2. NeverInThePast' /\ LimitIsFresh' /\ SchedulerNotAhead'
  BY DEF SchedInv, schedVars, NeverInThePast, LimitIsFresh, SchedulerNotAhead
<1>3. CallInProgress' /\ NothingDue'
  BY DEF SchedInv, schedVars, CallInProgress, NothingDue
<1>4. LimitMeansFast'
  BY DEF SchedInv, schedVars, LimitMeansFast
<1> QED
  BY <1>1, <1>2, <1>3, <1>4 DEF SchedInv

-----------------------------------------------------------------------------
\* One step per action of the program.
LEMMA SchedInvNext == SchedInv /\ [Next]_vars => SchedInv'
<1> SUFFICES ASSUME SchedInv, [Next]_vars PROVE SchedInv'
  OBVIOUS
<1> USE BoundsAssumption
<1>0. /\ TypeOK /\ NeverInThePast /\ LimitIsFresh /\ SchedulerNotAhead
      /\ CallInProgress /\ NothingDue /\ LimitMeansFast
  BY DEF SchedInv
<1>t. cpuTime \in Time /\ scheduleTime \in Time /\ slow \in 0..2
      /\ cpuLimit \in Time \cup {Off} /\ queue \subseteq Point
      /\ mode \in {"fast", "step"} /\ exitLoop \in BOOLEAN
  BY <1>0 DEF TypeOK
<1>1. ASSUME NEW d \in Devices, NEW t \in Time, SetSyncPoint(d, t) PROVE SchedInv'
  BY <1>1, SetSyncPointPreserves
<1>2. ASSUME NEW d \in Devices, RemoveSyncPoint(d) PROVE SchedInv'
  BY <1>2, RemovalShrinks, RemovePreserves DEF RemoveSyncPoint
<1>3. ASSUME NEW d \in Devices, RemoveSyncPoints(d) PROVE SchedInv'
  BY <1>3, RemovalShrinks, RemovePreserves DEF RemoveSyncPoints
<1>4. CASE DeviceReturns
  <2>1. pc = "device" /\ scheduleInProgress /\ limitArg = cpuTime /\ limitArg \in Time
        /\ ret \in {"loop", "io", "check"}
    BY <1>0, <1>4, <1>t DEF DeviceReturns, CallInProgress, TypeOK
  <2>2. UNCHANGED <<cpuTime, mode, exitLoop>>
    BY <1>4 DEF DeviceReturns
  <2>3. cpuLimit # Off => mode' = "fast" \/ ret = "loop"
    BY <1>0, <2>1, <2>2 DEF LimitMeansFast
  <2>4. PICK p \in queue :
          /\ IsFront(p, queue)
          /\ \/ Due(p, limitArg) /\ RunFront(p, limitArg, ret)
             \/ /\ ~Due(p, limitArg)
                /\ scheduleInProgress' = FALSE
                /\ scheduleTime' = limitArg
                /\ Return(ret, IF cpuLimit = Off THEN Off ELSE p.time)
                /\ UNCHANGED <<queue, limitArg, ret>>
    BY <1>4 DEF DeviceReturns
  <2>5. CASE Due(p, limitArg)
    BY <1>t, <2>1, <2>2, <2>3, <2>4, <2>5, RunFrontPreserves DEF Time
  <2>6. CASE ~Due(p, limitArg)
    <3> DEFINE newLimit == IF cpuLimit = Off THEN Off ELSE p.time
    <3>1. newLimit \in Time \cup {Off} /\ (newLimit # Off => cpuLimit # Off /\ newLimit <= p.time)
      BY <1>t DEF Point, Time
    <3>2. Return(ret, newLimit)
      BY <2>4, <2>6
    <3>3. limitArg >= cpuTime /\ cpuTime' = limitArg
      BY <1>t, <2>1, <2>2 DEF Time
    <3>4. exitLoop' \in BOOLEAN /\ mode' \in {"fast", "step"}
      BY <1>t, <2>2
    <3>5. /\ scheduleInProgress' = FALSE /\ scheduleTime' = limitArg
          /\ queue' = queue /\ limitArg' = limitArg /\ ret' = ret
      BY <2>4, <2>6
    <3> HIDE DEF newLimit
    <3> QED
      BY <2>1, <2>3, <2>4, <2>6, <3>1, <3>2, <3>3, <3>4, <3>5, ReturnPreserves
  <2> QED
    BY <2>5, <2>6
<1>5. ASSUME NEW m \in {"fast", "step"}, Execute(m) PROVE SchedInv'
  BY <1>5, <1>t, SchedulePreserves DEF Execute, Time
<1>6. CASE StartFast
  <2>1. PICK p \in queue : IsFront(p, queue) /\ cpuLimit' = p.time
                            /\ pc' = IF cpuTime >= p.time THEN "ended" ELSE "instr"
    BY <1>6 DEF StartFast
  <2>2. p \in Point /\ \A q \in queue : p.time <= q.time
    BY <1>t, <2>1, FrontIsEarliest
  <2>3. TypeOK'
    <3>1. (cpuLimit \in Time \cup {Off})'
      BY <2>1, <2>2 DEF Point
    <3>2. (pc \in PCs)'
      BY <2>1 DEF PCs
    <3> QED
      BY <1>0, <1>6, <3>1, <3>2 DEF StartFast, TypeOK, schedVars
  <2>4. NeverInThePast' /\ LimitIsFresh' /\ SchedulerNotAhead'
    BY <1>0, <1>6, <2>1, <2>2 DEF StartFast, schedVars, NeverInThePast, LimitIsFresh, SchedulerNotAhead
  <2>5. CallInProgress' /\ NothingDue'
    BY <1>0, <1>6, <2>1 DEF StartFast, schedVars, CallInProgress, NothingDue
  <2>6. LimitMeansFast'
    BY <1>6 DEF StartFast, LimitMeansFast
  <2> QED
    BY <2>3, <2>4, <2>5, <2>6 DEF SchedInv
<1>7. CASE StartSlow
  <2>1. cpuLimit = Off
    BY <1>0, <1>t, <1>7 DEF StartSlow, LimitMeansFast
  <2>2. TypeOK'
    <3>1. (slow \in 0..2)'
      BY <1>t, <1>7 DEF StartSlow
    <3>2. (pc \in PCs)'
      BY <1>7 DEF StartSlow, PCs
    <3> QED
      BY <1>0, <1>7, <3>1, <3>2 DEF StartSlow, TypeOK, schedVars
  <2>3. NeverInThePast' /\ LimitIsFresh' /\ SchedulerNotAhead'
    BY <1>0, <1>7 DEF StartSlow, schedVars, NeverInThePast, LimitIsFresh, SchedulerNotAhead
  <2>4. CallInProgress' /\ NothingDue' /\ LimitMeansFast'
    BY <1>0, <1>7, <2>1 DEF StartSlow, schedVars, CallInProgress, NothingDue, LimitMeansFast
  <2> QED
    BY <2>2, <2>3, <2>4 DEF SchedInv
<1>8. ASSUME NEW k \in 0..MaxStep, Access(k) PROVE SchedInv'
  <2>1. cpuTime + k \in Time /\ cpuTime + k >= cpuTime
    BY <1>8, <1>t DEF Access, Time
  <2>2. cpuLimit # Off => mode' = "fast" \/ "io" = "loop"
    BY <1>0, <1>8 DEF Access, LimitMeansFast
  <2> QED
    BY <1>8, <1>t, <2>1, <2>2, SchedulePreserves DEF Access
<1>9. CASE SetSlowInstructions
  BY <1>9, <1>t, LimitOffPreserves DEF SetSlowInstructions
<1>10. CASE SetFreq
  BY <1>10, <1>t, LimitOffPreserves DEF SetFreq
<1>11. ASSUME NEW k \in 0..MaxStep, EndInstruction(k) PROVE SchedInv'
  <2>1. cpuTime' \in Time /\ cpuTime' >= cpuTime
    BY <1>11, <1>t DEF EndInstruction, Time
  <2>2. TypeOK'
    <3>1. (pc \in PCs)'
      BY <1>11 DEF EndInstruction, PCs
    <3> QED
      BY <1>0, <1>11, <2>1, <3>1 DEF EndInstruction, TypeOK, schedVars
  <2>3. NeverInThePast' /\ LimitIsFresh' /\ SchedulerNotAhead'
    BY <1>0, <1>t, <1>11, <2>1 DEF EndInstruction, schedVars, NeverInThePast, LimitIsFresh, SchedulerNotAhead, Time
  <2>4. CallInProgress' /\ LimitMeansFast'
    BY <1>0, <1>11 DEF EndInstruction, schedVars, CallInProgress, LimitMeansFast
  <2>5. NothingDue'
    <3>1. SUFFICES ASSUME pc' = "instr" PROVE \A p \in queue : p.time > cpuTime'
      BY <1>11 DEF EndInstruction, schedVars, NothingDue
    <3>2. cpuTime' < cpuLimit /\ ~scheduleInProgress
      <4>1. ~(cpuTime' >= cpuLimit)
        BY <1>11, <3>1 DEF EndInstruction
      <4>2. cpuTime' < cpuLimit
        BY <1>t, <2>1, <4>1 DEF Time, Off
      <4>3. ~scheduleInProgress
        BY <1>0, <1>11 DEF EndInstruction, CallInProgress
      <4> QED
        BY <4>2, <4>3
    <3>3. cpuLimit # Off
      BY <1>t, <2>1, <3>2 DEF Time, Off
    <3>4. \A p \in queue : cpuLimit <= p.time
      BY <1>0, <3>2, <3>3 DEF LimitIsFresh
    <3> QED
      BY <1>t, <2>1, <3>2, <3>3, <3>4 DEF Time, Point
  <2> QED
    BY <2>2, <2>3, <2>4, <2>5 DEF SchedInv
<1>12. ASSUME NEW k \in 0..MaxStep, Halt(k) PROVE SchedInv'
  <2>1. PICK p \in queue : p.time + k <= MaxTime /\ cpuTime' = p.time + k
    BY <1>12 DEF Halt
  <2>2. p.time > cpuTime /\ p \in Point
    BY <1>0, <1>t, <1>12 DEF Halt, NothingDue
  <2>3. cpuTime' \in Time /\ cpuTime' >= cpuTime
    BY <1>t, <2>1, <2>2 DEF Point, Time
  <2>4. TypeOK'
    <3>1. (pc \in PCs)' /\ (cpuLimit \in Time \cup {Off})' /\ (slow \in 0..2)'
      BY <1>12 DEF Halt, PCs
    <3> QED
      BY <1>0, <1>12, <2>3, <3>1 DEF Halt, TypeOK, schedVars
  <2>5. NeverInThePast' /\ LimitIsFresh' /\ SchedulerNotAhead'
    BY <1>0, <1>t, <1>12, <2>3 DEF Halt, schedVars, NeverInThePast, LimitIsFresh, SchedulerNotAhead, Time
  <2>6. CallInProgress' /\ LimitMeansFast' /\ NothingDue'
    BY <1>0, <1>12 DEF Halt, schedVars, CallInProgress, LimitMeansFast, NothingDue
  <2> QED
    BY <2>4, <2>5, <2>6 DEF SchedInv
<1>13. CASE AfterInstructions
  BY <1>0, <1>13, <1>t, SchedulePreserves DEF AfterInstructions, LimitMeansFast, Time
<1>14. CASE CheckExit
  BY <1>0, <1>14 DEF CheckExit, schedVars, SchedInv, TypeOK, NeverInThePast, LimitIsFresh,
     SchedulerNotAhead, CallInProgress, NothingDue, LimitMeansFast, PCs
<1>15. CASE BreakPoint
  BY <1>0, <1>15 DEF BreakPoint, schedVars, SchedInv, TypeOK, NeverInThePast, LimitIsFresh,
     SchedulerNotAhead, CallInProgress, NothingDue, LimitMeansFast, PCs
<1>16. CASE ExitSync
  BY <1>16, <1>t, LimitOffPreserves DEF ExitSync
<1>17. CASE ExitAsync
  BY <1>17, <1>t, LimitOffPreserves DEF ExitAsync
<1>18. CASE UNCHANGED vars
  BY <1>0, <1>18 DEF vars, schedVars, cpuVars, SchedInv, TypeOK, NeverInThePast, LimitIsFresh,
     SchedulerNotAhead, CallInProgress, NothingDue, LimitMeansFast
<1> QED
  BY <1>1, <1>2, <1>3, <1>4, <1>5, <1>6, <1>7, <1>8, <1>9, <1>10, <1>11, <1>12,
     <1>13, <1>14, <1>15, <1>16, <1>17, <1>18 DEF Next

-----------------------------------------------------------------------------
\* SchedInv holds in every reachable state.
THEOREM SchedInvHolds == Spec => []SchedInv
BY SchedInvInit, SchedInvNext, PTL DEF Spec

\* No sync point is missed: neither scheduleHelper nor the CPU's own time ever
\* gets past a point that is still pending.
THEOREM NoSyncPointMissed == Spec => [](NeverInThePast /\ NothingDueAtInstruction)
<1>1. SchedInv => NeverInThePast /\ NothingDueAtInstruction
  BY DEF SchedInv, NothingDue, NothingDueAtInstruction
<1> QED
  BY <1>1, SchedInvHolds, PTL

\* The limit up to which the CPU runs ahead is kept up to date by every path of
\* the scheduler, and is off whenever single instructions are asserted.
THEOREM LimitKeptUpToDate == Spec => [](LimitIsFresh /\ OneInstructionWhenSlow)
<1>1. SchedInv => LimitIsFresh /\ OneInstructionWhenSlow
  BY DEF SchedInv, TypeOK, LimitMeansFast, OneInstructionWhenSlow
<1> QED
  BY <1>1, SchedInvHolds, PTL

\* A schedule() call, or a turn of its loop, moves scheduleTime forward only:
\* to a pending point, or to an argument the CPU has reached.
LEMMA ScheduleGoesForward ==
    ASSUME SchedInv, NEW limit \in Time, limit >= cpuTime, NEW p \in queue,
           scheduleTime' = p.time \/ scheduleTime' = limit
    PROVE  scheduleTime' >= scheduleTime
BY BoundsAssumption DEF SchedInv, TypeOK, NeverInThePast, SchedulerNotAhead, Time, Point

\* Emulated time never goes back, on any step of any behaviour.
THEOREM TimeIsMonotonic == Spec => TimeNeverGoesBack
<1>1. SchedInv /\ [Next]_vars => [scheduleTime' >= scheduleTime]_vars
  <2> SUFFICES ASSUME SchedInv, Next PROVE scheduleTime' >= scheduleTime
    OBVIOUS
  <2>t. scheduleTime \in Time /\ cpuTime \in Time /\ limitArg \in Time
    BY DEF SchedInv, TypeOK
  <2>a. scheduleTime' = scheduleTime => scheduleTime' >= scheduleTime
    BY <2>t, BoundsAssumption DEF Time
  <2>1. ASSUME NEW limit \in Time, limit >= cpuTime, NEW r, Schedule(limit, r)
        PROVE  scheduleTime' >= scheduleTime
    BY <2>1, ScheduleGoesForward DEF Schedule, RunFront
  <2>2. CASE DeviceReturns
    <3>1. limitArg = cpuTime
      BY <2>2 DEF DeviceReturns, SchedInv, CallInProgress
    <3>2. limitArg >= cpuTime
      BY <3>1, <2>t, BoundsAssumption DEF Time
    <3> QED
      BY <2>2, <2>t, <3>2, ScheduleGoesForward DEF DeviceReturns, RunFront
  <2>3. ASSUME NEW m \in {"fast", "step"}, Execute(m) PROVE scheduleTime' >= scheduleTime
    BY <2>3, <2>1, <2>t, BoundsAssumption DEF Execute, Time
  <2>4. CASE AfterInstructions
    BY <2>4, <2>1, <2>t, BoundsAssumption DEF AfterInstructions, Time
  <2>5. ASSUME NEW k \in 0..MaxStep, Access(k) PROVE scheduleTime' >= scheduleTime
    <3>1. cpuTime + k \in Time /\ cpuTime + k >= cpuTime
      BY <2>5, <2>t, BoundsAssumption DEF Access, Time
    <3> QED
      BY <2>5, <2>1, <3>1 DEF Access
  <2> QED
    BY <2>a, <2>2, <2>3, <2>4, <2>5 DEF Next, schedVars, SetSyncPoint, RemoveSyncPoint,
       RemoveSyncPoints, StartFast, StartSlow, SetSlowInstructions, SetFreq,
       EndInstruction, Halt, CheckExit, BreakPoint, ExitSync, ExitAsync
<1> QED
  BY <1>1, SchedInvHolds, PTL DEF Spec, TimeNeverGoesBack

---------------------------------------------------------------------------
(* The queue is a set here and an array in the code.  The array's operations *)
(* are those of the set, whatever the capacity and wherever its spare room.  *)

CONSTANTS Tickets, CAPACITY, MaxCapacity
VARIABLES storage, useBegin, useEnd

Array == INSTANCE SchedulerQueue

\* What CapacityAssumption says, and that times and tickets are numbers.
Sizes == /\ MaxTime \in Nat /\ Tickets \subseteq Nat
         /\ CAPACITY \in Nat /\ CAPACITY >= 2 /\ MaxCapacity \in Nat /\ MaxCapacity >= CAPACITY

\* What is in use is in the order in which it will be served.
Ordered == \A i, j \in Array!Live : i < j => Array!Before(storage[i], storage[j])

ArrayInv == Array!TypeOK /\ Ordered

Elems == {storage[i] : i \in Array!Live}

LEMMA LeastIndex ==
    ASSUME NEW S, S \subseteq Nat, S # {}
    PROVE  \E x \in S : \A y \in S : x <= y
  <1>. DEFINE R == OpToRel(<, Nat)
  <1>1. IsWellFoundedOn(R, Nat)
    BY NatLessThanWellFounded
  <1>2. \A x, y \in Nat : x < y => <<x, y>> \in R
    BY DEF OpToRel
  <1>. HIDE DEF R
  <1>3. PICK x \in S : \A y \in S : ~ (<<y, x>> \in R)
    BY <1>1, WFMin
  <1>4. ASSUME NEW y \in S PROVE x <= y
    <2>1. x \in Nat /\ y \in Nat
      OBVIOUS
    <2>2. ~ (y < x)
      BY <1>2, <1>3, <2>1
    <2>. QED  BY <2>1, <2>2
  <1>. QED  BY <1>4

LEMMA SlotsAre ==
    ASSUME Sizes, Array!TypeOK
    PROVE  /\ Array!storageEnd \in Nat /\ useBegin \in Nat /\ useEnd \in Nat
           /\ useBegin <= useEnd /\ useEnd <= Array!storageEnd
           /\ Array!storageEnd <= MaxCapacity /\ CAPACITY <= Array!storageEnd
           /\ Array!Live \subseteq DOMAIN storage
  <1>1. Array!storageEnd \in Nat
    BY DEF Array!TypeOK, Sizes
  <1>2. /\ useBegin \in Nat /\ useEnd \in Nat /\ useBegin <= useEnd /\ useEnd <= Array!storageEnd
    BY <1>1 DEF Array!TypeOK
  <1>3. Array!storageEnd <= MaxCapacity /\ CAPACITY <= Array!storageEnd
    <2>1. Array!storageEnd \in CAPACITY..MaxCapacity
      BY DEF Array!TypeOK
    <2>2. CAPACITY \in Nat /\ MaxCapacity \in Nat
      BY DEF Sizes
    <2>. QED  BY <2>1, <2>2
  <1>. QED  BY <1>1, <1>2, <1>3 DEF Array!TypeOK, Array!Live

\* A point is what it was made of.
LEMMA ElemIs ==
    ASSUME Sizes, NEW e \in Array!Elem
    PROVE  e.time \in Nat /\ e.ticket \in Nat
  <1>1. e.time \in Array!Times /\ e.ticket \in Tickets
    BY DEF Array!Elem
  <1>2. MaxTime \in Nat /\ Tickets \subseteq Nat
    BY DEF Sizes
  <1>3. e.time \in 0..MaxTime
    BY <1>1 DEF Array!Times
  <1>4. e.time \in Nat
    BY <1>2, <1>3
  <1>5. e.ticket \in Nat
    BY <1>1, <1>2
  <1>. QED  BY <1>4, <1>5

\* The instance has a Cardinality of its own.
LEMMA CardinalityIs ==
    ASSUME NEW S
    PROVE  Array!Cardinality(S) = Cardinality(S)
  BY DEF Array!Cardinality, Cardinality

LEMMA BeforeIsOrder ==
    ASSUME Sizes, NEW x \in Array!Elem, NEW y \in Array!Elem, Array!Before(x, y)
    PROVE  x # y /\ ~Array!Before(y, x)
  <1>1. x.time \in Nat /\ x.ticket \in Nat /\ y.time \in Nat /\ y.ticket \in Nat
    BY ElemIs
  <1>. QED  BY <1>1 DEF Array!Before

LEMMA NewEnd ==
    ASSUME NEW n \in Nat, DOMAIN storage' = 0..n
    PROVE  Array!storageEnd' = n
  <1>1. Cardinality(0..n) = n + 1
    BY FS_Interval
  <1>2. Array!storageEnd' = Array!Cardinality(DOMAIN storage') - 1
    BY DEF Array!storageEnd
  <1>3. Array!Cardinality(0..n) = Cardinality(0..n)
    BY CardinalityIs
  <1>. QED  BY <1>1, <1>2, <1>3

---------------------------------------------------------------------------
\* The loop of insert() finds a place: the first that holds a later time.
LEMMA InsertionPointIs ==
    ASSUME Sizes, ArrayInv, NEW t
    PROVE  LET it == Array!InsertionPoint(t)
           IN  /\ it \in useBegin..useEnd
               /\ it = useEnd \/ Array!Less(t, storage[it])
               /\ \A i \in useBegin..(it - 1) : ~Array!Less(t, storage[i])
  <1>. DEFINE S == {it \in useBegin..useEnd : it = useEnd \/ Array!Less(t, storage[it])}
  <1>1. useBegin \in Nat /\ useEnd \in Nat /\ useBegin <= useEnd
    BY SlotsAre DEF ArrayInv
  <1>2. S \subseteq Nat /\ useEnd \in S
    BY <1>1
  <1>3. PICK it \in S : \A y \in S : it <= y
    BY <1>2, LeastIndex
  <1>4. \A i \in useBegin..(it - 1) : ~Array!Less(t, storage[i])
    <2>1. SUFFICES ASSUME NEW i \in useBegin..(it - 1), Array!Less(t, storage[i]) PROVE FALSE
      OBVIOUS
    <2>2. it \in Nat /\ it <= useEnd
      BY <1>1
    <2>3. i \in useBegin..useEnd
      BY <1>1, <2>2
    <2>4. i \in S
      BY <2>1, <2>3
    <2>5. it <= i
      BY <1>3, <2>4
    <2>. QED  BY <1>1, <2>2, <2>5
  <1>5. /\ it \in useBegin..useEnd /\ (it = useEnd \/ Array!Less(t, storage[it]))
        /\ \A i \in useBegin..(it - 1) : ~Array!Less(t, storage[i])
    BY <1>4
  <1>. QED  BY <1>5 DEF Array!InsertionPoint

\* Wherever the room is made: what is in use is moved by `o', and makes room
\* for t at `it'.
Inserted(t, it, o) ==
    /\ o \in Int
    /\ useBegin' = useBegin + o /\ useEnd' = useEnd + o + 1
    /\ \A i \in useBegin'..(useEnd' - 1) :
          storage'[i] = IF i < it + o THEN storage[i - o]
                        ELSE IF i = it + o THEN t ELSE storage[i - o - 1]
    /\ 0 <= useBegin' /\ \E n \in Nat : /\ DOMAIN storage' = 0..n /\ useEnd' <= n
                                        /\ n <= MaxCapacity /\ CAPACITY <= n

LEMMA InsertEffect ==
    ASSUME Sizes, ArrayInv, NEW t, Array!Insert(t)
    PROVE  \E o \in Int : Inserted(t, Array!InsertionPoint(t), o)
  <1>. DEFINE it == Array!InsertionPoint(t)
              n  == Array!storageEnd
  <1>1. /\ n \in Nat /\ useBegin \in Nat /\ useEnd \in Nat
        /\ useBegin <= useEnd /\ useEnd <= n /\ n <= MaxCapacity /\ CAPACITY <= n
        /\ DOMAIN storage = 0..n
    BY SlotsAre DEF ArrayInv, Array!TypeOK
  <1>2. it \in Nat /\ useBegin <= it /\ it <= useEnd
    <2>1. it \in useBegin..useEnd
      BY InsertionPointIs
    <2>. QED  BY <1>1, <2>1
  <1>. HIDE DEF it
  <1>3. CASE useBegin # 0 /\ Array!InsertFront(it, t)
    <2>1. /\ useBegin' = useBegin - 1 /\ useEnd' = useEnd
          /\ storage' = [i \in 0..n |->
                     IF i = it - 1 THEN t
                     ELSE IF i \in (useBegin - 1)..(it - 2) THEN storage[i + 1]
                     ELSE storage[i]]
      BY <1>1, <1>3 DEF Array!InsertFront
    <2>2. ASSUME NEW i \in useBegin'..(useEnd' - 1)
          PROVE  storage'[i] = IF i < it + -1 THEN storage[i - -1]
                               ELSE IF i = it + -1 THEN t ELSE storage[i - -1 - 1]
      <3>1. i \in 0..n /\ i \in Nat /\ i - -1 = i + 1 /\ i - -1 - 1 = i
        BY <1>1, <1>2, <1>3, <2>1
      <3>2. i < it + -1 <=> i \in (useBegin - 1)..(it - 2)
        BY <1>1, <1>2, <2>1, <3>1
      <3>. QED  BY <1>2, <2>1, <3>1, <3>2
    <2>3. Inserted(t, it, -1)
      <3>1. useBegin' = useBegin + -1 /\ useEnd' = useEnd + -1 + 1 /\ 0 <= useBegin' /\ useEnd' <= n
        BY <1>1, <1>3, <2>1
      <3>2. DOMAIN storage' = 0..n
        BY <2>1
      <3>. QED  BY <1>1, <2>2, <3>1, <3>2 DEF Inserted
    <2>. QED  BY <2>3 DEF it
  <1>4. CASE useEnd # n /\ Array!InsertBack(it, t)
    <2>1. /\ useBegin' = useBegin /\ useEnd' = useEnd + 1
          /\ storage' = [i \in 0..n |->
                     IF i = it THEN t
                     ELSE IF i \in (it + 1)..useEnd THEN storage[i - 1]
                     ELSE storage[i]]
      BY <1>1, <1>4 DEF Array!InsertBack
    <2>2. ASSUME NEW i \in useBegin'..(useEnd' - 1)
          PROVE  storage'[i] = IF i < it + 0 THEN storage[i - 0]
                               ELSE IF i = it + 0 THEN t ELSE storage[i - 0 - 1]
      <3>1. i \in 0..n /\ i \in Nat /\ i <= useEnd /\ i - 0 = i /\ i - 0 - 1 = i - 1 /\ it + 0 = it
        BY <1>1, <1>2, <1>4, <2>1
      <3>2. ~(i < it) /\ i # it => i \in (it + 1)..useEnd
        BY <1>1, <1>2, <3>1
      <3>3. i < it => i \notin (it + 1)..useEnd /\ i # it
        BY <1>1, <1>2, <3>1
      <3>. QED  BY <1>2, <2>1, <3>1, <3>2, <3>3
    <2>3. Inserted(t, it, 0)
      <3>1. useBegin' = useBegin + 0 /\ useEnd' = useEnd + 0 + 1 /\ 0 <= useBegin' /\ useEnd' <= n
        BY <1>1, <1>4, <2>1
      <3>2. DOMAIN storage' = 0..n
        BY <2>1
      <3>. QED  BY <1>1, <2>2, <3>1, <3>2 DEF Inserted
    <2>. QED  BY <2>3 DEF it
  <1>5. CASE useBegin = 0 /\ useEnd = n /\ Array!InsertRealloc(it, t)
    <2>1. /\ 2 * n <= MaxCapacity /\ useBegin' = 1 /\ useEnd' = 1 + n + 1
          /\ storage' = [i \in 0..(2 * n) |->
                        IF i \in 1..(1 + (it - useBegin) - 1) THEN storage[i - (1 - useBegin)]
                        ELSE IF i = 1 + (it - useBegin) THEN t
                        ELSE IF i \in (1 + (it - useBegin) + 1)..(1 + n)
                             THEN storage[i - (1 - useBegin) - 1]
                        ELSE Array!Raw]
      BY <1>1, <1>2, <1>5 DEF Array!InsertRealloc, Array!SPARE_FRONT
    <2>2. ASSUME NEW i \in useBegin'..(useEnd' - 1)
          PROVE  storage'[i] = IF i < it + 1 THEN storage[i - 1]
                               ELSE IF i = it + 1 THEN t ELSE storage[i - 1 - 1]
      <3>1. /\ i \in 0..(2 * n) /\ i \in Nat /\ 1 <= i /\ i <= n + 1
            /\ 1 - useBegin = 1 /\ 1 + (it - useBegin) = it + 1
        <4>1. n >= 2
          BY <1>1 DEF Sizes
        <4>. QED  BY <1>1, <1>2, <1>5, <2>1, <4>1
      <3>2. storage'[i] = IF i \in 1..(it + 1 - 1) THEN storage[i - 1]
                          ELSE IF i = it + 1 THEN t
                          ELSE IF i \in (it + 1 + 1)..(1 + n) THEN storage[i - 1 - 1]
                          ELSE Array!Raw
        BY <1>2, <1>5, <2>1, <3>1
      <3>3. i < it + 1 <=> i \in 1..(it + 1 - 1)
        BY <1>2, <3>1
      <3>4. ~(i < it + 1) /\ i # it + 1 => i \in (it + 1 + 1)..(1 + n)
        BY <1>1, <1>2, <3>1
      <3>. QED  BY <3>2, <3>3, <3>4
    <2>3. Inserted(t, it, 1)
      <3>1. /\ useBegin' = useBegin + 1 /\ useEnd' = useEnd + 1 + 1 /\ 0 <= useBegin'
            /\ 2 * n \in Nat /\ useEnd' <= 2 * n /\ CAPACITY <= 2 * n
        <4>1. n >= 2
          BY <1>1 DEF Sizes
        <4>. QED  BY <1>1, <1>5, <2>1, <4>1 DEF Sizes
      <3>2. DOMAIN storage' = 0..(2 * n)
        BY <2>1
      <3>3. \E m \in Nat : /\ DOMAIN storage' = 0..m /\ useEnd' <= m
                           /\ m <= MaxCapacity /\ CAPACITY <= m
        BY <2>1, <3>1, <3>2
      <3>. QED  BY <2>2, <3>1, <3>3 DEF Inserted
    <2>. QED  BY <2>3 DEF it
  <1>. QED  BY <1>3, <1>4, <1>5 DEF Array!Insert, it

\* What an operation must show of the array for the invariant of types.
LEMMA TypesKept ==
    ASSUME Sizes, NEW n \in Nat, DOMAIN storage' = 0..n, n <= MaxCapacity, CAPACITY <= n,
           useBegin' \in Nat, useEnd' \in Nat, useBegin' <= useEnd', useEnd' <= n,
           \A i \in Array!Live' : storage'[i] \in Array!Elem
    PROVE  Array!TypeOK'
  <1>1. Array!storageEnd' = n
    BY NewEnd
  <1>2. n \in CAPACITY..MaxCapacity /\ useBegin' \in 0..n /\ useEnd' \in useBegin'..n
    BY DEF Sizes
  <1>3. Array!Elem' = Array!Elem
    BY DEF Array!Elem, Array!Times
  <1>. QED  BY <1>1, <1>2, <1>3 DEF Array!TypeOK

\* The same by places: t is at it + o, and every other place has what was there.
Places(t, it, o) ==
    /\ it + o \in Array!Live' /\ storage'[it + o] = t
    /\ \A i \in Array!Live' : i < it + o =>
          i - o \in Array!Live /\ i - o < it /\ storage'[i] = storage[i - o]
    /\ \A i \in Array!Live' : i > it + o =>
          i - o - 1 \in Array!Live /\ it <= i - o - 1 /\ storage'[i] = storage[i - o - 1]

LEMMA InsertedIn ==
    ASSUME Sizes, ArrayInv, NEW t, NEW it \in useBegin..useEnd, NEW o \in Int, Inserted(t, it, o)
    PROVE  /\ useBegin \in Nat /\ useEnd \in Nat /\ useBegin <= useEnd
           /\ it \in Nat /\ useBegin <= it /\ it <= useEnd
           /\ useBegin' \in Nat /\ useEnd' \in Nat /\ useBegin' <= useEnd'
           /\ useBegin' = useBegin + o /\ useEnd' = useEnd + o + 1
           /\ Places(t, it, o)
  <1>1. useBegin \in Nat /\ useEnd \in Nat /\ useBegin <= useEnd
    BY SlotsAre DEF ArrayInv
  <1>2. it \in Nat /\ useBegin <= it /\ it <= useEnd
    BY <1>1
  <1>3. useBegin' = useBegin + o /\ useEnd' = useEnd + o + 1 /\ 0 <= useBegin'
    BY DEF Inserted
  <1>4. useBegin' \in Nat /\ useEnd' \in Nat /\ useBegin' <= useEnd'
    BY <1>1, <1>3
  <1>5. it + o \in useBegin'..(useEnd' - 1)
    BY <1>1, <1>2, <1>3, <1>4
  <1>6. storage'[it + o] = t
    BY <1>2, <1>5 DEF Inserted
  <1>7. ASSUME NEW i \in useBegin'..(useEnd' - 1), i < it + o
        PROVE  i - o \in useBegin..(useEnd - 1) /\ i - o < it /\ storage'[i] = storage[i - o]
    <2>1. i \in Int /\ useBegin' <= i
      BY <1>4
    <2>2. i - o \in useBegin..(useEnd - 1) /\ i - o < it
      BY <1>1, <1>2, <1>3, <1>7, <2>1
    <2>. QED  BY <1>7, <2>2 DEF Inserted
  <1>8. ASSUME NEW i \in useBegin'..(useEnd' - 1), i > it + o
        PROVE  /\ i - o - 1 \in useBegin..(useEnd - 1) /\ it <= i - o - 1
               /\ storage'[i] = storage[i - o - 1]
    <2>1. i \in Int /\ i <= useEnd' - 1
      BY <1>1, <1>2, <1>3, <1>4
    <2>2. i - o - 1 \in useBegin..(useEnd - 1) /\ it <= i - o - 1
      BY <1>1, <1>2, <1>3, <1>8, <2>1
    <2>3. ~(i < it + o) /\ i # it + o
      BY <1>2, <1>8, <2>1
    <2>. QED  BY <2>2, <2>3 DEF Inserted
  <1>9. Places(t, it, o)
    BY <1>5, <1>6, <1>7, <1>8 DEF Array!Live, Places
  <1>. QED  BY <1>1, <1>2, <1>3, <1>4, <1>9

LEMMA InsertElems ==
    ASSUME Sizes, ArrayInv, NEW t, NEW it \in useBegin..useEnd, NEW o \in Int, Inserted(t, it, o)
    PROVE  Elems' = Elems \cup {t}
  <1>1. /\ useBegin \in Nat /\ useEnd \in Nat /\ it \in Nat
        /\ useBegin' = useBegin + o /\ useEnd' = useEnd + o + 1
        /\ useBegin' \in Nat /\ useEnd' \in Nat
        /\ Places(t, it, o)
    BY InsertedIn
  <1>2. Elems' = {storage'[i] : i \in Array!Live'}
    BY DEF Elems
  <1>3. ASSUME NEW i \in Array!Live' PROVE storage'[i] \in Elems \cup {t}
    <2>1. i \in Int /\ it + o \in Int
      BY <1>1 DEF Array!Live
    <2>2. CASE i < it + o
      BY <1>1, <2>2 DEF Elems, Places
    <2>3. CASE i = it + o
      BY <1>1, <2>3 DEF Places
    <2>4. CASE i > it + o
      BY <1>1, <2>4 DEF Elems, Places
    <2>. QED  BY <2>1, <2>2, <2>3, <2>4
  <1>4. ASSUME NEW k \in Array!Live PROVE \E i \in Array!Live' : storage'[i] = storage[k]
    <2>1. k \in Int /\ useBegin <= k /\ k < useEnd
      BY <1>1 DEF Array!Live
    <2>2. CASE k < it
      <3>1. k + o \in Array!Live'
        BY <1>1, <2>1, <2>2 DEF Array!Live
      <3>2. PICK i \in Array!Live' : i = k + o
        BY <3>1
      <3>3. i < it + o /\ i - o = k
        BY <1>1, <2>1, <2>2, <3>2
      <3>. QED  BY <1>1, <3>3 DEF Places
    <2>3. CASE k >= it
      <3>1. k + o + 1 \in Array!Live'
        BY <1>1, <2>1, <2>3 DEF Array!Live
      <3>2. PICK i \in Array!Live' : i = k + o + 1
        BY <3>1
      <3>3. i > it + o /\ i - o - 1 = k
        BY <1>1, <2>1, <2>3, <3>2
      <3>. QED  BY <1>1, <3>3 DEF Places
    <2>. QED  BY <1>1, <2>1, <2>2, <2>3
  <1>5. t \in Elems'
    BY <1>1, <1>2 DEF Places
  <1>. QED  BY <1>2, <1>3, <1>4, <1>5 DEF Elems

\* The new element has the last ticket, so that it comes after what has its time.
LEMMA InsertInv ==
    ASSUME Sizes, ArrayInv, NEW t \in Array!Elem, Array!Insert(t)
    PROVE  ArrayInv' /\ Array!Abstract!Insert(t)
  <1>. DEFINE it == Array!InsertionPoint(t)
  <1>1. /\ it \in useBegin..useEnd
        /\ it = useEnd \/ Array!Less(t, storage[it])
        /\ \A i \in useBegin..(it - 1) : ~Array!Less(t, storage[i])
    BY InsertionPointIs
  <1>2. PICK o \in Int : Inserted(t, it, o)
    BY InsertEffect
  <1>. HIDE DEF it
  <1>3. /\ useBegin \in Nat /\ useEnd \in Nat /\ useBegin <= useEnd
        /\ it \in Nat /\ useBegin <= it /\ it <= useEnd
        /\ useBegin' \in Nat /\ useEnd' \in Nat /\ useBegin' <= useEnd'
        /\ useBegin' = useBegin + o /\ useEnd' = useEnd + o + 1
        /\ Places(t, it, o)
    BY <1>1, <1>2, InsertedIn
  <1>4. \A i \in Array!Live : storage[i] \in Array!Elem
    BY DEF ArrayInv, Array!TypeOK
  <1>5. \A i \in Array!Live : storage[i].ticket < t.ticket
    BY DEF Array!Insert, Array!IsNextTicket
  <1>6. Elems' = Elems \cup {t}
    BY <1>1, <1>2, InsertElems
  <1>7. Elems' \subseteq Array!Elem
    BY <1>4, <1>6 DEF Elems
  <1>8. Array!TypeOK'
    <2>1. PICK n \in Nat : /\ DOMAIN storage' = 0..n /\ useEnd' <= n
                           /\ n <= MaxCapacity /\ CAPACITY <= n
      BY <1>2 DEF Inserted
    <2>2. \A i \in Array!Live' : storage'[i] \in Array!Elem
      BY <1>7 DEF Elems
    <2>3. useBegin' \in Nat /\ useEnd' \in Nat /\ useBegin' <= useEnd'
      BY <1>3
    <2>. QED  BY <2>1, <2>2, <2>3, TypesKept
  <1>9. ASSUME NEW k \in Array!Live, k < it PROVE Array!Before(storage[k], t)
    <2>1. k \in useBegin..(it - 1)
      BY <1>1, <1>3, <1>9 DEF Array!Live
    <2>2. ~(t.time < storage[k].time)
      BY <1>1, <2>1 DEF Array!Less
    <2>3. t.time \in Nat /\ storage[k].time \in Nat
      BY <1>4, ElemIs
    <2>4. storage[k].ticket < t.ticket
      BY <1>5
    <2>. QED  BY <2>2, <2>3, <2>4 DEF Array!Before
  <1>10. ASSUME NEW k \in Array!Live, k >= it PROVE Array!Before(t, storage[k])
    <2>1. it \in Array!Live /\ k \in Int /\ it \in Int
      BY <1>1, <1>3, <1>10 DEF Array!Live
    <2>2. t.time < storage[it].time
      BY <1>1, <1>3, <2>1 DEF Array!Less, Array!Live
    <2>3. /\ t.time \in Nat /\ storage[k].time \in Nat /\ storage[it].time \in Nat
      BY <1>4, <2>1, ElemIs
    <2>4. it = k \/ Array!Before(storage[it], storage[k])
      BY <1>10, <2>1 DEF ArrayInv, Ordered
    <2>. QED  BY <2>2, <2>3, <2>4 DEF Array!Before
  <1>11. ASSUME NEW i \in Array!Live', NEW j \in Array!Live', i < j
         PROVE  Array!Before(storage'[i], storage'[j])
    <2>1. i \in Int /\ j \in Int /\ it \in Int
      BY <1>3 DEF Array!Live
    <2>2. CASE j < it + o
      <3>1. /\ i - o \in Array!Live /\ j - o \in Array!Live /\ i - o < j - o
            /\ storage'[i] = storage[i - o] /\ storage'[j] = storage[j - o]
        BY <1>3, <1>11, <2>1, <2>2 DEF Places
      <3>. QED  BY <3>1 DEF ArrayInv, Ordered
    <2>3. CASE j = it + o
      <3>1. i - o \in Array!Live /\ i - o < it /\ storage'[i] = storage[i - o] /\ storage'[j] = t
        BY <1>3, <1>11, <2>1, <2>3 DEF Places
      <3>. QED  BY <1>9, <3>1
    <2>4. CASE j > it + o
      <3>1. /\ j - o - 1 \in Array!Live /\ it <= j - o - 1 /\ storage'[j] = storage[j - o - 1]
        BY <1>3, <2>4 DEF Places
      <3>2. CASE i < it + o
        <4>1. i - o \in Array!Live /\ i - o < it /\ storage'[i] = storage[i - o]
          BY <1>3, <3>2 DEF Places
        <4>2. i - o < j - o - 1
          BY <2>1, <3>1, <4>1
        <4>. QED  BY <3>1, <4>1, <4>2 DEF ArrayInv, Ordered
      <3>3. CASE i = it + o
        <4>1. storage'[i] = t
          BY <1>3, <3>3 DEF Places
        <4>2. j - o - 1 >= it
          BY <2>1, <3>1
        <4>. QED  BY <1>10, <3>1, <4>1, <4>2
      <3>4. CASE i > it + o
        <4>1. i - o - 1 \in Array!Live /\ storage'[i] = storage[i - o - 1]
          BY <1>3, <3>4 DEF Places
        <4>2. i - o - 1 < j - o - 1
          BY <1>11, <2>1
        <4>. QED  BY <3>1, <4>1, <4>2 DEF ArrayInv, Ordered
      <3>. QED  BY <2>1, <3>2, <3>3, <3>4
    <2>. QED  BY <2>1, <2>2, <2>3, <2>4
  <1>12. Array!Abstract!Insert(t)
    <2>1. Array!IsNextTicket(t.ticket, Elems)
      BY DEF Array!Insert, Elems
    <2>. QED  BY <1>6, <2>1
         DEF Array!Abstract!Insert, Array!Abstract!IsNextTicket, Array!IsNextTicket, Elems
  <1>. QED  BY <1>8, <1>11, <1>12 DEF ArrayInv, Ordered

---------------------------------------------------------------------------
\* A removal keeps the elements at the places K, and moves them without
\* changing their order.
LEMMA KeptInv ==
    ASSUME Sizes, ArrayInv, NEW K, K \subseteq Array!Live, NEW P \in [K -> Int],
           \A i, j \in K : i < j => P[i] < P[j],
           \A i \in K : P[i] \in Array!Live' /\ storage'[P[i]] = storage[i],
           \A n \in Array!Live' : \E i \in K : P[i] = n,
           DOMAIN storage' = DOMAIN storage, useBegin' \in Nat, useEnd' \in Nat,
           useBegin' <= useEnd', useEnd' <= Array!storageEnd
    PROVE  ArrayInv' /\ Elems' = {storage[i] : i \in K}
  <1>1. /\ Array!storageEnd \in Nat /\ useBegin \in Nat /\ useEnd \in Nat
        /\ Array!storageEnd <= MaxCapacity /\ CAPACITY <= Array!storageEnd
    BY SlotsAre DEF ArrayInv
  <1>2. DOMAIN storage' = 0..Array!storageEnd
    BY DEF ArrayInv, Array!TypeOK
  <1>3. Elems' = {storage[i] : i \in K}
    <2>1. Elems' = {storage'[n] : n \in Array!Live'}
      BY DEF Elems
    <2>2. ASSUME NEW n \in Array!Live' PROVE storage'[n] \in {storage[i] : i \in K}
      <3>1. PICK i \in K : P[i] = n
        OBVIOUS
      <3>. QED  BY <3>1
    <2>3. ASSUME NEW i \in K PROVE storage[i] \in Elems'
      <3>1. PICK n \in Array!Live' : n = P[i]
        OBVIOUS
      <3>2. storage'[n] = storage[i]
        BY <3>1
      <3>. QED  BY <2>1, <3>2
    <2>. QED  BY <2>1, <2>2, <2>3
  <1>4. \A n \in Array!Live' : storage'[n] \in Array!Elem
    <2>1. TAKE n \in Array!Live'
    <2>2. PICK i \in K : P[i] = n
      OBVIOUS
    <2>3. storage[i] \in Array!Elem
      BY DEF ArrayInv, Array!TypeOK
    <2>. QED  BY <2>2, <2>3
  <1>5. Array!TypeOK'
    BY <1>1, <1>2, <1>4, TypesKept
  <1>6. ASSUME NEW n \in Array!Live', NEW m \in Array!Live', n < m
        PROVE  Array!Before(storage'[n], storage'[m])
    <2>1. PICK i \in K : P[i] = n
      OBVIOUS
    <2>2. PICK j \in K : P[j] = m
      OBVIOUS
    <2>3. i \in Int /\ j \in Int /\ n \in Int /\ m \in Int
      <3>1. P[i] \in Int /\ P[j] \in Int
        OBVIOUS
      <3>. QED  BY <1>1, <2>1, <2>2, <3>1 DEF Array!Live
    <2>4. i < j
      <3>1. ~(j < i)
        BY <1>6, <2>1, <2>2, <2>3
      <3>2. i # j
        BY <1>6, <2>1, <2>2, <2>3
      <3>. QED  BY <2>3, <3>1, <3>2
    <2>5. Array!Before(storage[i], storage[j])
      BY <2>4 DEF ArrayInv, Ordered
    <2>. QED  BY <2>1, <2>2, <2>5
  <1>. QED  BY <1>3, <1>5, <1>6 DEF ArrayInv, Ordered

\* One element goes, and either side closes the gap.
LEMMA GapClosed ==
    ASSUME Sizes, ArrayInv, NEW it \in Array!Live, NEW o \in {0, 1},
           useBegin' = useBegin + o, useEnd' = useEnd + o - 1, DOMAIN storage' = DOMAIN storage,
           \A i \in Array!Live : /\ i < it => storage'[i + o] = storage[i]
                                 /\ i > it => storage'[i + o - 1] = storage[i]
    PROVE  ArrayInv' /\ Elems' = Elems \ {storage[it]}
  <1>. DEFINE K == Array!Live \ {it}
              P == [i \in K |-> IF i < it THEN i + o ELSE i + o - 1]
  <1>1. /\ Array!storageEnd \in Nat /\ useBegin \in Nat /\ useEnd \in Nat
        /\ useBegin <= useEnd /\ useEnd <= Array!storageEnd
    BY SlotsAre DEF ArrayInv
  <1>2. it \in Int /\ useBegin <= it /\ it < useEnd
    BY <1>1 DEF Array!Live
  <1>3. /\ useBegin' \in Nat /\ useEnd' \in Nat /\ useBegin' <= useEnd'
        /\ useEnd' <= Array!storageEnd
    BY <1>1, <1>2
  <1>4. ASSUME NEW i \in K
        PROVE  /\ i \in Int /\ useBegin <= i /\ i < useEnd /\ i # it /\ i \in Array!Live
               /\ P[i] = IF i < it THEN i + o ELSE i + o - 1
    BY <1>1 DEF Array!Live
  <1>5. P \in [K -> Int]
    BY <1>4
  <1>6. \A i, j \in K : i < j => P[i] < P[j]
    BY <1>2, <1>4
  <1>7. ASSUME NEW i \in K PROVE P[i] \in Array!Live' /\ storage'[P[i]] = storage[i]
    <2>1. CASE i < it
      <3>1. P[i] = i + o
        BY <1>4, <2>1
      <3>2. i + o \in Array!Live'
        BY <1>1, <1>2, <1>4, <2>1 DEF Array!Live
      <3>. QED  BY <1>4, <2>1, <3>1, <3>2
    <2>2. CASE i > it
      <3>1. P[i] = i + o - 1
        BY <1>2, <1>4, <2>2
      <3>2. i + o - 1 \in Array!Live'
        BY <1>1, <1>2, <1>4, <2>2 DEF Array!Live
      <3>. QED  BY <1>4, <2>2, <3>1, <3>2
    <2>. QED  BY <1>2, <1>4, <2>1, <2>2
  <1>8. ASSUME NEW n \in Array!Live' PROVE \E i \in K : P[i] = n
    <2>1. n \in Int /\ useBegin + o <= n /\ n < useEnd + o - 1
      BY <1>1, <1>3 DEF Array!Live
    <2>2. CASE n < it + o
      <3>1. PICK i \in Int : i = n - o
        BY <2>1
      <3>2. i \in Array!Live /\ i < it
        BY <1>1, <1>2, <2>1, <2>2, <3>1 DEF Array!Live
      <3>3. i \in K /\ i + o = n
        BY <1>2, <2>1, <3>1, <3>2
      <3>. QED  BY <3>2, <3>3
    <2>3. CASE n >= it + o
      <3>1. PICK i \in Int : i = n - o + 1
        BY <2>1
      <3>2. i \in Array!Live /\ i > it
        BY <1>1, <1>2, <2>1, <2>3, <3>1 DEF Array!Live
      <3>3. i \in K /\ i + o - 1 = n /\ ~(i < it)
        BY <1>2, <2>1, <3>1, <3>2
      <3>. QED  BY <3>3
    <2>. QED  BY <1>2, <2>1, <2>2, <2>3
  <1>9. \A i \in K : storage[i] # storage[it]
    <2>1. TAKE i \in K
    <2>2. storage[i] \in Array!Elem /\ storage[it] \in Array!Elem
      BY DEF ArrayInv, Array!TypeOK
    <2>3. Array!Before(storage[i], storage[it]) \/ Array!Before(storage[it], storage[i])
      BY <1>2, <1>4 DEF ArrayInv, Ordered
    <2>. QED  BY <2>2, <2>3, BeforeIsOrder
  <1>. HIDE DEF P
  <1>10. ArrayInv' /\ Elems' = {storage[i] : i \in K}
    BY <1>3, <1>5, <1>6, <1>7, <1>8, KeptInv
  <1>. QED  BY <1>9, <1>10 DEF Elems

LEMMA RemoveFrontInv ==
    ASSUME Sizes, ArrayInv, Array!RemoveFront
    PROVE  ArrayInv' /\ Array!Abstract!RemoveFront
  <1>1. /\ Array!storageEnd \in Nat /\ useBegin \in Nat /\ useEnd \in Nat
        /\ useBegin < useEnd /\ useEnd <= Array!storageEnd
    BY SlotsAre DEF ArrayInv, Array!RemoveFront
  <1>2. useBegin \in Array!Live
    BY <1>1 DEF Array!Live
  <1>3. /\ useBegin' = useBegin + 1 /\ useEnd' = useEnd + 1 - 1 /\ DOMAIN storage' = DOMAIN storage
    BY <1>1 DEF Array!RemoveFront
  <1>4. \A i \in Array!Live : /\ i < useBegin => storage'[i + 1] = storage[i]
                              /\ i > useBegin => storage'[i + 1 - 1] = storage[i]
    <2>1. TAKE i \in Array!Live
    <2>2. i \in Int /\ useBegin <= i /\ i \in DOMAIN storage /\ i + 1 - 1 = i
      BY <1>1, SlotsAre DEF ArrayInv, Array!Live
    <2>3. i > useBegin => storage'[i] = storage[i]
      BY <1>1, <2>2 DEF Array!RemoveFront
    <2>. QED  BY <1>1, <2>2, <2>3
  <1>5. ArrayInv' /\ Elems' = Elems \ {storage[useBegin]}
    BY <1>2, <1>3, <1>4, GapClosed
  <1>6. \A q \in Elems \ {storage[useBegin]} : Array!Before(storage[useBegin], q)
    <2>1. TAKE q \in Elems \ {storage[useBegin]}
    <2>2. PICK i \in Array!Live : q = storage[i] /\ i # useBegin
      BY DEF Elems
    <2>3. useBegin < i
      BY <1>1, <2>2 DEF Array!Live
    <2>. QED  BY <1>2, <2>2, <2>3 DEF ArrayInv, Ordered
  <1>. QED  BY <1>2, <1>5, <1>6
       DEF Array!Abstract!RemoveFront, Array!Abstract!IsFront, Array!Abstract!Before,
           Array!Before, Elems

LEMMA RemoveInv ==
    ASSUME Sizes, ArrayInv, NEW d, Array!Remove(d)
    PROVE  ArrayInv' /\ Array!Abstract!Remove(d)
  <1>1. PICK it \in Array!Live :
          /\ storage[it].device = d
          /\ \A i \in useBegin..(it - 1) : storage[i].device # d
          /\ \/ /\ useBegin' = useBegin + 1 /\ useEnd' = useEnd
                /\ storage' = [i \in DOMAIN storage |->
                                 IF i = useBegin THEN Array!Raw
                                 ELSE IF i \in (useBegin + 1)..it THEN storage[i - 1]
                                 ELSE storage[i]]
             \/ /\ useBegin' = useBegin /\ useEnd' = useEnd - 1
                /\ storage' = [i \in DOMAIN storage |->
                                 IF i = useEnd - 1 THEN Array!Raw
                                 ELSE IF i \in it..(useEnd - 2) THEN storage[i + 1]
                                 ELSE storage[i]]
    BY DEF Array!Remove
  <1>2. /\ Array!storageEnd \in Nat /\ useBegin \in Nat /\ useEnd \in Nat
        /\ useBegin <= useEnd /\ useEnd <= Array!storageEnd
        /\ DOMAIN storage = 0..Array!storageEnd
    BY SlotsAre DEF ArrayInv, Array!TypeOK
  <1>3. it \in Int /\ useBegin <= it /\ it < useEnd
    BY <1>2 DEF Array!Live
  <1>4. ArrayInv' /\ Elems' = Elems \ {storage[it]}
    <2>1. CASE /\ useBegin' = useBegin + 1 /\ useEnd' = useEnd
               /\ storage' = [i \in DOMAIN storage |->
                                 IF i = useBegin THEN Array!Raw
                                 ELSE IF i \in (useBegin + 1)..it THEN storage[i - 1]
                                 ELSE storage[i]]
      <3>1. useBegin' = useBegin + 1 /\ useEnd' = useEnd + 1 - 1 /\ DOMAIN storage' = DOMAIN storage
        BY <1>2, <2>1
      <3>2. ASSUME NEW i \in Array!Live, i < it PROVE storage'[i + 1] = storage[i]
        <4>1. /\ i \in Int /\ i + 1 \in DOMAIN storage /\ i + 1 # useBegin
              /\ i + 1 \in (useBegin + 1)..it /\ i + 1 - 1 = i
          BY <1>2, <1>3, <3>2 DEF Array!Live
        <4>. QED  BY <2>1, <4>1
      <3>3. ASSUME NEW i \in Array!Live, i > it PROVE storage'[i + 1 - 1] = storage[i]
        <4>1. /\ i \in Int /\ i \in DOMAIN storage /\ i # useBegin
              /\ i \notin (useBegin + 1)..it /\ i + 1 - 1 = i
          BY <1>2, <1>3, <3>3 DEF Array!Live
        <4>. QED  BY <2>1, <4>1
      <3>. QED  BY <3>1, <3>2, <3>3, GapClosed
    <2>2. CASE /\ useBegin' = useBegin /\ useEnd' = useEnd - 1
               /\ storage' = [i \in DOMAIN storage |->
                                 IF i = useEnd - 1 THEN Array!Raw
                                 ELSE IF i \in it..(useEnd - 2) THEN storage[i + 1]
                                 ELSE storage[i]]
      <3>1. useBegin' = useBegin + 0 /\ useEnd' = useEnd + 0 - 1 /\ DOMAIN storage' = DOMAIN storage
        BY <1>2, <2>2
      <3>2. ASSUME NEW i \in Array!Live, i < it PROVE storage'[i + 0] = storage[i]
        <4>1. /\ i \in Int /\ i \in DOMAIN storage /\ i # useEnd - 1
              /\ i \notin it..(useEnd - 2) /\ i + 0 = i
          BY <1>2, <1>3, <3>2 DEF Array!Live
        <4>. QED  BY <2>2, <4>1
      <3>3. ASSUME NEW i \in Array!Live, i > it PROVE storage'[i + 0 - 1] = storage[i]
        <4>1. /\ i \in Int /\ i - 1 \in DOMAIN storage /\ i - 1 # useEnd - 1
              /\ i - 1 \in it..(useEnd - 2) /\ i - 1 + 1 = i /\ i + 0 - 1 = i - 1
          BY <1>2, <1>3, <3>3 DEF Array!Live
        <4>. QED  BY <2>2, <4>1
      <3>. QED  BY <3>1, <3>2, <3>3, GapClosed
    <2>. QED  BY <1>1, <2>1, <2>2
  <1>5. \A i \in Array!Live : storage[i] \in Array!Elem
    BY DEF ArrayInv, Array!TypeOK
  <1>6. ASSUME NEW q \in Elems, q.device = d, q # storage[it]
        PROVE  Array!Before(storage[it], q)
    <2>1. PICK i \in Array!Live : q = storage[i]
      BY DEF Elems
    <2>2. i \in Int /\ useBegin <= i /\ i # it
      BY <1>2, <1>6, <2>1 DEF Array!Live
    <2>3. ~(i < it)
      BY <1>1, <1>3, <1>6, <2>1, <2>2
    <2>4. it < i
      BY <1>3, <2>2, <2>3
    <2>. QED  BY <2>1, <2>4 DEF ArrayInv, Ordered
  <1>7. Elems \ {storage[it]} = {p \in Elems : p.device = d =>
                                   \E q \in Elems : q.device = d /\ Array!Before(q, p)}
    <2>1. storage[it] \in Elems /\ Elems \subseteq Array!Elem
      BY <1>5 DEF Elems
    <2>2. ASSUME NEW q \in Elems, q.device = d PROVE ~Array!Before(q, storage[it])
      <3>1. CASE q = storage[it]
        BY <2>1, <3>1, BeforeIsOrder
      <3>2. CASE q # storage[it]
        BY <1>6, <2>1, <2>2, <3>2, BeforeIsOrder
      <3>. QED  BY <3>1, <3>2
    <2>. QED  BY <1>1, <1>6, <2>1, <2>2
  <1>8. Array!Abstract!Remove(d)
    <2>1. Elems' = {p \in Elems : p.device = d =>
                      \E q \in {r \in Elems : r.device = d} : Array!Before(q, p)}
      BY <1>4, <1>7
    <2>. QED  BY <2>1 DEF Array!Abstract!Remove, Array!Abstract!WithoutFirstOf,
                 Array!Abstract!PointsOf, Array!Abstract!Before, Array!Before, Elems
  <1>. QED  BY <1>4, <1>8

LEMMA SlotsCount ==
    ASSUME NEW a \in Nat, NEW b \in Nat, a <= b
    PROVE  IsFiniteSet(a..(b - 1)) /\ Cardinality(a..(b - 1)) = b - a
  <1>1. a \in Int /\ b - 1 \in Int
    OBVIOUS
  <1>2. /\ IsFiniteSet(a..(b - 1))
        /\ Cardinality(a..(b - 1)) = IF a > b - 1 THEN 0 ELSE (b - 1) - a + 1
    BY <1>1, FS_Interval
  <1>. QED  BY <1>2

\* Each element that stays goes to as many places after the first as others
\* that stay come before it.
LEMMA RemoveAllInv ==
    ASSUME Sizes, ArrayInv, NEW d, Array!RemoveAll(d)
    PROVE  ArrayInv' /\ Array!Abstract!RemoveAll(d)
  <1>. DEFINE K    == {i \in Array!Live : storage[i].device # d}
              C(i) == {j \in K : j < i}
              N(i) == Array!Cardinality(C(i))
              P    == [i \in K |-> useBegin + N(i)]
  <1>1. /\ Array!storageEnd \in Nat /\ useBegin \in Nat /\ useEnd \in Nat
        /\ useBegin <= useEnd /\ useEnd <= Array!storageEnd
        /\ DOMAIN storage = 0..Array!storageEnd
    BY SlotsAre DEF ArrayInv, Array!TypeOK
  <1>2. IsFiniteSet(K) /\ Cardinality(K) \in Nat /\ Cardinality(K) <= useEnd - useBegin
    <2>1. /\ IsFiniteSet(useBegin..(useEnd - 1))
          /\ Cardinality(useBegin..(useEnd - 1)) = useEnd - useBegin
      BY <1>1, SlotsCount
    <2>2. K \in SUBSET (useBegin..(useEnd - 1))
      BY DEF Array!Live
    <2>. QED  BY <2>1, <2>2, FS_Subset, FS_CardinalityType
  <1>3. K \subseteq Int
    BY <1>1 DEF Array!Live
  <1>4. useBegin' = useBegin /\ useEnd' = useBegin + Cardinality(K)
    BY CardinalityIs DEF Array!RemoveAll
  <1>5. /\ useBegin' \in Nat /\ useEnd' \in Nat /\ useBegin' <= useEnd'
        /\ useEnd' <= useEnd /\ useEnd' <= Array!storageEnd
    BY <1>1, <1>2, <1>4
  <1>6. storage' = [n \in DOMAIN storage |->
                      IF \E i \in K : useBegin + N(i) = n
                      THEN storage[CHOOSE i \in K : useBegin + N(i) = n]
                      ELSE IF n \in Array!Live THEN Array!Raw ELSE storage[n]]
    BY DEF Array!RemoveAll
  <1>7. K \subseteq Array!Live /\ {storage[i] : i \in K} = Elems \ {p \in Elems : p.device = d}
    BY DEF Elems
  <1>. HIDE DEF K
  <1>8. ASSUME NEW i \in K PROVE i \notin C(i) /\ C(i) \in SUBSET K /\ C(i) \cup {i} \in SUBSET K
    BY <1>3
  <1>9. ASSUME NEW i \in K, NEW j \in K, i < j PROVE C(i) \cup {i} \in SUBSET C(j)
    <2>1. ASSUME NEW k \in C(i) PROVE k \in K /\ k < j
      BY <1>3, <1>9
    <2>. QED  BY <1>9, <2>1
  <1>10. \A i \in K : N(i) = Cardinality(C(i))
    BY CardinalityIs
  <1>. HIDE DEF C, N
  <1>11. ASSUME NEW i \in K
         PROVE  /\ IsFiniteSet(C(i)) /\ N(i) \in Nat
                /\ Cardinality(C(i) \cup {i}) = N(i) + 1 /\ N(i) < Cardinality(K)
    <2>1. IsFiniteSet(C(i)) /\ Cardinality(C(i)) \in Nat
      BY <1>2, <1>8, FS_Subset, FS_CardinalityType
    <2>2. Cardinality(C(i) \cup {i}) = Cardinality(C(i)) + 1
      BY <1>8, <2>1, FS_AddElement
    <2>3. Cardinality(C(i) \cup {i}) <= Cardinality(K)
      BY <1>2, <1>8, FS_Subset
    <2>. QED  BY <1>2, <1>10, <2>1, <2>2, <2>3
  <1>12. ASSUME NEW i \in K, NEW j \in K, i < j PROVE N(i) < N(j)
    <2>1. C(i) \cup {i} \in SUBSET C(j)
      BY <1>9, <1>12
    <2>2. Cardinality(C(i) \cup {i}) <= Cardinality(C(j))
      BY <1>11, <2>1, FS_Subset
    <2>3. N(i) \in Nat /\ N(j) \in Nat /\ N(j) = Cardinality(C(j))
          /\ Cardinality(C(i) \cup {i}) = N(i) + 1
      BY <1>10, <1>11
    <2>. QED  BY <2>2, <2>3
  <1>13. ASSUME NEW i \in K
         PROVE  P[i] = useBegin + N(i) /\ P[i] \in Int /\ useBegin <= P[i] /\ P[i] < useEnd'
    <2>1. P[i] = useBegin + N(i)
      OBVIOUS
    <2>2. N(i) \in Nat /\ N(i) < Cardinality(K)
      BY <1>11
    <2>3. useBegin + N(i) \in Int /\ useBegin <= useBegin + N(i) /\ useBegin + N(i) < useEnd'
      BY <1>1, <1>2, <1>4, <2>2
    <2>. QED  BY <2>1, <2>3
  <1>14. P \in [K -> Int]
    BY <1>13
  <1>15. ASSUME NEW i \in K, NEW j \in K, i < j PROVE P[i] < P[j]
    <2>1. N(i) \in Nat /\ N(j) \in Nat /\ N(i) < N(j)
      BY <1>11, <1>12, <1>15
    <2>. QED  BY <1>1, <1>13, <2>1
  <1>16. ASSUME NEW i \in K, NEW j \in K, P[i] = P[j] PROVE i = j
    <2>1. i \in Int /\ j \in Int /\ P[i] \in Int
      BY <1>3, <1>13
    <2>. QED  BY <1>15, <1>16, <2>1
  <1>17. \A i \in K : P[i] \in Array!Live'
    BY <1>4, <1>5, <1>13 DEF Array!Live
  <1>18. \A n \in Array!Live' : \E i \in K : P[i] = n
    <2>1. IsFiniteSet(Array!Live') /\ Cardinality(Array!Live') = Cardinality(K)
      <3>1. /\ IsFiniteSet(useBegin'..(useEnd' - 1))
            /\ Cardinality(useBegin'..(useEnd' - 1)) = useEnd' - useBegin'
        BY <1>5, SlotsCount
      <3>. QED  BY <1>1, <1>2, <1>4, <3>1 DEF Array!Live
    <2>2. P \in [K -> Array!Live']
      BY <1>17
    <2>3. P \in Injection(K, Array!Live')
      BY <1>16, <2>2 DEF Injection, IsInjective
    <2>4. P \in Surjection(K, Array!Live')
      BY <1>2, <2>1, <2>3, FS_Injection
    <2>. QED  BY <2>4 DEF Surjection
  <1>19. ASSUME NEW i \in K PROVE storage'[P[i]] = storage[i]
    <2>1. P[i] \in DOMAIN storage
      BY <1>1, <1>5, <1>13
    <2>2. \A k \in K : useBegin + N(k) = P[i] => k = i
      BY <1>13, <1>16
    <2>3. (CHOOSE k \in K : useBegin + N(k) = P[i]) = i
      BY <1>13, <2>2
    <2>. QED  BY <1>6, <1>13, <2>1, <2>3
  <1>20. DOMAIN storage' = DOMAIN storage
    BY <1>6
  <1>. HIDE DEF P
  <1>21. ArrayInv' /\ Elems' = {storage[i] : i \in K}
    BY <1>5, <1>7, <1>14, <1>15, <1>17, <1>18, <1>19, <1>20, KeptInv
  <1>. QED  BY <1>7, <1>21
       DEF Array!Abstract!RemoveAll, Array!Abstract!WithoutAllOf, Array!Abstract!PointsOf, Elems

---------------------------------------------------------------------------
LEMMA ArrayStep ==
    ASSUME Sizes, ArrayInv, [Array!Next]_(Array!vars)
    PROVE  ArrayInv' /\ [Array!Abstract!Next]_Elems
  <1>1. ASSUME NEW t \in Array!Elem, Array!Insert(t) PROVE ArrayInv' /\ Array!Abstract!Next
    <2>1. ArrayInv' /\ Array!Abstract!Insert(t)
      BY <1>1, InsertInv
    <2>2. t \in [time : 0..MaxTime, device : Devices, ticket : Tickets]
      BY DEF Array!Elem, Array!Times
    <2>. QED  BY <2>1, <2>2 DEF Array!Abstract!Next, Array!Times
  <1>2. CASE Array!RemoveFront
    BY <1>2, RemoveFrontInv DEF Array!Abstract!Next
  <1>3. ASSUME NEW d \in Devices, Array!Remove(d) PROVE ArrayInv' /\ Array!Abstract!Next
    BY <1>3, RemoveInv DEF Array!Abstract!Next
  <1>4. ASSUME NEW d \in Devices, Array!RemoveAll(d) PROVE ArrayInv' /\ Array!Abstract!Next
    BY <1>4, RemoveAllInv DEF Array!Abstract!Next
  <1>5. CASE UNCHANGED Array!vars
    <2>1. storage' = storage /\ useBegin' = useBegin /\ useEnd' = useEnd
      BY <1>5 DEF Array!vars
    <2>. QED  BY <2>1 DEF ArrayInv, Array!TypeOK, Ordered, Elems, Array!Live, Array!storageEnd,
                 Array!Elem, Array!Times
  <1>. QED  BY <1>1, <1>2, <1>3, <1>4, <1>5 DEF Array!Next

LEMMA ArrayInit ==
    ASSUME Sizes, Array!Init
    PROVE  ArrayInv /\ Array!Abstract!Init
  <1>1. useBegin = 1 /\ useEnd = 1 /\ DOMAIN storage = 0..CAPACITY
    BY DEF Array!Init, Array!SPARE_FRONT
  <1>2. Array!storageEnd = CAPACITY
    <2>1. Cardinality(0..CAPACITY) = CAPACITY + 1
      BY FS_Interval DEF Sizes
    <2>2. Array!Cardinality(0..CAPACITY) = Cardinality(0..CAPACITY)
      BY CardinalityIs
    <2>. QED  BY <1>1, <2>1, <2>2 DEF Array!storageEnd, Sizes
  <1>3. Array!Live = {}
    BY <1>1 DEF Array!Live
  <1>. QED  BY <1>1, <1>2, <1>3 DEF ArrayInv, Array!TypeOK, Ordered, Array!Abstract!Init, Sizes

\* Whatever the capacity and the number of points: the array in which the code
\* keeps the sync points serves them as the set of this model does, ties in the
\* order of their registration, through every way of making room and closing gaps.
THEOREM ArrayImplementsQueue == Sizes => (Array!Spec => Array!ImplementsSortedQueue)
  <1>. SUFFICES ASSUME Sizes PROVE Array!Spec => Array!ImplementsSortedQueue
    OBVIOUS
  <1>1. Array!Init => ArrayInv /\ Array!Abstract!Init
    BY ArrayInit
  <1>2. ArrayInv /\ [Array!Next]_(Array!vars) => ArrayInv' /\ [Array!Abstract!Next]_Elems
    BY ArrayStep
  <1>. QED  BY <1>1, <1>2, PTL
       DEF Array!Spec, Array!ImplementsSortedQueue, Array!Abstract!Spec, Elems
=============================================================================
