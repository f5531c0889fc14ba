-------------------------- MODULE EventLoopProofs --------------------------
(* For any numbers of boards, threads and events: a helper thread never      *)
(* touches a board that is gone, the active board has a configuration, no    *)
(* event is lost, repeated or reordered, and no wake-up is lost.             *)
EXTENDS EventLoop, TLAPS

LOCAL ST == INSTANCE SequenceTheorems

\* Where the threads are.
Labels == MainPCs \cup ThreadPCs

PcTypes ==
    /\ pc \in [Threads \cup {Main} -> Labels]
    /\ \A t \in Threads : pc[t] \in ThreadPCs

BoardTypes ==
    /\ boards \subseteq Boards /\ loaded \subseteq boards
    /\ active \in boards \cup {None}

FlagTypes ==
    /\ exitLoop \in [Boards -> [CPUs -> BOOLEAN]]
    /\ cpu \in [Boards -> CPUs] /\ newCpu \in [Boards -> CPUs]
    /\ held \in Boards \cup {None}
    /\ pc[Main] \in {"cpu", "leaving"} => held # None

\* mbMutex is held from the reading of activeBoard to the setting of its flag,
\* and the board that was read stays the active one.
Locked ==
    /\ target \in [Threads -> (Boards \X CPUs) \cup {None}]
    /\ \A t \in Threads : pc[t] = "flag" =>
        /\ mbMutex = t
        /\ target[t] \in Boards \X CPUs
        /\ target[t][1] = active
        /\ active \in loaded

LoopInv == PcTypes /\ BoardTypes /\ FlagTypes /\ Locked
---------------------------------------------------------------------------
LEMMA InitLoopInv == Init => LoopInv
  <1> SUFFICES ASSUME Init PROVE LoopInv
    OBVIOUS
  <1> USE ConstantsAssumption DEF Init
  <1>1. PcTypes
    BY DEF PcTypes, Labels, MainPCs, ThreadPCs
  <1>2. BoardTypes
    BY DEF BoardTypes
  <1>3. FlagTypes
    <2>1. NoExit \in [CPUs -> BOOLEAN]
      BY DEF NoExit
    <2>2. "z80" \in CPUs
      BY DEF CPUs
    <2>. QED  BY <2>1, <2>2 DEF FlagTypes
  <1>4. Locked
    BY DEF Locked
  <1>. QED  BY <1>1, <1>2, <1>3, <1>4 DEF LoopInv

\* Where a step leaves the threads: at most one of them moves.
LEMMA StepPcTypes == PcTypes /\ [Next]_vars => PcTypes'
  <1> SUFFICES ASSUME PcTypes, [Next]_vars PROVE PcTypes'
    OBVIOUS
  <1> USE ConstantsAssumption DEF PcTypes, Goto
  <1>1. ASSUME NEW t \in Threads, Thread(t) PROVE PcTypes'
    <2>1. \E label \in ThreadPCs : pc' = [pc EXCEPT ![t] = label]
      BY <1>1 DEF Thread, ThreadDistribute, ThreadEnter, ThreadFlag, ThreadPCs
    <2>. QED  BY <2>1 DEF Labels
  <1>2. ASSUME Command PROVE PcTypes'
    BY <1>2 DEF Command, MainDistribute, Pause, Unpause, ReplaceBoard, SwitchMachine,
       CreateMachine, LoadMachine, RestoreMachine, ActivateMachine, DeleteMachine
  <1>3. ASSUME Step PROVE PcTypes'
    <2>1. pc' = pc \/ \E label \in Labels : pc' = [pc EXCEPT ![Main] = label]
      BY <1>3 DEF Step, Polled, TakeBatch, StartEvent, Signal, FinishEvent,
         Execute, Blocked, TestExit, ResetExit, LoopHead, Labels, MainPCs
    <2>. QED  BY <2>1
  <1>4. ASSUME SignalQuit \/ MixerExit \/ SetActiveCPU \/ UNCHANGED vars PROVE PcTypes'
    BY <1>4 DEF SignalQuit, MixerExit, SetActiveCPU, vars
  <1>. QED  BY <1>1, <1>2, <1>3, <1>4 DEF Next

LEMMA StepBoardTypes == BoardTypes /\ [Next]_vars => BoardTypes'
  <1> SUFFICES ASSUME BoardTypes, [Next]_vars PROVE BoardTypes'
    OBVIOUS
  <1> USE ConstantsAssumption DEF BoardTypes
  <1>1. ASSUME NEW t \in Threads, Thread(t) PROVE BoardTypes'
    BY <1>1 DEF Thread, ThreadDistribute, ThreadEnter, ThreadFlag, boardVars
  <1>2. ASSUME Command PROVE BoardTypes'
    <2>1. ASSUME NEW o \in Boards, NEW b \in Boards, ReplaceBoard(o, b) PROVE BoardTypes'
      BY <2>1 DEF ReplaceBoard, SwitchBoard
    <2>2. ASSUME NEW b \in Boards, SwitchMachine(b) PROVE BoardTypes'
      BY <2>2 DEF SwitchMachine, SwitchBoard
    <2>3. ASSUME NEW b \in Boards, CreateMachine(b) \/ LoadMachine(b) \/ RestoreMachine(b)
          PROVE  BoardTypes'
      BY <2>3 DEF CreateMachine, LoadMachine, RestoreMachine
    <2>4. ASSUME NEW b \in Boards, ActivateMachine(b) \/ DeleteMachine(b) PROVE BoardTypes'
      BY <2>4 DEF ActivateMachine, DeleteMachine, SwitchBoard
    <2>5. ASSUME MainDistribute \/ Pause \/ Unpause PROVE BoardTypes'
      BY <2>5 DEF MainDistribute, Pause, Unpause, boardVars
    <2>. QED  BY <1>2, <2>1, <2>2, <2>3, <2>4, <2>5 DEF Command
  <1>3. ASSUME Step PROVE BoardTypes'
    BY <1>3 DEF Step, Polled, TakeBatch, StartEvent, Signal, FinishEvent, Execute, Blocked,
       TestExit, ResetExit, MainOnly
  <1>4. ASSUME SignalQuit \/ MixerExit \/ SetActiveCPU \/ UNCHANGED vars PROVE BoardTypes'
    BY <1>4 DEF SignalQuit, MixerExit, SetActiveCPU, MainOnly, vars, boardVars
  <1>. QED  BY <1>1, <1>2, <1>3, <1>4 DEF Next

\* What setting one exit flag, and making a board anew, do to the flags.
LEMMA SetFlag ==
    ASSUME NEW b \in Boards, NEW c \in CPUs, exitLoop \in [Boards -> [CPUs -> BOOLEAN]],
           exitLoop' = [exitLoop EXCEPT ![b][c] = TRUE]
    PROVE  /\ exitLoop' \in [Boards -> [CPUs -> BOOLEAN]]
           /\ exitLoop'[b][c]
           /\ \A b2 \in Boards, c2 \in CPUs : exitLoop[b2][c2] => exitLoop'[b2][c2]
  OBVIOUS

LEMMA SyncExit ==
    ASSUME NEW b \in Boards \cup {None}, FlagTypes, ExitCPULoopSync(b)
    PROVE  /\ exitLoop' \in [Boards -> [CPUs -> BOOLEAN]]
           /\ b # None => \E c \in CPUs : exitLoop'[b][c]
           /\ \A b2 \in Boards, c2 \in CPUs : exitLoop[b2][c2] => exitLoop'[b2][c2]
  <1> USE ConstantsAssumption
  <1>1. CASE b = None
    BY <1>1 DEF ExitCPULoopSync, FlagTypes
  <1>2. CASE b # None
    <2>1. b \in Boards /\ cpu[b] \in CPUs
      BY <1>2 DEF FlagTypes
    <2>2. exitLoop' = [exitLoop EXCEPT ![b][cpu[b]] = TRUE]
      BY <1>2 DEF ExitCPULoopSync
    <2>. QED  BY <2>1, <2>2, SetFlag DEF FlagTypes
  <1>. QED  BY <1>1, <1>2

LEMMA FreshFlags ==
    ASSUME NEW b \in Boards, NEW c \in CPUs, NEW n \in CPUs, FlagTypes, Fresh(b, c, n)
    PROVE  /\ exitLoop' \in [Boards -> [CPUs -> BOOLEAN]]
           /\ cpu' \in [Boards -> CPUs] /\ newCpu' \in [Boards -> CPUs]
           /\ b = active' => exitLoop'[b][c]
           /\ \A b2 \in Boards \ {b} : exitLoop'[b2] = exitLoop[b2]
  <1>1. NoExit \in [CPUs -> BOOLEAN]
    BY DEF NoExit
  <1>2. (b = active') \in BOOLEAN
    OBVIOUS
  <1> DEFINE fresh == [NoExit EXCEPT ![c] = b = active']
  <1>3. fresh \in [CPUs -> BOOLEAN] /\ fresh[c] = (b = active')
    BY <1>1, <1>2
  <1>4. exitLoop' = [exitLoop EXCEPT ![b] = fresh]
    BY DEF Fresh
  <1> HIDE DEF fresh
  <1>5. exitLoop'[b] = fresh
    BY <1>4 DEF FlagTypes
  <1>. QED  BY <1>3, <1>4, <1>5 DEF FlagTypes, Fresh

\* Every step that makes a board is one of these.
LEMMA FreshBoard ==
    ASSUME NEW b \in Boards,
           \/ \E o \in Boards : ReplaceBoard(o, b)
           \/ SwitchMachine(b) \/ CreateMachine(b) \/ RestoreMachine(b)
    PROVE  b \notin Alive /\ \E c, n \in CPUs : Fresh(b, c, n)
  <1>1. "z80" \in CPUs
    BY DEF CPUs
  <1>. QED  BY <1>1 DEF ReplaceBoard, SwitchMachine, CreateMachine, RestoreMachine

LEMMA StepFlagTypes == LoopInv /\ [Next]_vars => FlagTypes'
  <1> SUFFICES ASSUME LoopInv, [Next]_vars PROVE FlagTypes'
    OBVIOUS
  <1> USE ConstantsAssumption DEF LoopInv, FlagTypes, Goto
  <1>1. ASSUME NEW t \in Threads, Thread(t) PROVE FlagTypes'
    <2>1. pc'[Main] = pc[Main]
      BY <1>1 DEF Thread, ThreadDistribute, ThreadEnter, ThreadFlag, PcTypes
    <2>2. ASSUME ThreadFlag(t) PROVE FlagTypes'
      <3>1. target[t][1] \in Boards /\ target[t][2] \in CPUs
        BY <2>2 DEF ThreadFlag, Locked
      <3>2. exitLoop' \in [Boards -> [CPUs -> BOOLEAN]]
        BY <2>2, <3>1, SetFlag DEF ThreadFlag
      <3>. QED  BY <2>1, <2>2, <3>2 DEF ThreadFlag
    <2>3. ASSUME ThreadDistribute(t) \/ ThreadEnter(t) PROVE FlagTypes'
      BY <2>1, <2>3 DEF ThreadDistribute, ThreadEnter, boardVars
    <2>. QED  BY <1>1, <2>2, <2>3 DEF Thread
  <1>2. ASSUME Command PROVE FlagTypes'
    <2>1. ASSUME NEW b \in Boards,
                 \/ \E o \in Boards : ReplaceBoard(o, b)
                 \/ SwitchMachine(b) \/ CreateMachine(b) \/ RestoreMachine(b)
          PROVE  FlagTypes'
      <3>1. PICK c \in CPUs, n \in CPUs : Fresh(b, c, n)
        BY <2>1, FreshBoard
      <3>2. UNCHANGED <<held, pc>>
        BY <2>1 DEF ReplaceBoard, SwitchMachine, CreateMachine, RestoreMachine
      <3>. QED  BY <3>1, <3>2, FreshFlags
    <2>3. ASSUME NEW b \in Boards, LoadMachine(b) \/ DeleteMachine(b) \/ Unpause PROVE FlagTypes'
      BY <2>3 DEF LoadMachine, DeleteMachine, Unpause, boardVars
    <2>4. ASSUME NEW b \in Boards, ActivateMachine(b) PROVE FlagTypes'
      <3>1. ExitCPULoopSync(b) /\ UNCHANGED <<held, cpu, newCpu, pc>>
        BY <2>4 DEF ActivateMachine
      <3>. QED  BY <3>1, SyncExit
    <2>5. ASSUME MainDistribute \/ Pause PROVE FlagTypes'
      <3>1. ExitCPULoopSync(active) /\ active \in Boards \cup {None} /\ UNCHANGED <<held, cpu, newCpu, pc>>
        BY <2>5 DEF MainDistribute, Pause, BoardTypes
      <3>. QED  BY <3>1, SyncExit
    <2>6. CASE Unpause
      BY <2>6 DEF Unpause, boardVars
    <2>. QED  BY <1>2, <2>1, <2>3, <2>4, <2>5, <2>6 DEF Command
  <1>3. ASSUME Step PROVE FlagTypes'
    <2>0. LoopHead \notin {"cpu", "leaving"}
      BY DEF LoopHead
    <2>1. CASE Polled \/ TakeBatch \/ StartEvent \/ Signal \/ FinishEvent \/ Blocked \/ TestExit
      <3>1. UNCHANGED <<exitLoop, cpu, newCpu, held>>
        BY <2>1 DEF Polled, TakeBatch, StartEvent, Signal, FinishEvent, Blocked, TestExit, MainOnly
      <3>2. pc'[Main] \in {"cpu", "leaving"} => pc[Main] = "cpu"
        BY <2>0, <2>1 DEF Polled, TakeBatch, StartEvent, Signal, FinishEvent, Blocked, TestExit,
           PcTypes
      <3>. QED  BY <3>1, <3>2
    <2>2. CASE Execute
      <3>1. active \in Boards /\ newCpu[active] \in CPUs
        BY <2>2 DEF Execute, BoardTypes
      <3>. QED  BY <2>2, <3>1 DEF Execute, MainOnly
    <2>3. CASE ResetExit
      <3>1. held \in Boards /\ cpu[held] \in CPUs
        BY <2>3 DEF ResetExit
      <3>2. exitLoop' \in [Boards -> [CPUs -> BOOLEAN]]
        BY <2>3, <3>1 DEF ResetExit
      <3>3. pc'[Main] = LoopHead
        BY <2>3 DEF ResetExit, PcTypes
      <3>. QED  BY <2>0, <2>3, <3>2, <3>3 DEF ResetExit, MainOnly
    <2>. QED  BY <1>3, <2>1, <2>2, <2>3 DEF Step
  <1>4. ASSUME SignalQuit \/ MixerExit \/ SetActiveCPU PROVE FlagTypes'
    <2>1. \E b \in Boards \cup {None} : ExitCPULoopSync(b)
      BY <1>4 DEF SignalQuit, MixerExit, SetActiveCPU, BoardTypes
    <2>2. UNCHANGED <<held, cpu, pc>>
      BY <1>4 DEF SignalQuit, MixerExit, SetActiveCPU
    <2>3. newCpu' \in [Boards -> CPUs]
      BY <1>4 DEF SignalQuit, MixerExit, SetActiveCPU, MainOnly
    <2>. QED  BY <2>1, <2>2, <2>3, SyncExit
  <1>5. CASE UNCHANGED vars
    BY <1>5 DEF vars, boardVars
  <1>. QED  BY <1>1, <1>2, <1>3, <1>4, <1>5 DEF Next

LEMMA StepLocked == LoopInv /\ [Next]_vars => Locked'
  <1> SUFFICES ASSUME LoopInv, [Next]_vars PROVE Locked'
    OBVIOUS
  <1> USE ConstantsAssumption DEF LoopInv, Locked, Goto
  \* The boards only change with the mutex free, and the active one stays loaded.
  <1>0. ASSUME UNCHANGED <<target, pc, mbMutex>>,
               mbMutex = None \/ (active' = active /\ (active \in loaded => active \in loaded'))
        PROVE  Locked'
    BY <1>0
  <1>1. ASSUME NEW t \in Threads, Thread(t) PROVE Locked'
    <2>0. \A u \in Threads \ {t} : pc'[u] = pc[u] /\ (pc[u] = "flag" => mbMutex = u)
      BY <1>1 DEF Thread, ThreadDistribute, ThreadEnter, ThreadFlag, PcTypes
    <2>1. CASE ThreadDistribute(t)
      BY <2>0, <2>1 DEF ThreadDistribute, PcTypes, boardVars
    <2>2. CASE ThreadEnter(t)
      <3>1. CASE active # None /\ active \in loaded
        <4>1. <<active, cpu[active]>> \in Boards \X CPUs
          BY <3>1 DEF BoardTypes, FlagTypes
        <4>2. target'[t] = <<active, cpu[active]>> /\ mbMutex' = t /\ UNCHANGED boardVars
          BY <2>2, <3>1 DEF ThreadEnter
        <4>3. target' \in [Threads -> (Boards \X CPUs) \cup {None}]
          BY <2>2, <3>1, <4>1 DEF ThreadEnter
        <4>4. \A u \in Threads \ {t} : pc[u] # "flag"
          BY <2>2 DEF ThreadEnter
        <4>. QED  BY <2>0, <3>1, <4>1, <4>2, <4>3, <4>4 DEF boardVars
      <3>2. CASE ~(active # None /\ active \in loaded)
        BY <2>0, <2>2, <3>2 DEF ThreadEnter, PcTypes, boardVars
      <3>. QED  BY <3>1, <3>2
    <2>3. CASE ThreadFlag(t)
      BY <2>0, <2>3 DEF ThreadFlag, PcTypes
    <2>. QED  BY <1>1, <2>1, <2>2, <2>3 DEF Thread
  <1>2. ASSUME Command PROVE Locked'
    <2>1. UNCHANGED <<target, pc, mbMutex>>
      BY <1>2 DEF Command, MainDistribute, Pause, Unpause, ReplaceBoard, SwitchMachine,
         CreateMachine, LoadMachine, RestoreMachine, ActivateMachine, DeleteMachine
    <2>2. mbMutex = None \/ (active' = active /\ (active \in loaded => active \in loaded'))
      BY <1>2 DEF Command, MainDistribute, Pause, Unpause, ReplaceBoard, SwitchMachine,
         CreateMachine, LoadMachine, RestoreMachine, ActivateMachine, DeleteMachine, SwitchBoard, boardVars
    <2>. QED  BY <1>0, <2>1, <2>2
  <1>3. ASSUME Step \/ SignalQuit \/ MixerExit \/ SetActiveCPU \/ UNCHANGED vars PROVE Locked'
    <2>1. UNCHANGED <<target, mbMutex, active, loaded>>
      BY <1>3 DEF Step, Polled, TakeBatch, StartEvent, Signal, FinishEvent, Execute, Blocked,
         TestExit, ResetExit, SignalQuit, MixerExit, SetActiveCPU, MainOnly, vars, boardVars
    <2>2. \A u \in Threads : pc'[u] = pc[u]
      BY <1>3 DEF Step, Polled, TakeBatch, StartEvent, Signal, FinishEvent, Execute, Blocked,
         TestExit, ResetExit, SignalQuit, MixerExit, SetActiveCPU, PcTypes, vars
    <2>. QED  BY <2>1, <2>2
  <1>. QED  BY <1>1, <1>2, <1>3 DEF Next

\* The inductive invariant of the locking.
THEOREM LoopInvHolds == Spec => []LoopInv
  <1>1. LoopInv /\ [Next]_vars => LoopInv'
    BY StepPcTypes, StepBoardTypes, StepFlagTypes, StepLocked DEF LoopInv
  <1>. QED  BY <1>1, InitLoopInv, PTL DEF Spec

\* For any number of threads and boards, a thread in exitCPULoopAsync holds on
\* to a board that exists and has a CPU: mbMutex is taken by the reader of
\* activeBoard and by switchBoard, and that is enough.
THEOREM NoFlagOfDeadBoard == Spec => []FlagsLiveBoard
  <1>1. LoopInv => FlagsLiveBoard
    BY ConstantsAssumption DEF LoopInv, Locked, BoardTypes, FlagsLiveBoard, Alive
  <1>. QED  BY <1>1, LoopInvHolds, PTL
---------------------------------------------------------------------------
LEMMA StepActiveHasConfig ==
    ~ActivateEmpty /\ LoopInv /\ ActiveHasConfig /\ [Next]_vars => ActiveHasConfig'
  <1> SUFFICES ASSUME ~ActivateEmpty, LoopInv, ActiveHasConfig, [Next]_vars
               PROVE  ActiveHasConfig'
    OBVIOUS
  <1> USE DEF ActiveHasConfig
  <1>1. ASSUME NEW t \in Threads, Thread(t) PROVE ActiveHasConfig'
    BY <1>1 DEF Thread, ThreadDistribute, ThreadEnter, ThreadFlag, boardVars
  <1>2. ASSUME Command PROVE ActiveHasConfig'
    BY <1>2 DEF Command, MainDistribute, Pause, Unpause, ReplaceBoard, SwitchMachine,
       CreateMachine, LoadMachine, RestoreMachine, ActivateMachine, DeleteMachine, SwitchBoard, boardVars
  <1>3. ASSUME Step \/ SignalQuit \/ MixerExit \/ SetActiveCPU \/ UNCHANGED vars
        PROVE  ActiveHasConfig'
    BY <1>3 DEF Step, Polled, TakeBatch, StartEvent, Signal, FinishEvent, Execute, Blocked,
       TestExit, ResetExit, SignalQuit, MixerExit, SetActiveCPU, MainOnly, vars, boardVars
  <1>. QED  BY <1>1, <1>2, <1>3 DEF Next

\* Without activate_machine on an empty machine, whatever machines are made,
\* loaded, activated, replaced and deleted, the active board has a CPU for
\* exitCPULoopSync to stop.
THEOREM ActiveBoardHasCPU == ~ActivateEmpty => (Spec => []ActiveHasConfig)
  <1> SUFFICES ASSUME ~ActivateEmpty PROVE Spec => []ActiveHasConfig
    OBVIOUS
  <1>1. Init => ActiveHasConfig
    BY DEF Init, ActiveHasConfig
  <1>2. LoopInv /\ ActiveHasConfig /\ [Next]_vars => ActiveHasConfig'
    BY StepActiveHasConfig
  <1>. QED  BY <1>1, <1>2, LoopInvHolds, PTL DEF Spec
---------------------------------------------------------------------------
\* The numbers of the events that are not delivered yet, oldest first; a batch
\* exists only while it is being delivered.
Numbered ==
    /\ nextEvent \in Nat /\ delivered \in Nat
    /\ queue \in Seq(Nat) /\ batch \in Seq(Nat)
    /\ (batch # <<>>) = (pc[Main] \in {"deliver", "signal"})
    /\ nextEvent - 1 = delivered + Len(batch) + Len(queue)
    /\ \A i \in 1..Len(batch) : batch[i] = delivered + i
    /\ \A i \in 1..Len(queue) : queue[i] = delivered + Len(batch) + i

LEMMA PushNumbered ==
    ASSUME Numbered, Push, batch' = batch, delivered' = delivered, pc'[Main] = pc[Main]
    PROVE  Numbered'
  <1>1. nextEvent \in Nat /\ queue' = Append(queue, nextEvent) /\ nextEvent' = nextEvent + 1
    BY DEF Numbered, Push
  <1>2. queue' \in Seq(Nat) /\ Len(queue') = Len(queue) + 1
    BY <1>1 DEF Numbered
  <1>3. \A i \in 1..Len(queue) : queue'[i] = queue[i]
    BY <1>1 DEF Numbered
  <1>4. queue'[Len(queue) + 1] = nextEvent
    BY <1>1 DEF Numbered
  <1>5. \A i \in 1..Len(queue') : queue'[i] = delivered + Len(batch) + i
    <2> TAKE i \in 1..Len(queue')
    <2>1. CASE i \in 1..Len(queue)
      BY <1>3, <2>1 DEF Numbered
    <2>2. CASE i = Len(queue) + 1
      <3>1. nextEvent = delivered + Len(batch) + Len(queue) + 1
        BY DEF Numbered
      <3>. QED  BY <1>4, <2>2, <3>1 DEF Numbered
    <2>3. Len(queue) \in Nat
      BY DEF Numbered
    <2>. QED  BY <1>2, <2>1, <2>2, <2>3
  <1>6. nextEvent' \in Nat /\ nextEvent' - 1 = delivered' + Len(batch') + Len(queue')
    <2>1. Len(batch) \in Nat /\ Len(queue) \in Nat
      BY DEF Numbered
    <2>. QED  BY <1>1, <1>2, <2>1 DEF Numbered
  <1>7. (batch' # <<>>) = (pc'[Main] \in {"deliver", "signal"})
    BY DEF Numbered
  <1>8. \A i \in 1..Len(batch') : batch'[i] = delivered' + i
    BY DEF Numbered
  <1>9. delivered' \in Nat /\ batch' \in Seq(Nat)
    BY DEF Numbered
  <1>. QED  BY <1>2, <1>5, <1>6, <1>7, <1>8, <1>9 DEF Numbered

LEMMA TakeNumbered == Numbered /\ PcTypes /\ TakeBatch => Numbered'
  <1> SUFFICES ASSUME Numbered, PcTypes, TakeBatch PROVE Numbered'
    OBVIOUS
  <1>1. batch = <<>>
    BY DEF Numbered, TakeBatch
  <1>2. batch' = queue /\ queue' = <<>> /\ UNCHANGED <<nextEvent, delivered>>
    BY DEF TakeBatch
  <1>3. (batch' # <<>>) = (pc'[Main] \in {"deliver", "signal"})
    BY <1>2 DEF TakeBatch, Goto, PcTypes
  <1>. QED  BY <1>1, <1>2, <1>3 DEF Numbered

LEMMA FinishNumbered == Numbered /\ PcTypes /\ FinishEvent => Numbered'
  <1> SUFFICES ASSUME Numbered, PcTypes, FinishEvent PROVE Numbered'
    OBVIOUS
  <1>1. batch # <<>> /\ batch \in Seq(Nat) /\ Len(batch) > 0
    BY DEF Numbered, FinishEvent
  <1>2. batch' = Tail(batch) /\ UNCHANGED <<queue, nextEvent>>
    BY DEF FinishEvent
  <1>3. delivered' = delivered + 1
    BY <1>1 DEF FinishEvent, Numbered
  <1>4. batch' \in Seq(Nat) /\ Len(batch') = Len(batch) - 1
    BY <1>1, <1>2
  <1>5. \A i \in 1..Len(batch') : batch'[i] = batch[i + 1]
    BY <1>1, <1>2
  <1>6. (batch' # <<>>) = (pc'[Main] \in {"deliver", "signal"})
    BY <1>2 DEF FinishEvent, Goto, PcTypes
  <1>7. \A i \in 1..Len(batch') : batch'[i] = delivered' + i
    BY <1>3, <1>4, <1>5 DEF Numbered
  <1>. QED  BY <1>2, <1>3, <1>4, <1>6, <1>7 DEF Numbered

LEMMA StepNumbered == LoopInv /\ Numbered /\ [Next]_vars => Numbered'
  <1> SUFFICES ASSUME LoopInv, Numbered, [Next]_vars PROVE Numbered'
    OBVIOUS
  <1> USE ConstantsAssumption DEF Goto
  <1>0. ASSUME UNCHANGED <<queue, batch, nextEvent, delivered>>,
               (pc'[Main] \in {"deliver", "signal"}) = (pc[Main] \in {"deliver", "signal"})
        PROVE  Numbered'
    BY <1>0 DEF Numbered
  <1>1. ASSUME NEW t \in Threads, Thread(t) PROVE Numbered'
    <2>1. pc'[Main] = pc[Main]
      BY <1>1 DEF Thread, ThreadDistribute, ThreadEnter, ThreadFlag, LoopInv, PcTypes
    <2>2. UNCHANGED <<batch, delivered>> /\ (Push \/ UNCHANGED <<queue, nextEvent>>)
      BY <1>1 DEF Thread, ThreadDistribute, ThreadEnter, ThreadFlag, eventVars
    <2>. QED  BY <1>0, <2>1, <2>2, PushNumbered
  <1>2. ASSUME Command PROVE Numbered'
    <2>1. UNCHANGED <<batch, delivered, pc>> /\ (Push \/ UNCHANGED <<queue, nextEvent>>)
      BY <1>2 DEF Command, MainDistribute, Pause, Unpause, ReplaceBoard, SwitchMachine,
         CreateMachine, LoadMachine, RestoreMachine, ActivateMachine, DeleteMachine, SwitchBoard, eventVars
    <2>. QED  BY <1>0, <2>1, PushNumbered
  <1>3. ASSUME Polled \/ StartEvent \/ Signal \/ Execute \/ Blocked \/ TestExit \/ ResetExit
        PROVE  Numbered'
    <2>1. UNCHANGED <<queue, batch, nextEvent, delivered>>
      BY <1>3 DEF Polled, StartEvent, Signal, Execute, Blocked, TestExit, ResetExit, eventVars
    <2>2. (pc'[Main] \in {"deliver", "signal"}) = (pc[Main] \in {"deliver", "signal"})
      BY <1>3 DEF Polled, StartEvent, Signal, Execute, Blocked, TestExit, ResetExit, LoopHead,
         LoopInv, PcTypes
    <2>. QED  BY <1>0, <2>1, <2>2
  <1>4. ASSUME SignalQuit \/ MixerExit \/ SetActiveCPU \/ UNCHANGED vars PROVE Numbered'
    BY <1>0, <1>4 DEF SignalQuit, MixerExit, SetActiveCPU, vars, eventVars
  <1>. QED  BY <1>1, <1>2, <1>3, <1>4, TakeNumbered, FinishNumbered DEF Next, Step, LoopInv

\* For any number of threads and events, what deliverEvents delivers is what
\* distributeEvent queued, in that order, each event once: swapping the queue
\* out under the mutex and queueing more while a batch is delivered lose none.
THEOREM EventsInOrder == Spec => []DeliveredInOrder
  <1>1. Init => Numbered
    BY ConstantsAssumption DEF Init, Numbered
  <1>2. LoopInv /\ Numbered /\ [Next]_vars => Numbered'
    BY StepNumbered
  <1>3. Numbered => DeliveredInOrder
    <2> SUFFICES ASSUME Numbered PROVE DeliveredInOrder
      OBVIOUS
    <2> DEFINE pending == [i \in 1..(nextEvent - 1 - delivered) |-> delivered + i]
    <2>1. batch \o queue \in Seq(Nat) /\ Len(batch \o queue) = nextEvent - 1 - delivered
      BY DEF Numbered
    <2>2. pending \in Seq(Nat) /\ Len(pending) = nextEvent - 1 - delivered
      BY DEF Numbered
    <2>3. \A i \in 1..(nextEvent - 1 - delivered) : (batch \o queue)[i] = delivered + i
      BY DEF Numbered
    <2>. QED  BY <2>1, <2>2, <2>3, ST!SeqEqual DEF DeliveredInOrder
  <1>. QED  BY <1>1, <1>2, <1>3, LoopInvHolds, PTL DEF Spec
---------------------------------------------------------------------------
Pending(t) == pc[t] \in {"enter", "flag"}

\* Once the main thread has found the queue empty, an event in it has a thread
\* on its way to the flag of the active board, or a flag of that board set.
Flagged ==
    (/\ pc[Main] \in {"execute", "cpu"} /\ queue # <<>> /\ active # None
     /\ \A t \in Threads : ~Pending(t))
      => \E c \in CPUs : exitLoop[active][c]

FlaggedInv == LoopInv /\ ActiveHasConfig /\ Flagged

\* A step keeps Flagged that keeps the board, the queue and the set flags.
LEMMA FlaggedKept ==
    ASSUME FlaggedInv, UNCHANGED <<queue, active>>,
           pc'[Main] \in {"execute", "cpu"} => pc[Main] \in {"execute", "cpu"},
           \A t \in Threads : pc'[t] = pc[t],
           \A c \in CPUs : active # None /\ exitLoop[active][c] => exitLoop'[active][c]
    PROVE  Flagged'
  BY DEF FlaggedInv, Flagged, Pending

LEMMA ThreadFlagged ==
    ASSUME FlaggedInv, NEW t \in Threads, Thread(t)
    PROVE  Flagged'
  <1> USE ConstantsAssumption DEF FlaggedInv, LoopInv, Goto
  <1>0. /\ pc'[Main] = pc[Main]
        /\ \A u \in Threads \ {t} : pc'[u] = pc[u]
        /\ active' = active
    BY DEF Thread, ThreadDistribute, ThreadEnter, ThreadFlag, PcTypes, boardVars
  <1>1. CASE ThreadDistribute(t)
    <2>1. pc'[t] = "enter"
      BY <1>1 DEF ThreadDistribute, PcTypes
    <2>. QED  BY <2>1 DEF Flagged, Pending
  <1>2. CASE ThreadEnter(t)
    <2>1. CASE active # None /\ active \in loaded
      <3>1. pc'[t] = "flag"
        BY <1>2, <2>1 DEF ThreadEnter, PcTypes
      <3>. QED  BY <3>1 DEF Flagged, Pending
    <2>2. CASE ~(active # None /\ active \in loaded)
      <3>1. active' = None
        BY <1>0, <2>2 DEF ActiveHasConfig
      <3>. QED  BY <3>1 DEF Flagged
    <2>. QED  BY <2>1, <2>2
  <1>3. CASE ThreadFlag(t)
    <2>1. target[t][1] \in Boards /\ target[t][2] \in CPUs /\ target[t][1] = active
      BY <1>3 DEF ThreadFlag, Locked
    <2>2. exitLoop'[active][target[t][2]]
      BY <1>3, <2>1, SetFlag DEF ThreadFlag, FlagTypes
    <2>. QED  BY <1>0, <2>1, <2>2 DEF Flagged
  <1>. QED  BY <1>1, <1>2, <1>3 DEF Thread

LEMMA CommandFlagged ==
    ASSUME ~ActivateEmpty, FlaggedInv, Command
    PROVE  Flagged'
  <1> USE ConstantsAssumption DEF FlaggedInv, LoopInv
  <1>1. pc' = pc
    BY DEF Command, MainDistribute, Pause, Unpause, ReplaceBoard, SwitchMachine,
       CreateMachine, LoadMachine, RestoreMachine, ActivateMachine, DeleteMachine
  \* A new active board, or an event queued for it, comes with a flag.
  <1>2. ASSUME NEW b \in Boards \cup {None}, active' = b, ExitCPULoopSync(b) PROVE Flagged'
    BY <1>2, SyncExit DEF Flagged
  <1>3. ASSUME NEW b \in Boards, \E c, n \in CPUs : Fresh(b, c, n), active' = b
        PROVE  Flagged'
    BY <1>3, FreshFlags DEF Flagged
  \* The flags of the boards nobody has are the only ones that are reset.
  <1>4. ASSUME UNCHANGED <<queue, active>>,
               active # None => exitLoop'[active] = exitLoop[active]
        PROVE  Flagged'
    BY <1>1, <1>4, FlaggedKept
  <1>5. ASSUME MainDistribute \/ Pause PROVE Flagged'
    BY <1>2, <1>5 DEF MainDistribute, Pause, BoardTypes
  <1>6. ASSUME Unpause \/ \E b \in Boards : LoadMachine(b) PROVE Flagged'
    BY <1>4, <1>6 DEF Unpause, LoadMachine, eventVars, boardVars
  <1>7. ASSUME NEW b \in Boards, SwitchMachine(b) PROVE Flagged'
    <2>1. active' = b
      BY <1>7 DEF SwitchMachine, SwitchBoard
    <2>. QED  BY <1>3, <1>7, <2>1, FreshBoard
  <1>8. ASSUME NEW b \in Boards, b \notin Alive, \E c, n \in CPUs : Fresh(b, c, n),
               UNCHANGED <<queue, active>>
        PROVE  Flagged'
    <2>1. active # None => active \in Boards \ {b}
      BY <1>8 DEF Alive, BoardTypes
    <2>. QED  BY <1>4, <1>8, <2>1, FreshFlags
  <1>9. ASSUME NEW o \in Boards, NEW b \in Boards, ReplaceBoard(o, b) PROVE Flagged'
    <2>1. CASE o = active
      <3>1. active' = b
        BY <1>9, <2>1 DEF ReplaceBoard, SwitchBoard
      <3>. QED  BY <1>3, <1>9, <3>1, FreshBoard
    <2>2. CASE o # active
      <3>1. UNCHANGED <<queue, active>>
        BY <1>9, <2>2 DEF ReplaceBoard
      <3>. QED  BY <1>8, <1>9, <3>1, FreshBoard
    <2>. QED  BY <2>1, <2>2
  <1>10. ASSUME NEW b \in Boards, CreateMachine(b) \/ RestoreMachine(b) PROVE Flagged'
    <2>1. UNCHANGED <<queue, active>>
      BY <1>10 DEF CreateMachine, RestoreMachine, eventVars
    <2>. QED  BY <1>8, <1>10, <2>1, FreshBoard
  <1>11. ASSUME NEW b \in Boards, ActivateMachine(b) PROVE Flagged'
    BY <1>2, <1>11 DEF ActivateMachine, SwitchBoard
  <1>12. ASSUME NEW b \in Boards, DeleteMachine(b) PROVE Flagged'
    <2>1. CASE b = active
      BY <1>12, <2>1 DEF DeleteMachine, SwitchBoard, Flagged
    <2>2. CASE b # active
      BY <1>4, <1>12, <2>2 DEF DeleteMachine
    <2>. QED  BY <2>1, <2>2
  <1>. QED  BY <1>5, <1>6, <1>7, <1>9, <1>10, <1>11, <1>12 DEF Command

LEMMA MainFlagged ==
    ASSUME FlaggedInv, Step \/ SignalQuit \/ MixerExit \/ SetActiveCPU
    PROVE  Flagged'
  <1> USE ConstantsAssumption DEF FlaggedInv, LoopInv, Goto
  <1>0. UNCHANGED active /\ \A t \in Threads : pc'[t] = pc[t]
    BY DEF Step, Polled, TakeBatch, StartEvent, Signal, FinishEvent, Execute, Blocked,
       TestExit, ResetExit, SignalQuit, MixerExit, SetActiveCPU, MainOnly, PcTypes
  <1>1. CASE TakeBatch
    BY <1>1 DEF TakeBatch, Flagged
  <1>2. CASE Polled \/ StartEvent \/ Signal \/ FinishEvent \/ Blocked \/ TestExit \/ ResetExit
    <2>1. pc'[Main] \notin {"execute", "cpu"}
      BY <1>2 DEF Polled, StartEvent, Signal, FinishEvent, Blocked, TestExit, ResetExit,
         LoopHead, PcTypes
    <2>. QED  BY <2>1 DEF Flagged
  <1>3. CASE Execute
    <2>1. pc[Main] = "execute" /\ UNCHANGED <<queue, exitLoop>>
      BY <1>3 DEF Execute, eventVars
    <2>. QED  BY <1>0, <2>1, FlaggedKept
  <1>4. CASE SignalQuit \/ MixerExit \/ SetActiveCPU
    <2>1. \E b \in Boards \cup {None} : ExitCPULoopSync(b)
      BY <1>4 DEF SignalQuit, MixerExit, SetActiveCPU, BoardTypes, FlagTypes
    <2>2. UNCHANGED <<queue, pc>>
      BY <1>4 DEF SignalQuit, MixerExit, SetActiveCPU, eventVars
    <2>3. \A b \in Boards, c \in CPUs : exitLoop[b][c] => exitLoop'[b][c]
      BY <2>1, SyncExit
    <2>. QED  BY <1>0, <2>2, <2>3, FlaggedKept DEF BoardTypes
  <1>. QED  BY <1>1, <1>2, <1>3, <1>4 DEF Step

\* For any number of threads and boards, an event never waits in the queue for
\* a CPU loop that nobody has told to return: needExitCPULoop's test and reset
\* are not atomic, but the queue is read again before the loop goes on.
THEOREM NoWakeupLost == ~ActivateEmpty => (Spec => []WakeupNotLost)
  <1> SUFFICES ASSUME ~ActivateEmpty PROVE Spec => []WakeupNotLost
    OBVIOUS
  <1>1. Init => Flagged
    BY ConstantsAssumption DEF Init, Flagged
  <1>2. LoopInv /\ ActiveHasConfig /\ Flagged /\ [Next]_vars => Flagged'
    <2> SUFFICES ASSUME FlaggedInv, [Next]_vars PROVE Flagged'
      BY DEF FlaggedInv
    <2>1. ASSUME UNCHANGED vars PROVE Flagged'
      BY <2>1 DEF FlaggedInv, Flagged, Pending, vars, eventVars, boardVars
    <2>. QED  BY <2>1, ThreadFlagged, CommandFlagged, MainFlagged DEF Next
  <1>3. LoopInv /\ Flagged => WakeupNotLost
    BY DEF LoopInv, Flagged, Pending, FlagTypes, WakeupNotLost, Waiting
  <1>. QED  BY <1>1, <1>2, <1>3, LoopInvHolds, ActiveBoardHasCPU, PTL DEF Spec
=============================================================================
