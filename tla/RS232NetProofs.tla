---------------------------- MODULE RS232NetProofs ----------------------------
(* For any bytes and any bounds: both streams are understood as they were    *)
(* meant, the assertions of the UART and of the reader hold, and, when the   *)
(* MSX reads each byte in its time and the queue is empty at each plugging   *)
(* in, no byte is stuck in the queue.                                        *)
EXTENDS RS232Net, SequenceTheorems, WellFoundedInduction, TLAPS

Uart == [rxe : BOOLEAN, recvReady : BOOLEAN, rxrdy : BOOLEAN, sync : BOOLEAN]

SerialTypes ==
    /\ uart \in Uart
    /\ dev \in [plugged : BOOLEAN, DTR : BOOLEAN, RTS : BOOLEAN, ip232 : BOOLEAN,
                plugs : Nat]
    /\ events \in Nat

\* A byte that the MSX did not read keeps the receiver busy.
ReadInTime == uart.rxrdy => uart.rxe /\ ~uart.recvReady

\* The sync point of a byte, and its place in the receiver.
SyncOK(u) == u.sync => u.rxe /\ ~u.recvReady
ReadOK(u) == u.rxrdy => u.rxe /\ ~u.recvReady

serialVars == <<uart, dev, events>>

---------------------------------------------------------------------------
\* What signal() does to a receiver u, whatever it was called for.
LEMMA SignalEffect ==
    ASSUME NEW u \in Uart, SyncOK(u), Signal(u), SerialTypes,
           SerialTypes => dev'.plugged = dev.plugged /\ dev'.RTS \in BOOLEAN
    PROVE  /\ uart' \in Uart /\ SyncOK(uart')
           /\ ReadOK(u) => ReadOK(uart')
           /\ dev.plugged /\ dev'.RTS /\ Ready(uart') /\ uart'.rxe => queue' = <<>>
  <1>1. CASE dev.plugged /\ ~u.rxe
    BY <1>1 DEF Signal, SyncOK, ReadOK, Uart
  <1>2. CASE /\ dev.plugged /\ u.rxe /\ Ready(u)
             /\ dev'.RTS /\ queue # <<>>
    <2>1. uart' = Received(u)
      BY <1>2 DEF Signal
    <2>. QED  BY <1>2, <2>1 DEF Received, SyncOK, ReadOK, Ready, Uart
  <1>3. CASE ~(dev.plugged /\ ~u.rxe) /\ ~(dev.plugged /\ Ready(u) /\ dev'.RTS /\ queue # <<>>)
    <2>1. uart' = u /\ queue' = queue
      BY <1>3 DEF Signal
    <2>. QED  BY <1>3, <2>1
  <1>. QED  BY <1>1, <1>2, <1>3 DEF Uart

\* The receiver that writeCommand() makes.
LEMMA CommandedEffect ==
    ASSUME SerialTypes, SyncOK(uart), NEW rxe \in BOOLEAN
    PROVE  /\ Commanded(rxe) \in Uart /\ SyncOK(Commanded(rxe))
           /\ ReadOK(uart) => ReadOK(Commanded(rxe))
           /\ rxe = uart.rxe => Commanded(rxe) = uart
  BY DEF SerialTypes, Commanded, SyncOK, ReadOK, Uart

SerialInv == SerialTypes /\ ReceiverOK

\* A command: what waited for the line RTS has an event, what waits for the
\* receiver has the signal that is to come.
LEMMA CommandEffect ==
    ASSUME SerialInv, NEW u \in Uart, SyncOK(u), NEW txe \in BOOLEAN,
           NEW rts \in BOOLEAN, NEW dtr \in BOOLEAN, NEW switched \in BOOLEAN,
           Command(u, txe, rts, dtr, switched), ~switched => u = uart
    PROVE  /\ SerialInv'
           /\ ReadInTime /\ ReadOK(u) => ReadInTime'
           /\ NoByteStuck => NoByteStuck'
  <1>1. /\ dev' \in [plugged : BOOLEAN, DTR : BOOLEAN, RTS : BOOLEAN, ip232 : BOOLEAN, plugs : Nat]
        /\ dev'.plugged = dev.plugged
        /\ dev.plugged => dev'.RTS = rts
    BY DEF Command, SerialInv, SerialTypes
  <1>2. /\ events' \in Nat /\ events' >= events
        /\ Woken(rts) => events' > 0
        /\ rpc' = rpc /\ uart' = u /\ queue' = queue
        /\ mpc = "idle" /\ (switched => mpc' \in {"tell", "signal"})
    BY DEF Command, SerialInv, SerialTypes, readerVars
  <1>3. SerialInv' /\ (ReadInTime /\ ReadOK(u) => ReadInTime')
    BY <1>1, <1>2 DEF SerialInv, SerialTypes, ReceiverOK, SyncOK, ReadOK, ReadInTime
  <1>4. NoByteStuck => NoByteStuck'
    <2>1. SUFFICES ASSUME NoByteStuck, dev'.plugged, dev'.RTS, Ready(uart'), uart'.rxe,
                          queue' # <<>>, ~switched
                   PROVE  events' > 0 \/ rpc' = "distribute"
      BY <1>2 DEF NoByteStuck
    <2>2. dev.plugged /\ rts /\ Ready(uart) /\ uart.rxe /\ queue # <<>>
      BY <2>1, <1>1, <1>2
    <2>3. CASE dev.RTS
      <3>1. events > 0 \/ rpc = "distribute"
        BY <1>2, <2>1, <2>2, <2>3 DEF NoByteStuck
      <3>2. events \in Nat /\ events' \in Nat
        BY <1>2 DEF SerialInv, SerialTypes
      <3>. QED  BY <3>1, <3>2, <1>2
    <2>4. CASE ~dev.RTS
      BY <2>2, <2>4, <1>2 DEF Woken
    <2>. QED  BY <2>3, <2>4
  <1>. QED  BY <1>3, <1>4

---------------------------------------------------------------------------
LEMMA InitSerial == Init => SerialInv /\ ReadInTime /\ NoByteStuck
  BY DEF Init, SerialInv, SerialTypes, ReceiverOK, ReadInTime, NoByteStuck, NewUart, Uart

\* Each step, with what it needs of the MSX and of the plugging in.
LEMMA NextSerial ==
    ASSUME SerialInv, [Next]_vars
    PROVE  /\ SerialInv'
           /\ ~LateReads /\ ~OldQueue /\ ReadInTime /\ NoByteStuck =>
                ReadInTime' /\ NoByteStuck'
  <1>. DEFINE Goal ==
         /\ SerialInv'
         /\ ~LateReads /\ ~OldQueue /\ ReadInTime /\ NoByteStuck => ReadInTime' /\ NoByteStuck'
  <1>. USE DEF SerialInv
  <1>0. SyncOK(uart) /\ uart \in Uart /\ (ReadInTime <=> ReadOK(uart))
    BY DEF SerialTypes, ReceiverOK, SyncOK, ReadOK, ReadInTime
  \* Steps that change nothing of the receiver and of the queue.
  <1>1. ASSUME UNCHANGED <<serialVars, queue>>, rpc = "ended" => rpc' = "ended",
               rpc = "distribute" => rpc' = "distribute",
               mpc \in {"tell", "signal"} => mpc' \in {"tell", "signal"}
        PROVE  Goal
    BY <1>1 DEF serialVars, SerialTypes, ReceiverOK, ReadInTime, NoByteStuck
  <1>2. CASE Plug
    <2>1. SerialTypes'
      BY <1>2 DEF Plug, SerialTypes
    <2>2. ReceiverOK' /\ (ReadInTime => ReadInTime')
      BY <1>2 DEF Plug, ReceiverOK, ReadInTime
    <2>3. ~OldQueue => NoByteStuck'
      BY <1>2 DEF Plug, NoByteStuck
    <2>. QED  BY <2>1, <2>2, <2>3
  <1>3. CASE Unplug \/ CloseSocket \/ Abort \/ NetPut \/ WriteTrans \/ ByteSent
    BY <1>3, <1>1 DEF Unplug, CloseSocket, Abort, NetPut, WriteTrans, ByteSent, readerVars, serialVars
  <1>4. CASE Join
    <2>1. /\ uart' = uart /\ events' = events /\ rpc' = rpc /\ rpc = "ended"
          /\ dev' = [dev EXCEPT !.plugged = FALSE]
      BY <1>4 DEF Join, readerVars
    <2>2. SerialTypes' /\ ~dev'.plugged
      BY <2>1 DEF SerialTypes
    <2>. QED  BY <2>1, <2>2 DEF ReceiverOK, ReadInTime, NoByteStuck
  <1>5. CASE DeliverEvent
    <2>1. dev' = dev /\ events' = events - 1 /\ events' \in Nat /\ rpc' = rpc
      BY <1>5 DEF DeliverEvent, readerVars, SerialTypes
    <2>2. CASE dev.plugged
      <3>1. Signal(uart)
        BY <1>5, <2>2 DEF DeliverEvent
      <3>2. /\ uart' \in Uart /\ SyncOK(uart') /\ (ReadOK(uart) => ReadOK(uart'))
            /\ dev.plugged /\ dev'.RTS /\ Ready(uart') /\ uart'.rxe => queue' = <<>>
        BY <3>1, <2>1, <1>0, SignalEffect DEF SerialTypes
      <3>. QED  BY <3>2, <2>1, <1>0
                DEF SerialTypes, ReceiverOK, ReadInTime, SyncOK, ReadOK, NoByteStuck
    <2>3. CASE ~dev.plugged
      <3>1. uart' = uart
        BY <1>5, <2>3 DEF DeliverEvent
      <3>. QED  BY <3>1, <2>1, <2>3 DEF SerialTypes, ReceiverOK, ReadInTime, NoByteStuck
    <2>. QED  BY <2>2, <2>3
  <1>6. CASE CharacterEnds
    <2>. DEFINE u == [uart EXCEPT !.sync = FALSE, !.recvReady = TRUE]
    <2>1. /\ dev' = dev /\ events' = events /\ rpc' = rpc
          /\ Signal(u) /\ (LateReads \/ ~uart.rxrdy)
      BY <1>6 DEF CharacterEnds, readerVars
    <2>2. u \in Uart /\ SyncOK(u) /\ (~uart.rxrdy => ReadOK(u))
      BY <1>0 DEF Uart, SyncOK, ReadOK
    <2>3. /\ uart' \in Uart /\ SyncOK(uart') /\ (ReadOK(u) => ReadOK(uart'))
          /\ dev.plugged /\ dev'.RTS /\ Ready(uart') /\ uart'.rxe => queue' = <<>>
      <3>. HIDE DEF u
      <3>. QED  BY <2>1, <2>2, SignalEffect DEF SerialTypes
    <2>. QED  BY <2>1, <2>2, <2>3
              DEF SerialTypes, ReceiverOK, ReadInTime, SyncOK, ReadOK, NoByteStuck
  <1>7. CASE ReadTrans
    <2>1. /\ dev' = dev /\ events' = events /\ rpc' = rpc /\ queue' = queue
          /\ uart.rxrdy /\ uart' = [uart EXCEPT !.rxrdy = FALSE]
      BY <1>7 DEF ReadTrans, readerVars
    <2>2. SerialTypes' /\ ReceiverOK' /\ ReadInTime'
      BY <2>1 DEF SerialTypes, Uart, ReceiverOK, ReadInTime
    <2>3. ReadInTime => ~Ready(uart')
      BY <2>1, <1>0 DEF ReadInTime, Ready, Uart
    <2>. QED  BY <2>2, <2>3 DEF NoByteStuck
  <1>8. CASE WriteCommand
    <2>1. PICK rxe \in BOOLEAN, txe \in BOOLEAN, rts \in BOOLEAN, dtr \in BOOLEAN :
                 Command(Commanded(rxe), txe, rts, dtr, rxe # uart.rxe)
      BY <1>8 DEF WriteCommand
    <2>2. /\ Commanded(rxe) \in Uart /\ SyncOK(Commanded(rxe))
          /\ ReadOK(uart) => ReadOK(Commanded(rxe))
          /\ rxe = uart.rxe => Commanded(rxe) = uart
      BY <1>0, CommandedEffect
    <2>3. (rxe # uart.rxe) \in BOOLEAN
      OBVIOUS
    <2>. QED  BY <2>1, <2>2, <2>3, <1>0, CommandEffect
  <1>9. CASE Reset
    <2>1. NewUart \in Uart /\ SyncOK(NewUart) /\ ReadOK(NewUart)
      BY DEF NewUart, Uart, SyncOK, ReadOK
    <2>2. Command(NewUart, FALSE, FALSE, FALSE, TRUE)
      BY <1>9 DEF Reset
    <2>. QED  BY <2>1, <2>2, CommandEffect
  <1>10. CASE LoopTop \/ PollReturns \/ Recv \/ RecvFails \/ Forget
    BY <1>10, <1>1 DEF LoopTop, PollReturns, Recv, RecvFails, Forget, Reader, mainVars, serialVars
  <1>11. CASE Push
    <2>1. UNCHANGED serialVars /\ rpc = "push" /\ rpc' = "distribute"
      BY <1>11 DEF Push, Reader, mainVars, serialVars
    <2>. QED  BY <2>1 DEF serialVars, SerialTypes, ReceiverOK, ReadInTime, NoByteStuck
  <1>12. CASE Distribute
    <2>1. /\ uart' = uart /\ dev' = dev /\ rpc = "distribute"
          /\ events' \in Nat /\ events' > 0
      BY <1>12 DEF Distribute, Reader, mainVars, SerialTypes
    <2>. QED  BY <2>1 DEF SerialTypes, ReceiverOK, ReadInTime, NoByteStuck
  <1>13. CASE Far \/ UNCHANGED vars
    BY <1>13, <1>1 DEF Far, FarSends, FarLine, FarHangsUp, vars, mainVars, readerVars, serialVars
  <1>14. CASE CommandSignals
    <2>1. dev' = dev /\ events' = events /\ rpc' = rpc /\ Signal(uart)
      BY <1>14 DEF CommandSignals, readerVars
    <2>2. /\ uart' \in Uart /\ SyncOK(uart') /\ (ReadOK(uart) => ReadOK(uart'))
          /\ dev.plugged /\ dev'.RTS /\ Ready(uart') /\ uart'.rxe => queue' = <<>>
      BY <2>1, <1>0, SignalEffect DEF SerialTypes
    <2>. QED  BY <2>1, <2>2, <1>0
              DEF SerialTypes, ReceiverOK, ReadInTime, SyncOK, ReadOK, NoByteStuck
  <1>. QED  BY <1>2, <1>3, <1>4, <1>5, <1>6, <1>7, <1>8, <1>9, <1>10, <1>11, <1>12, <1>13,
               <1>14 DEF Next, Main, Run

---------------------------------------------------------------------------
\* The transmitter: its sync point is there exactly while it has a byte.
TransInv ==
    /\ trans \in [txe : BOOLEAN, bytes : Seq(Data), sync : BOOLEAN]
    /\ Len(trans.bytes) <= 2
    /\ trans.sync => trans.txe
    /\ trans.sync <=> trans.bytes # <<>>

LEMMA InitTrans == Init => TransInv
  BY DEF Init, NewTrans, TransInv

LEMMA EnabledEffect ==
    ASSUME TransInv, NEW txe \in BOOLEAN, trans' = Enabled(txe)
    PROVE  TransInv'
  <1>1. CASE txe
    BY <1>1 DEF TransInv, Enabled
  <1>2. CASE ~txe
    <2>1. trans' = [txe |-> FALSE, bytes |-> <<>>, sync |-> FALSE]
      BY <1>2 DEF Enabled, NewTrans
    <2>2. <<>> \in Seq(Data) /\ Len(<<>>) <= 2
      OBVIOUS
    <2>. QED  BY <2>1, <2>2 DEF TransInv
  <1>. QED  BY <1>1, <1>2

LEMMA OneLess ==
    \A n, m \in Nat : n <= 2 /\ n # 0 /\ m = n - 1 => (n = 2 <=> m # 0) /\ m <= 2
  OBVIOUS

LEMMA NextTrans == TransInv /\ [Next]_vars => TransInv'
  <1>. SUFFICES ASSUME TransInv, [Next]_vars PROVE TransInv'
    OBVIOUS
  <1>1. ASSUME UNCHANGED trans PROVE TransInv'
    BY <1>1 DEF TransInv
  <1>2. CASE WriteTrans
    <2>1. PICK b \in Data, bytes \in {trans.bytes, Front(trans.bytes)} :
            /\ trans' = [trans EXCEPT !.bytes = Append(bytes, b), !.sync = TRUE]
            /\ trans.txe /\ bytes = IF Len(trans.bytes) = 2 THEN Front(trans.bytes) ELSE trans.bytes
      BY <1>2 DEF WriteTrans
    <2>2. bytes \in Seq(Data) /\ Len(bytes) <= 1
      <3>1. trans.bytes \in Seq(Data) /\ Len(trans.bytes) \in Nat /\ Len(trans.bytes) <= 2
        BY DEF TransInv
      <3>2. CASE Len(trans.bytes) = 2
        <4>1. bytes = SubSeq(trans.bytes, 1, 1)
          BY <2>1, <3>1, <3>2 DEF Front
        <4>2. \A i \in 1..1 : trans.bytes[i] \in Data
          BY <3>1, <3>2
        <4>. QED  BY <4>1, <4>2, SubSeqProperties
      <3>3. CASE Len(trans.bytes) # 2
        <4>1. bytes = trans.bytes
          BY <2>1, <3>3
        <4>2. \A n \in Nat : n <= 2 /\ n # 2 => n <= 1
          OBVIOUS
        <4>3. Len(trans.bytes) <= 1
          BY <3>1, <3>3, <4>2
        <4>. QED  BY <3>1, <4>1, <4>3
      <3>. QED  BY <3>2, <3>3
    <2>3. Append(bytes, b) \in Seq(Data) /\ Len(Append(bytes, b)) <= 2 /\ Append(bytes, b) # <<>>
      BY <2>2
    <2>. QED  BY <2>1, <2>3 DEF TransInv
  <1>3. CASE ByteSent
    <2>1. trans' = [trans EXCEPT !.bytes = Tail(trans.bytes), !.sync = Len(trans.bytes) = 2]
      BY <1>3 DEF ByteSent, TransInv
    <2>2. trans.sync /\ trans.bytes # <<>> /\ trans.bytes \in Seq(Data) /\ Len(trans.bytes) <= 2
      BY <1>3 DEF ByteSent, TransInv
    <2>3. /\ Tail(trans.bytes) \in Seq(Data) /\ Len(Tail(trans.bytes)) <= 2
          /\ (Len(trans.bytes) = 2) <=> Tail(trans.bytes) # <<>>
      <3>1. Tail(trans.bytes) \in Seq(Data) /\ Len(Tail(trans.bytes)) = Len(trans.bytes) - 1
        BY <2>2, HeadTailProperties
      <3>2. \A s \in Seq(Data) : Len(s) \in Nat /\ (s = <<>> <=> Len(s) = 0)
        BY EmptySeq, LenProperties
      <3>3. Len(trans.bytes) \in Nat /\ Len(trans.bytes) # 0
        BY <2>2, <3>2
      <3>4. Len(Tail(trans.bytes)) \in Nat
        BY <3>1, <3>2, Zenon
      <3>5. ((Len(trans.bytes) = 2) <=> Len(Tail(trans.bytes)) # 0) /\ Len(Tail(trans.bytes)) <= 2
        BY <2>2, <3>1, <3>3, <3>4, OneLess, Zenon
      <3>. QED  BY <3>1, <3>2, <3>5, Zenon
    <2>. QED  BY <2>1, <2>2, <2>3 DEF TransInv
  <1>4. CASE WriteCommand
    <2>1. \E txe \in BOOLEAN : trans' = Enabled(txe)
      BY <1>4 DEF WriteCommand, Command
    <2>. QED  BY <2>1, EnabledEffect
  <1>5. CASE Reset
    <2>1. trans' = Enabled(FALSE)
      BY <1>5 DEF Reset, Command
    <2>. QED  BY <2>1, EnabledEffect
  <1>6. CASE Plug \/ Unplug \/ CloseSocket \/ Abort \/ Join \/ NetPut \/ DeliverEvent
             \/ CharacterEnds \/ CommandSignals \/ ReadTrans
    BY <1>6, <1>1 DEF Plug, Unplug, CloseSocket, Abort, Join, NetPut, DeliverEvent,
                      CharacterEnds, CommandSignals, ReadTrans, transVars
  <1>7. CASE Run
    BY <1>7, <1>1 DEF Run, LoopTop, PollReturns, Recv, RecvFails, Forget, Push, Distribute,
                      mainVars, transVars
  <1>8. CASE Far \/ UNCHANGED vars
    BY <1>8, <1>1 DEF Far, FarSends, FarLine, FarHangsUp, vars, mainVars, transVars
  <1>. QED  BY <1>2, <1>3, <1>4, <1>5, <1>6, <1>7, <1>8 DEF Next, Main

---------------------------------------------------------------------------
\* The parser, whose state after some bytes is defined by recursion on them.

\* Induction over the numbers, for a set of them: the least one that is not in
\* it cannot be.
LEMMA AllNumbers ==
    ASSUME NEW S, 0 \in S, \A n \in Nat : n \in S => n + 1 \in S
    PROVE  \A n \in Nat : n \in S
  <1>. DEFINE R == OpToRel(<, Nat)
              Rest == {n \in Nat : n \notin S}
  <1>1. IsWellFoundedOn(R, Nat)
    BY NatLessThanWellFounded
  <1>2. \A x, y \in Nat : x < y => <<x, y>> \in R
    BY DEF OpToRel
  <1>. HIDE DEF R
  <1>3. SUFFICES ASSUME Rest # {} PROVE FALSE
    OBVIOUS
  <1>4. PICK x \in Rest : \A y \in Rest : ~ (<<y, x>> \in R)
    BY <1>1, <1>3, WFMin
  <1>5. x \in Nat /\ x # 0 /\ x \notin S
    OBVIOUS
  <1>6. x - 1 \in Nat /\ x - 1 < x /\ (x - 1) + 1 = x
    BY <1>5
  <1>7. x - 1 \notin S
    BY <1>5, <1>6
  <1>. QED  BY <1>2, <1>4, <1>5, <1>6, <1>7

\* f has the states of a parser, that starts as s, before and after n bytes.
IsCourse(ip232, s, bytes, n, f) ==
    f = [i \in 0..n |-> IF i = 0 THEN s ELSE Feed(ip232, f[i - 1], bytes[i])]

LEMMA CourseExists ==
    ASSUME NEW ip232, NEW s, NEW bytes
    PROVE  \A n \in Nat : \E f : IsCourse(ip232, s, bytes, n, f)
  <1>. DEFINE S == {n \in Nat : \E f : IsCourse(ip232, s, bytes, n, f)}
  <1>1. 0 \in S
    <2>1. IsCourse(ip232, s, bytes, 0, [i \in 0..0 |-> s])
      BY DEF IsCourse
    <2>. QED  BY <2>1
  <1>2. ASSUME NEW n \in Nat, n \in S PROVE n + 1 \in S
    <2>1. PICK f : IsCourse(ip232, s, bytes, n, f)
      BY <1>2
    <2>. DEFINE g == [i \in 0..(n + 1) |-> IF i = n + 1 THEN Feed(ip232, f[n], bytes[n + 1])
                                           ELSE f[i]]
    <2>2. \A i \in 0..(n + 1) : i # n + 1 => i \in 0..n
      OBVIOUS
    <2>3. ASSUME NEW i \in 0..(n + 1)
          PROVE  g[i] = IF i = 0 THEN s ELSE Feed(ip232, g[i - 1], bytes[i])
      <3>1. CASE i = n + 1
        <4>1. i # 0 /\ i - 1 = n /\ n \in 0..(n + 1) /\ n # n + 1
          BY <3>1
        <4>. QED  BY <3>1, <4>1
      <3>2. CASE i # n + 1
        <4>1. i \in 0..n
          BY <2>2, <3>2
        <4>2. f[i] = IF i = 0 THEN s ELSE Feed(ip232, f[i - 1], bytes[i])
          BY <2>1, <4>1 DEF IsCourse
        <4>3. i # 0 => i - 1 \in 0..(n + 1) /\ i - 1 # n + 1
          BY <4>1
        <4>. QED  BY <3>2, <4>1, <4>2, <4>3
      <3>. QED  BY <3>1, <3>2
    <2>4. g = [i \in 0..(n + 1) |-> g[i]]
      OBVIOUS
    <2>. HIDE DEF g
    <2>5. IsCourse(ip232, s, bytes, n + 1, g)
      BY <2>3, <2>4 DEF IsCourse
    <2>. QED  BY <2>5
  <1>. HIDE DEF S
  <1>3. \A n \in Nat : n \in S
    BY <1>1, <1>2, AllNumbers
  <1>. QED  BY <1>3 DEF S

\* The first state, and how each one follows from the one before.
Follows(ip232, s, bytes, n, f) ==
    /\ f[0] = s
    /\ \A i \in Nat : i < n => f[i + 1] = Feed(ip232, f[i], bytes[i + 1])

LEMMA CourseFollows ==
    ASSUME NEW ip232, NEW s, NEW bytes, NEW n \in Nat, NEW f, IsCourse(ip232, s, bytes, n, f)
    PROVE  Follows(ip232, s, bytes, n, f)
  <1>1. 0 \in 0..n
    OBVIOUS
  <1>2. f[0] = s
    BY <1>1 DEF IsCourse
  <1>3. ASSUME NEW i \in Nat, i < n PROVE f[i + 1] = Feed(ip232, f[i], bytes[i + 1])
    <2>1. i + 1 \in 0..n /\ i + 1 # 0 /\ (i + 1) - 1 = i
      BY <1>3
    <2>2. \A j \in 0..n : j # 0 => f[j] = Feed(ip232, f[j - 1], bytes[j])
      BY DEF IsCourse
    <2>. QED  BY <2>1, <2>2
  <1>. QED  BY <1>2, <1>3 DEF Follows

\* The last state is what the bytes are parsed to; any function that goes
\* through the states ends there.
LEMMA ParseIsLast ==
    ASSUME NEW ip232, NEW s, NEW bytes, NEW n \in Nat, Len(bytes) = n,
           NEW g, Follows(ip232, s, bytes, n, g)
    PROVE  Parse(ip232, s, bytes) = g[n]
  <1>1. PICK f : IsCourse(ip232, s, bytes, n, f) /\ Parse(ip232, s, bytes) = f[n]
    <2>. DEFINE f == CHOOSE f : IsCourse(ip232, s, bytes, n, f)
    <2>1. IsCourse(ip232, s, bytes, n, f)
      BY CourseExists
    <2>2. Parse(ip232, s, bytes) = f[n]
      BY DEF Parse, IsCourse
    <2>. QED  BY <2>1, <2>2
  <1>2. Parse(ip232, s, bytes) = f[n]
    BY <1>1
  <1>. DEFINE S == {i \in Nat : i <= n => f[i] = g[i]}
  <1>3. Follows(ip232, s, bytes, n, f)
    BY <1>1, CourseFollows
  <1>4. 0 \in S
    BY <1>3 DEF Follows
  <1>5. ASSUME NEW i \in Nat, i \in S PROVE i + 1 \in S
    BY <1>3, <1>5 DEF Follows
  <1>. HIDE DEF S
  <1>6. n \in S
    BY <1>4, <1>5, AllNumbers
  <1>. QED  BY <1>2, <1>6 DEF S

\* The states themselves, to say something of each.
LEMMA ParseHasCourse ==
    ASSUME NEW ip232, NEW s, NEW bytes, Len(bytes) \in Nat
    PROVE  \E f : /\ Follows(ip232, s, bytes, Len(bytes), f)
                  /\ Parse(ip232, s, bytes) = f[Len(bytes)]
  <1>1. PICK f : IsCourse(ip232, s, bytes, Len(bytes), f)
    BY CourseExists
  <1>2. Follows(ip232, s, bytes, Len(bytes), f)
    BY <1>1, CourseFollows
  <1>3. Parse(ip232, s, bytes) = f[Len(bytes)]
    BY <1>2, ParseIsLast
  <1>. QED  BY <1>2, <1>3

Byte == 0..255
ByteParser == [magic : BOOLEAN, line : BOOLEAN, data : Seq(Byte)]

\* No bytes change nothing.
LEMMA ParseEmpty ==
    ASSUME NEW ip232, NEW s
    PROVE  Parse(ip232, s, <<>>) = s
  <1>1. Len(<<>>) \in Nat /\ Len(<<>>) = 0
    OBVIOUS
  <1>2. PICK f : Follows(ip232, s, <<>>, Len(<<>>), f) /\ Parse(ip232, s, <<>>) = f[Len(<<>>)]
    BY <1>1, ParseHasCourse
  <1>. QED  BY <1>1, <1>2 DEF Follows

\* One byte more is one step more.
LEMMA ParseAppend ==
    ASSUME NEW ip232, NEW s, NEW bytes \in Seq(Byte), NEW b \in Byte
    PROVE  Parse(ip232, s, Append(bytes, b)) = Feed(ip232, Parse(ip232, s, bytes), b)
  <1>. DEFINE more == Append(bytes, b)
  <1>1. Len(more) = Len(bytes) + 1 /\ Len(bytes) \in Nat /\ Len(more) \in Nat
    OBVIOUS
  <1>2. PICK f : Follows(ip232, s, more, Len(more), f) /\ Parse(ip232, s, more) = f[Len(more)]
    <2>. HIDE DEF more
    <2>. QED  BY <1>1, ParseHasCourse
  <1>3. ASSUME NEW i \in Nat, i < Len(bytes) PROVE more[i + 1] = bytes[i + 1]
    BY <1>3
  <1>4. more[Len(bytes) + 1] = b
    OBVIOUS
  <1>. HIDE DEF more
  <1>5. Follows(ip232, s, bytes, Len(bytes), f)
    BY <1>1, <1>2, <1>3 DEF Follows
  <1>6. Parse(ip232, s, bytes) = f[Len(bytes)]
    BY <1>1, <1>5, ParseIsLast
  <1>7. f[Len(bytes) + 1] = Feed(ip232, f[Len(bytes)], b)
    BY <1>1, <1>2, <1>4 DEF Follows
  <1>. QED  BY <1>1, <1>2, <1>6, <1>7 DEF more

\* The first byte can be taken first.
LEMMA ParseHead ==
    ASSUME NEW ip232, NEW s, NEW bytes \in Seq(Byte), bytes # <<>>
    PROVE  Parse(ip232, s, bytes) = Parse(ip232, Feed(ip232, s, Head(bytes)), Tail(bytes))
  <1>. DEFINE rest == Tail(bytes)
  <1>1. Len(bytes) = Len(rest) + 1 /\ Len(rest) \in Nat /\ Len(bytes) \in Nat
    OBVIOUS
  <1>2. PICK f : Follows(ip232, s, bytes, Len(bytes), f) /\ Parse(ip232, s, bytes) = f[Len(bytes)]
    BY <1>1, ParseHasCourse
  <1>. DEFINE g == [i \in Nat |-> f[i + 1]]
  <1>3. ASSUME NEW i \in Nat, i < Len(rest) PROVE rest[i + 1] = bytes[(i + 1) + 1]
    BY <1>3
  <1>4. bytes[1] = Head(bytes)
    OBVIOUS
  <1>. HIDE DEF rest
  <1>5. g[0] = Feed(ip232, s, Head(bytes))
    <2>1. f[0 + 1] = Feed(ip232, f[0], bytes[0 + 1]) /\ f[0] = s
      BY <1>1, <1>2 DEF Follows
    <2>. QED  BY <1>4, <2>1
  <1>6. ASSUME NEW i \in Nat, i < Len(rest) PROVE g[i + 1] = Feed(ip232, g[i], rest[i + 1])
    <2>1. i + 1 \in Nat /\ i + 1 < Len(bytes)
      BY <1>1, <1>6
    <2>2. f[(i + 1) + 1] = Feed(ip232, f[i + 1], bytes[(i + 1) + 1])
      BY <1>2, <2>1 DEF Follows
    <2>. QED  BY <1>3, <1>6, <2>1, <2>2
  <1>7. g[Len(rest)] = f[Len(bytes)]
    BY <1>1
  <1>. HIDE DEF g
  <1>8. Follows(ip232, Feed(ip232, s, Head(bytes)), rest, Len(rest), g)
    BY <1>5, <1>6 DEF Follows
  <1>9. Parse(ip232, Feed(ip232, s, Head(bytes)), rest) = g[Len(rest)]
    BY <1>1, <1>8, ParseIsLast
  <1>. QED  BY <1>2, <1>7, <1>9 DEF rest

LEMMA FeedType ==
    ASSUME NEW ip232, NEW s \in ByteParser, NEW b \in Byte
    PROVE  Feed(ip232, s, b) \in ByteParser
  <1>1. Append(s.data, b) \in Seq(Byte)
    BY DEF ByteParser
  <1>. QED  BY <1>1 DEF Feed, ByteParser

\* What was there before the bytes stays in front of what they are parsed to.
Behind(d, s) == [magic |-> s.magic, line |-> s.line, data |-> d \o s.data]

LEMMA FeedBehind ==
    ASSUME NEW ip232, NEW s \in ByteParser, NEW b \in Byte, NEW d \in Seq(Byte)
    PROVE  Feed(ip232, Behind(d, s), b) = Behind(d, Feed(ip232, s, b))
  <1>1. s.data \in Seq(Byte)
    BY DEF ByteParser
  <1>2. Append(d \o s.data, b) = d \o Append(s.data, b)
    BY <1>1
  <1>3. s = [magic |-> s.magic, line |-> s.line, data |-> s.data]
    BY DEF ByteParser
  <1>4. ~ip232 \/ ip232
    OBVIOUS
  <1>. QED  BY <1>2, <1>3, <1>4 DEF Feed, Behind, ByteParser

LEMMA ParseType ==
    ASSUME NEW ip232, NEW s \in ByteParser, NEW bytes \in Seq(Byte), NEW d \in Seq(Byte)
    PROVE  /\ Parse(ip232, s, bytes) \in ByteParser
           /\ Parse(ip232, Behind(d, s), bytes) = Behind(d, Parse(ip232, s, bytes))
  <1>. DEFINE n == Len(bytes)
  <1>1. n \in Nat /\ \A i \in Nat : i < n => bytes[i + 1] \in Byte
    OBVIOUS
  <1>2. PICK f : Follows(ip232, s, bytes, n, f) /\ Parse(ip232, s, bytes) = f[n]
    BY <1>1, ParseHasCourse
  <1>. HIDE DEF n
  <1>. DEFINE S == {i \in Nat : i <= n => f[i] \in ByteParser}
              g == [i \in Nat |-> Behind(d, f[i])]
  <1>3. 0 \in S
    BY <1>2 DEF Follows
  <1>4. ASSUME NEW i \in Nat, i \in S PROVE i + 1 \in S
    <2>1. SUFFICES ASSUME i + 1 <= n PROVE f[i + 1] \in ByteParser
      OBVIOUS
    <2>2. i < n /\ i <= n
      BY <1>1, <2>1
    <2>. QED  BY <1>1, <1>2, <1>4, <2>2, FeedType DEF Follows
  <1>. HIDE DEF S
  <1>5. \A i \in Nat : i \in S
    BY <1>3, <1>4, AllNumbers
  <1>6. \A i \in Nat : i <= n => f[i] \in ByteParser
    BY <1>5 DEF S
  <1>7. g[0] = Behind(d, s)
    BY <1>2 DEF Follows
  <1>8. ASSUME NEW i \in Nat, i < n PROVE g[i + 1] = Feed(ip232, g[i], bytes[i + 1])
    <2>1. f[i] \in ByteParser /\ bytes[i + 1] \in Byte /\ f[i + 1] = Feed(ip232, f[i], bytes[i + 1])
      BY <1>1, <1>2, <1>6, <1>8 DEF Follows
    <2>2. Feed(ip232, Behind(d, f[i]), bytes[i + 1]) = Behind(d, f[i + 1])
      BY <2>1, FeedBehind
    <2>. QED  BY <2>2
  <1>9. g[n] = Behind(d, f[n])
    BY <1>1
  <1>. HIDE DEF g
  <1>10. Follows(ip232, Behind(d, s), bytes, n, g)
    BY <1>7, <1>8 DEF Follows
  <1>11. Parse(ip232, Behind(d, s), bytes) = g[n]
    BY <1>1, <1>10, ParseIsLast DEF n
  <1>12. f[n] \in ByteParser
    BY <1>1, <1>6
  <1>. QED  BY <1>2, <1>9, <1>11, <1>12

---------------------------------------------------------------------------
LEMMA SentBytes ==
    ASSUME NEW b \in Byte, NEW high \in BOOLEAN
    PROVE  DataBytes(b) \in Seq(Byte) /\ LineBytes(high) \in Seq(Byte)
  <1>1. Magic \in Byte /\ Level(high) \in Byte
    BY DEF Magic, Level, Byte
  <1>. QED  BY <1>1 DEF DataBytes, LineBytes

\* A byte of data, as it is sent, is one byte of data for the parser.
LEMMA ParseData ==
    ASSUME NEW s \in ByteParser, NEW bytes \in Seq(Byte), NEW b \in Byte,
           ~Parse(dev.ip232, s, bytes).magic
    PROVE  LET before == Parse(dev.ip232, s, bytes)
           IN  Parse(dev.ip232, s, bytes \o DataBytes(b)) =
                   [before EXCEPT !.data = Append(@, b)]
  <1>. DEFINE before == Parse(dev.ip232, s, bytes)
  <1>0. before \in ByteParser /\ ~before.magic
    <2>1. <<>> \in Seq(Byte)
      OBVIOUS
    <2>. QED  BY <2>1, ParseType
  <1>1. Magic \in Byte
    BY DEF Magic, Byte
  <1>2. CASE dev.ip232 /\ b = Magic
    <2>1. DataBytes(b) = <<Magic, Magic>>
      BY <1>2 DEF DataBytes
    <2>2. bytes \o <<Magic, Magic>> = Append(Append(bytes, Magic), Magic) /\ Append(bytes, Magic) \in Seq(Byte)
      BY <1>1
    <2>3. Parse(dev.ip232, s, bytes \o DataBytes(b)) =
              Feed(dev.ip232, Feed(dev.ip232, before, Magic), Magic)
      <3>1. Parse(dev.ip232, s, Append(bytes, Magic)) = Feed(dev.ip232, before, Magic)
        BY <1>1, ParseAppend
      <3>2. Parse(dev.ip232, s, Append(Append(bytes, Magic), Magic)) =
                Feed(dev.ip232, Parse(dev.ip232, s, Append(bytes, Magic)), Magic)
        BY <1>1, <2>2, ParseAppend
      <3>. QED  BY <2>1, <2>2, <3>1, <3>2
    <2>. HIDE DEF before
    <2>4. Feed(dev.ip232, before, Magic) = [before EXCEPT !.magic = TRUE]
      BY <1>0, <1>2 DEF Feed
    <2>5. Feed(dev.ip232, Feed(dev.ip232, before, Magic), Magic) = [before EXCEPT !.data = Append(@, b)]
      BY <1>0, <1>2, <2>4 DEF Feed, ByteParser
    <2>. QED  BY <2>3, <2>5 DEF before
  <1>3. CASE ~(dev.ip232 /\ b = Magic)
    <2>1. DataBytes(b) = <<b>>
      BY <1>3 DEF DataBytes
    <2>2. bytes \o <<b>> = Append(bytes, b)
      OBVIOUS
    <2>3. Parse(dev.ip232, s, bytes \o DataBytes(b)) = Feed(dev.ip232, before, b)
      <3>1. Parse(dev.ip232, s, Append(bytes, b)) = Feed(dev.ip232, before, b)
        BY ParseAppend
      <3>. QED  BY <2>1, <2>2, <3>1
    <2>. HIDE DEF before
    <2>4. Feed(dev.ip232, before, b) = [before EXCEPT !.data = Append(@, b)]
      BY <1>0, <1>3 DEF Feed, ByteParser
    <2>. QED  BY <2>1, <2>3, <2>4 DEF before
  <1>. QED  BY <1>2, <1>3

\* The bytes for a line are that line for the parser, or nothing.
LEMMA ParseLine ==
    ASSUME NEW s \in ByteParser, NEW bytes \in Seq(Byte), NEW high \in BOOLEAN,
           ~Parse(dev.ip232, s, bytes).magic
    PROVE  LET before == Parse(dev.ip232, s, bytes)
           IN  Parse(dev.ip232, s, bytes \o LineBytes(high)) =
                   IF dev.ip232 THEN [before EXCEPT !.line = high] ELSE before
  <1>. DEFINE before == Parse(dev.ip232, s, bytes)
  <1>0. before \in ByteParser /\ ~before.magic
    <2>1. <<>> \in Seq(Byte)
      OBVIOUS
    <2>. QED  BY <2>1, ParseType
  <1>1. /\ Magic \in Byte /\ Level(high) \in Byte /\ Level(high) # Magic
        /\ (Level(high) % 2 = 1) <=> high
    BY DEF Magic, Level, Byte
  <1>2. CASE dev.ip232
    <2>1. LineBytes(high) = <<Magic, Level(high)>>
      BY <1>1, <1>2 DEF LineBytes
    <2>2. /\ bytes \o <<Magic, Level(high)>> = Append(Append(bytes, Magic), Level(high))
          /\ Append(bytes, Magic) \in Seq(Byte)
      BY <1>1
    <2>3. Parse(dev.ip232, s, bytes \o LineBytes(high)) =
              Feed(dev.ip232, Feed(dev.ip232, before, Magic), Level(high))
      <3>1. Parse(dev.ip232, s, Append(bytes, Magic)) = Feed(dev.ip232, before, Magic)
        BY <1>1, ParseAppend
      <3>2. Parse(dev.ip232, s, Append(Append(bytes, Magic), Level(high))) =
                Feed(dev.ip232, Parse(dev.ip232, s, Append(bytes, Magic)), Level(high))
        BY <1>1, <2>2, ParseAppend
      <3>. QED  BY <2>1, <2>2, <3>1, <3>2
    <2>. HIDE DEF before
    <2>4. Feed(dev.ip232, before, Magic) = [before EXCEPT !.magic = TRUE]
      BY <1>0, <1>2 DEF Feed
    <2>5. Feed(dev.ip232, [before EXCEPT !.magic = TRUE], Level(high)) = [before EXCEPT !.line = high]
      BY <1>0, <1>1, <1>2 DEF Feed, ByteParser
    <2>. QED  BY <1>2, <2>1, <2>3, <2>4, <2>5 DEF before
  <1>3. CASE ~dev.ip232
    <2>1. LineBytes(high) = <<>> /\ bytes \o <<>> = bytes
      BY <1>3 DEF LineBytes
    <2>. QED  BY <1>3, <2>1
  <1>. QED  BY <1>2, <1>3

---------------------------------------------------------------------------
\* What the streams are carried by: the types, and what becomes of the bytes
\* when the connection ends.
StreamTypes ==
    /\ rloc \in [magic : BOOLEAN, b : Byte] /\ DCD \in BOOLEAN
    /\ far \in [sends : Nat, dcd : BOOLEAN,
                heard : [magic : {FALSE}, line : BOOLEAN, data : {<<>>}]]
    /\ wire \in Seq(Byte) /\ put \in Seq(Byte) /\ queue \in Seq(Byte)

\* A socket that is not open has nothing to read, and belongs to no one else.
ConnInv ==
    /\ conn \in {"none", "open", "hungup", "closed"}
    /\ sockfd => dev.plugged
    /\ conn \in {"open", "hungup"} => sockfd
    /\ conn \in {"none", "closed"} => wire = <<>>
    /\ rpc = "forget" => conn \in {"none", "closed"}
    /\ mpc \in {"abort", "join"} => ~sockfd
    /\ mpc \notin {"put", "tell", "bye"} => put = <<>>

\* The two halves of StreamsAreUnderstood.
InStream  == Parse(dev.ip232, Reading, wire)
OutStream == Parse(dev.ip232, far.heard, put)

InUnderstood ==
    /\ owed = queue \o Held \o InStream.data
    /\ sockfd => ~InStream.magic /\ InStream.line = far.dcd

OutUnderstood ==
    /\ unheard = OutStream.data \o trans.bytes /\ ~OutStream.magic
    /\ sockfd /\ conn = "open" /\ mpc \in Linked /\ dev.ip232 =>
         OutStream.line = dev.DTR

StreamInv == SerialInv /\ TransInv /\ StreamTypes /\ ConnInv /\ InUnderstood /\ OutUnderstood

LEMMA DataIsByte == Data \subseteq Byte
  BY ConstantsAssumption DEF Byte

\* The streams as the parsers have them.
LEMMA StreamsType ==
    ASSUME StreamTypes
    PROVE  /\ Reading \in ByteParser /\ InStream \in ByteParser
           /\ far.heard \in ByteParser /\ OutStream \in ByteParser
           /\ Held \in Seq(Byte)
  <1>1. <<>> \in Seq(Byte)
    OBVIOUS
  <1>2. Reading \in ByteParser /\ far.heard \in ByteParser
    BY <1>1 DEF StreamTypes, Reading, ByteParser
  <1>3. wire \in Seq(Byte) /\ put \in Seq(Byte)
    BY DEF StreamTypes
  <1>4. Held \in Seq(Byte)
    BY DEF StreamTypes, Held
  <1>. QED  BY <1>1, <1>2, <1>3, <1>4, ParseType DEF InStream, OutStream

\* Nothing to parse: the parsers are where they were.
LEMMA NothingToParse ==
    /\ wire = <<>> => InStream = Reading /\ InStream.data = <<>>
    /\ put = <<>> => OutStream = far.heard
  BY ParseEmpty DEF InStream, OutStream, Reading

---------------------------------------------------------------------------
LEMMA InitStream == Init => StreamInv
  <1>. SUFFICES ASSUME Init PROVE StreamInv
    OBVIOUS
  <1>1. SerialInv /\ TransInv
    BY InitSerial, InitTrans
  <1>2. <<>> \in Seq(Byte) /\ 0 \in Byte
    BY DEF Byte
  <1>3. StreamTypes
    BY <1>2 DEF Init, StreamTypes, NewParser
  <1>4. ConnInv
    BY DEF Init, ConnInv
  <1>5. InUnderstood
    <2>1. InStream.data = <<>> /\ Held = <<>> /\ owed = <<>> /\ queue = <<>> /\ ~sockfd
      BY NothingToParse DEF Init, Held
    <2>. QED  BY <2>1 DEF InUnderstood
  <1>6. OutUnderstood
    <2>1. OutStream = NewParser /\ unheard = <<>> /\ trans.bytes = <<>> /\ ~sockfd
      BY NothingToParse DEF Init, NewTrans
    <2>2. OutStream.data = <<>> /\ ~OutStream.magic /\ <<>> = <<>> \o <<>>
      BY <2>1 DEF NewParser
    <2>. QED  BY <2>1, <2>2 DEF OutUnderstood
  <1>. QED  BY <1>1, <1>3, <1>4, <1>5, <1>6 DEF StreamInv

\* Joining sequences of bytes.
LEMMA Joined ==
    /\ \A s, t, u \in Seq(Byte) : (s \o t) \o u = s \o (t \o u)
    /\ \A s, t \in Seq(Byte), b \in Byte : Append(s \o t, b) = s \o Append(t, b)
  <1>1. \A s, t, u \in Seq(Byte) : (s \o t) \o u = s \o (t \o u)
    BY ConcatAssociative
  <1>2. ASSUME NEW s \in Seq(Byte), NEW t \in Seq(Byte), NEW b \in Byte
        PROVE  Append(s \o t, b) = s \o Append(t, b)
    <2>1. s \o t \in Seq(Byte) /\ <<b>> \in Seq(Byte)
      OBVIOUS
    <2>2. Append(s \o t, b) = (s \o t) \o <<b>> /\ Append(t, b) = t \o <<b>>
      BY <2>1, AppendIsConcat
    <2>. QED  BY <1>1, <2>1, <2>2
  <1>. QED  BY <1>1, <1>2

\* What signal() does to the bytes: those it takes are no longer owed.
LEMMA SignalOwes ==
    ASSUME NEW u, Signal(u), NEW rest \in Seq(Byte), queue \in Seq(Byte), owed = queue \o rest
    PROVE  queue' \in Seq(Byte) /\ owed' = queue' \o rest
  <1>1. CASE dev.plugged /\ ~u.rxe
    <2>1. queue' = <<>> /\ owed' = SubSeq(owed, Len(queue) + 1, Len(owed))
      BY <1>1 DEF Signal
    <2>2. SubSeq(queue \o rest, Len(queue) + 1, Len(queue \o rest)) = rest
      <3>1. Len(queue \o rest) = Len(queue) + Len(rest) /\ Len(queue) \in Nat /\ Len(rest) \in Nat
        OBVIOUS
      <3>. DEFINE t == SubSeq(queue \o rest, Len(queue) + 1, Len(queue \o rest))
      <3>2. t \in Seq(Byte) /\ Len(t) = Len(rest)
        BY <3>1
      <3>3. ASSUME NEW i \in 1..Len(rest) PROVE t[i] = rest[i]
        BY <3>1
      <3>. HIDE DEF t
      <3>4. t = rest
        BY <3>2, <3>3, SeqEqual
      <3>. QED  BY <3>4 DEF t
    <2>. QED  BY <2>1, <2>2
  <1>2. CASE ~(dev.plugged /\ ~u.rxe) /\ dev.plugged /\ Ready(u) /\ dev'.RTS /\ queue # <<>>
    <2>1. queue' = Tail(queue) /\ owed' = Tail(owed)
      BY <1>2 DEF Signal
    <2>2. Tail(queue \o rest) = Tail(queue) \o rest /\ Tail(queue) \in Seq(Byte)
      BY <1>2
    <2>. QED  BY <2>1, <2>2
  <1>3. CASE ~(dev.plugged /\ ~u.rxe) /\ ~(dev.plugged /\ Ready(u) /\ dev'.RTS /\ queue # <<>>)
    BY <1>3 DEF Signal
  <1>. QED  BY <1>1, <1>2, <1>3

\* Closing: what was not read is gone, and no longer owed.
LEMMA CloseEffect ==
    ASSUME StreamTypes, ConnInv, InUnderstood, Close,
           UNCHANGED <<rloc, rpc, DCD, queue, far, dev>>
    PROVE  /\ wire' \in Seq(Byte) /\ InUnderstood' /\ ~sockfd'
           /\ conn' \in {"none", "closed"} /\ wire' = <<>>
  <1>1. ~sockfd'
    BY DEF Close
  <1>2. CASE sockfd
    <2>1. conn' = "closed" /\ wire' = <<>> /\ owed' = queue \o Held
      BY <1>2 DEF Close
    <2>2. InStream'.data = <<>>
      BY <2>1, ParseEmpty DEF InStream, Reading
    <2>3. Held' = Held /\ Held \in Seq(Byte) /\ queue \in Seq(Byte)
      BY StreamsType DEF Held, StreamTypes
    <2>. QED  BY <1>1, <2>1, <2>2, <2>3 DEF InUnderstood
  <1>3. CASE ~sockfd
    <2>1. conn' = conn /\ wire' = wire /\ owed' = owed
      BY <1>3 DEF Close
    <2>2. InStream' = InStream /\ Held' = Held
      BY <2>1 DEF InStream, Reading, Held
    <2>3. conn \in {"none", "closed"} /\ wire = <<>>
      BY <1>3 DEF ConnInv
    <2>. QED  BY <1>1, <2>1, <2>2, <2>3 DEF InUnderstood, StreamTypes
  <1>. QED  BY <1>2, <1>3

\* signal(), wherever it is called: the reader and the stream stay.
LEMMA SignalEffectOnStream ==
    ASSUME StreamTypes, InUnderstood, NEW u, Signal(u),
           UNCHANGED <<rloc, rpc, DCD, wire, sockfd, far>>, dev'.ip232 = dev.ip232
    PROVE  queue' \in Seq(Byte) /\ InUnderstood'
  <1>1. InStream' = InStream /\ Held' = Held /\ far'.dcd = far.dcd /\ sockfd' = sockfd
    BY DEF InStream, Reading, Held
  <1>. DEFINE rest == Held \o InStream.data
  <1>2. /\ queue \in Seq(Byte) /\ rest \in Seq(Byte) /\ owed = queue \o rest
        /\ \A q \in Seq(Byte) : q \o Held \o InStream.data = q \o rest
    <2>1. queue \in Seq(Byte) /\ Held \in Seq(Byte) /\ InStream.data \in Seq(Byte)
      BY StreamsType DEF StreamTypes, ByteParser
    <2>2. \A q \in Seq(Byte) : (q \o Held) \o InStream.data = q \o rest
      BY <2>1, Joined
    <2>3. rest \in Seq(Byte)
      BY <2>1
    <2>. HIDE DEF rest
    <2>. QED  BY <2>1, <2>2, <2>3 DEF InUnderstood
  <1>. HIDE DEF rest
  <1>3. queue' \in Seq(Byte) /\ owed' = queue' \o rest
    BY <1>2, SignalOwes
  <1>4. owed' = queue' \o Held' \o InStream'.data
    BY <1>1, <1>2, <1>3
  <1>. QED  BY <1>1, <1>3, <1>4 DEF InUnderstood

\* What no step of the far end and of the reader changes, and the other way
\* round: each half of the streams has its own variables.
LEMMA InSame ==
    ASSUME InUnderstood, UNCHANGED <<queue, owed, rloc, DCD, wire, sockfd>>,
           Held' = Held, far'.dcd = far.dcd, dev'.ip232 = dev.ip232
    PROVE  InUnderstood'
  <1>1. InStream' = InStream
    BY DEF InStream, Reading
  <1>. QED  BY <1>1 DEF InUnderstood

LEMMA OutSame ==
    ASSUME OutUnderstood, UNCHANGED <<unheard, put>>, trans'.bytes = trans.bytes,
           far'.heard = far.heard, dev'.ip232 = dev.ip232,
           sockfd' /\ conn' = "open" /\ mpc' \in Linked /\ dev'.ip232 =>
             /\ sockfd /\ conn = "open" /\ mpc \in Linked
             /\ dev'.DTR = dev.DTR
    PROVE  OutUnderstood'
  <1>1. OutStream' = OutStream
    BY DEF OutStream
  <1>. QED  BY <1>1 DEF OutUnderstood

\* Between its own steps the emulation thread has told all there was to tell.
LEMMA NothingToPut ==
    ASSUME StreamTypes, ConnInv, OutUnderstood, TransInv, mpc \notin {"put", "tell", "bye"}
    PROVE  /\ put = <<>> /\ OutStream = far.heard
           /\ unheard = trans.bytes /\ far.heard.data = <<>> /\ ~far.heard.magic
  <1>1. put = <<>> /\ OutStream = far.heard
    BY NothingToParse DEF ConnInv
  <1>2. far.heard.data = <<>> /\ ~far.heard.magic
    BY DEF StreamTypes
  <1>3. \A s \in Seq(Data) : <<>> \o s = s
    OBVIOUS
  <1>4. unheard = trans.bytes
    BY <1>1, <1>2, <1>3 DEF OutUnderstood, TransInv
  <1>. QED  BY <1>1, <1>2, <1>4

\* plugHelper(): the stream starts anew, what is queued is still owed.
LEMMA PlugIn ==
    ASSUME StreamInv, Plug
    PROVE  InUnderstood'
  <1>1. /\ wire' = <<>> /\ DCD' = FALSE /\ rloc'.magic = FALSE /\ rpc' = "top"
        /\ far'.dcd = FALSE /\ queue' = queue /\ owed' = owed
        /\ mpc = "idle" /\ ~dev.plugged
    BY DEF Plug, StreamInv, StreamTypes
  <1>2. rpc = "ended" /\ ~sockfd /\ conn \in {"none", "closed"} /\ wire = <<>>
    BY <1>1 DEF StreamInv, SerialInv, ReceiverOK, ConnInv
  <1>3. Held = <<>> /\ InStream.data = <<>> /\ Held' = <<>>
    BY <1>1, <1>2, NothingToParse DEF Held
  <1>4. InStream' = [magic |-> FALSE, line |-> FALSE, data |-> <<>>]
    BY <1>1, ParseEmpty DEF InStream, Reading
  <1>. QED  BY <1>1, <1>3, <1>4 DEF InUnderstood, StreamInv

\* signalEvent(), plugged in or not.
LEMMA DeliverEventIn ==
    ASSUME StreamInv, DeliverEvent
    PROVE  queue' \in Seq(Byte) /\ InUnderstood'
  <1>1. UNCHANGED <<rloc, rpc, DCD, wire, sockfd, far, dev, conn, put, mpc>>
    BY DEF DeliverEvent, readerVars
  <1>2. CASE dev.plugged
    <2>1. Signal(uart)
      BY <1>2 DEF DeliverEvent
    <2>. QED  BY <1>1, <2>1, SignalEffectOnStream DEF StreamInv
  <1>3. CASE ~dev.plugged
    <2>1. queue' = <<>> /\ owed' = <<>>
      BY <1>3 DEF DeliverEvent
    <2>2. rpc = "ended" /\ ~sockfd /\ conn \in {"none", "closed"} /\ wire = <<>>
      BY <1>3 DEF StreamInv, SerialInv, ReceiverOK, ConnInv
    <2>3. Held' = <<>> /\ ~sockfd'
      BY <1>1, <2>2 DEF Held
    <2>4. InStream' = InStream /\ InStream.data = <<>>
      BY <1>1, <2>2, NothingToParse DEF InStream, Reading
    <2>. QED  BY <2>1, <2>3, <2>4 DEF InUnderstood
  <1>. QED  BY <1>2, <1>3

\* A command, of writeCommand() or of reset(): only its signal touches the
\* queue.
LEMMA CommandIn ==
    ASSUME StreamInv, NEW u, NEW txe \in BOOLEAN, NEW rts \in BOOLEAN, NEW dtr \in BOOLEAN,
           NEW switched \in BOOLEAN, Command(u, txe, rts, dtr, switched)
    PROVE  queue' \in Seq(Byte) /\ InUnderstood'
  <1>1. UNCHANGED <<rloc, rpc, DCD, wire, sockfd, far, queue, owed>> /\ dev'.ip232 = dev.ip232
    BY DEF Command, readerVars, StreamInv, SerialInv, SerialTypes
  <1>2. Held' = Held
    BY <1>1 DEF Held
  <1>. QED  BY <1>1, <1>2, InSame DEF StreamInv, StreamTypes

LEMMA CommandSignalsIn ==
    ASSUME StreamInv, CommandSignals
    PROVE  queue' \in Seq(Byte) /\ InUnderstood'
  <1>1. Signal(uart) /\ UNCHANGED <<rloc, rpc, DCD, wire, sockfd, far, dev>>
    BY DEF CommandSignals, readerVars
  <1>. QED  BY <1>1, SignalEffectOnStream DEF StreamInv

\* The reader takes one byte of the stream.
LEMMA RecvIn ==
    ASSUME StreamInv, Recv
    PROVE  /\ rloc' \in [magic : BOOLEAN, b : Byte] /\ DCD' \in BOOLEAN
           /\ wire' \in Seq(Byte) /\ InUnderstood'
  <1>. DEFINE s == Feed(dev.ip232, Reading, Head(wire))
  <1>1. /\ wire' = Tail(wire) /\ DCD' = s.line /\ rpc = "recv" /\ sockfd /\ wire # <<>>
        /\ rpc' = IF s.data = <<>> THEN "top" ELSE "push"
        /\ rloc' = [magic |-> s.magic, b |-> IF s.data = <<>> THEN 0 ELSE Head(s.data)]
        /\ UNCHANGED <<queue, owed, sockfd, far, dev>>
    BY DEF Recv, mainVars
  <1>2. wire \in Seq(Byte) /\ Head(wire) \in Byte /\ Tail(wire) \in Seq(Byte)
    BY <1>1 DEF StreamInv, StreamTypes
  <1>3. Reading \in ByteParser /\ s \in ByteParser
    BY <1>2, StreamsType, FeedType DEF StreamInv
  <1>4. Reading.data = <<>> /\ (s.data = <<>> \/ s.data = <<Head(wire)>>)
    <2>1. Reading.data = <<>> /\ Append(<<>>, Head(wire)) = <<Head(wire)>>
      BY DEF Reading
    <2>2. Feed(dev.ip232, Reading, Head(wire)).data \in {Reading.data, Append(Reading.data, Head(wire))}
      BY DEF Feed, Reading
    <2>. QED  BY <2>1, <2>2
  <1>. HIDE DEF s
  <1>5. InStream = Parse(dev.ip232, s, Tail(wire))
    BY <1>1, <1>2, ParseHead DEF InStream, s
  <1>6. s.data \in Seq(Byte) /\ <<>> \in Seq(Byte)
    BY <1>3 DEF ByteParser
  <1>7. Reading' = [magic |-> s.magic, line |-> s.line, data |-> <<>>]
    BY <1>1 DEF Reading
  <1>8. Reading' \in ByteParser /\ s = Behind(s.data, Reading')
    <2>1. s = [magic |-> s.magic, line |-> s.line, data |-> s.data] /\ s.data = s.data \o <<>>
      BY <1>3, <1>6 DEF ByteParser
    <2>2. Reading' \in ByteParser
      BY <1>3, <1>6, <1>7 DEF ByteParser
    <2>. QED  BY <1>7, <2>1, <2>2 DEF Behind
  <1>9. InStream' = Parse(dev.ip232, Reading', Tail(wire))
    BY <1>1 DEF InStream
  <1>10. InStream = Behind(s.data, InStream')
    <2>. DEFINE r == [magic |-> s.magic, line |-> s.line, data |-> <<>>]
    <2>1. r = Reading' /\ r \in ByteParser
      BY <1>7, <1>8
    <2>. HIDE DEF r
    <2>2. Parse(dev.ip232, Behind(s.data, r), Tail(wire)) = Behind(s.data, Parse(dev.ip232, r, Tail(wire)))
      BY <1>2, <1>6, <2>1, ParseType
    <2>. QED  BY <1>5, <1>8, <1>9, <2>1, <2>2
  <1>11. Held = <<>> /\ Held' = s.data
    <2>1. CASE s.data = <<>>
      BY <1>1, <2>1 DEF Held
    <2>2. CASE s.data # <<>>
      <3>1. s.data = <<Head(wire)>> /\ Head(s.data) = Head(wire)
        BY <1>4, <2>2
      <3>. QED  BY <1>1, <2>2, <3>1 DEF Held
    <2>. QED  BY <2>1, <2>2
  <1>12. InStream.data = s.data \o InStream'.data
    BY <1>10 DEF Behind
  <1>13. owed' = queue' \o Held' \o InStream'.data
    <2>1. queue \in Seq(Byte) /\ InStream'.data \in Seq(Byte)
      BY <1>2, <1>6, <1>8, <1>9, ParseType DEF StreamInv, StreamTypes, ByteParser
    <2>2. owed = queue \o (s.data \o InStream'.data)
      BY <1>11, <1>12, <2>1 DEF StreamInv, InUnderstood
    <2>3. (queue \o s.data) \o InStream'.data = queue \o (s.data \o InStream'.data)
      BY <1>6, <2>1, Joined
    <2>. QED  BY <1>1, <1>11, <2>2, <2>3
  <1>14. InStream'.magic = InStream.magic /\ InStream'.line = InStream.line
    BY <1>10 DEF Behind
  <1>15. InUnderstood'
    BY <1>1, <1>13, <1>14 DEF StreamInv, InUnderstood
  <1>16. rloc' \in [magic : BOOLEAN, b : Byte] /\ DCD' \in BOOLEAN
    <2>1. 0 \in Byte /\ (s.data # <<>> => Head(s.data) \in Byte)
      <3>1. s.data # <<>> => Head(s.data) \in Byte
        BY <1>6
      <3>. QED  BY <3>1 DEF Byte
    <2>2. s.magic \in BOOLEAN /\ s.line \in BOOLEAN
      BY <1>3 DEF ByteParser
    <2>. QED  BY <1>1, <2>1, <2>2
  <1>. QED  BY <1>1, <1>2, <1>15, <1>16

\* The reader pushes the byte it holds.
LEMMA PushIn ==
    ASSUME StreamInv, Push
    PROVE  rloc' \in [magic : BOOLEAN, b : Byte] /\ queue' \in Seq(Byte) /\ InUnderstood'
  <1>1. /\ rpc = "push" /\ rpc' = "distribute" /\ queue' = Append(queue, rloc.b)
        /\ rloc' = [rloc EXCEPT !.b = 0]
        /\ UNCHANGED <<owed, DCD, wire, sockfd, far, dev>>
    BY DEF Push, Reader, mainVars
  <1>2. rloc \in [magic : BOOLEAN, b : Byte] /\ queue \in Seq(Byte) /\ 0 \in Byte
    BY DEF StreamInv, StreamTypes, Byte
  <1>3. Held = <<rloc.b>> /\ Held' = <<>>
    BY <1>1 DEF Held
  <1>4. queue \o Held = queue' /\ queue' \in Seq(Byte) /\ queue' = queue' \o <<>>
    BY <1>1, <1>2, <1>3
  <1>5. rloc'.magic = rloc.magic
    BY <1>1, <1>2
  <1>6. InStream' = InStream
    BY <1>1, <1>5 DEF InStream, Reading
  <1>7. rloc' \in [magic : BOOLEAN, b : Byte]
    BY <1>1, <1>2
  <1>8. owed' = queue' \o Held' \o InStream'.data
    BY <1>1, <1>3, <1>4, <1>6 DEF StreamInv, InUnderstood
  <1>9. InUnderstood'
    BY <1>1, <1>6, <1>8 DEF StreamInv, InUnderstood
  <1>. QED  BY <1>4, <1>7, <1>9

\* The other end sends.
LEMMA FarSendsIn ==
    ASSUME StreamInv, FarSends
    PROVE  wire' \in Seq(Byte) /\ InUnderstood'
  <1>1. PICK b \in Data : wire' = wire \o DataBytes(b) /\ owed' = Append(owed, b)
    BY DEF FarSends
  <1>2. /\ conn = "open" /\ far' = [far EXCEPT !.sends = @ + 1]
        /\ UNCHANGED <<queue, rloc, rpc, DCD, sockfd, dev>>
    BY DEF FarSends, readerVars, mainVars
  <1>3. sockfd /\ ~InStream.magic /\ InStream.line = far.dcd
    BY <1>2 DEF StreamInv, ConnInv, InUnderstood
  <1>4. b \in Byte /\ wire \in Seq(Byte) /\ Reading \in ByteParser /\ InStream \in ByteParser
    BY DataIsByte, StreamsType DEF StreamInv, StreamTypes
  <1>5. wire' \in Seq(Byte)
    <2>1. DataBytes(b) \in Seq(Byte)
      BY <1>4, SentBytes
    <2>. QED  BY <1>1, <1>4, <2>1
  <1>6. InStream' = [InStream EXCEPT !.data = Append(@, b)]
    <2>1. Reading' = Reading /\ InStream' = Parse(dev.ip232, Reading, wire \o DataBytes(b))
      BY <1>1, <1>2 DEF InStream, Reading
    <2>. QED  BY <1>3, <1>4, <2>1, ParseData DEF InStream
  <1>7. InStream'.data = Append(InStream.data, b) /\ InStream'.magic = InStream.magic
        /\ InStream'.line = InStream.line
    BY <1>4, <1>6 DEF ByteParser
  <1>8. far'.dcd = far.dcd /\ Held' = Held
    BY <1>2 DEF StreamInv, StreamTypes, Held
  <1>9. owed' = queue' \o Held' \o InStream'.data
    <2>1. queue \in Seq(Byte) /\ Held \in Seq(Byte) /\ InStream.data \in Seq(Byte)
      BY <1>4, StreamsType DEF StreamInv, StreamTypes, ByteParser
    <2>2. \A s, d \in Seq(Byte) : Append(s \o d, b) = s \o Append(d, b)
      BY <1>4, Joined
    <2>3. queue \o Held \in Seq(Byte)
      BY <2>1
    <2>4. Append((queue \o Held) \o InStream.data, b) = (queue \o Held) \o Append(InStream.data, b)
      BY <2>1, <2>2, <2>3
    <2>. QED  BY <1>1, <1>2, <1>7, <1>8, <2>4 DEF StreamInv, InUnderstood
  <1>. QED  BY <1>2, <1>3, <1>5, <1>7, <1>8, <1>9 DEF InUnderstood

LEMMA FarLineIn ==
    ASSUME StreamInv, FarLine
    PROVE  wire' \in Seq(Byte) /\ InUnderstood'
  <1>1. /\ conn = "open" /\ dev.ip232 /\ far' = [far EXCEPT !.dcd = ~@, !.sends = @ + 1]
        /\ wire' = wire \o LineBytes(~far.dcd)
        /\ UNCHANGED <<queue, owed, rloc, rpc, DCD, sockfd, dev>>
    BY DEF FarLine, readerVars, mainVars
  <1>2. sockfd /\ ~InStream.magic /\ InStream.line = far.dcd
    BY <1>1 DEF StreamInv, ConnInv, InUnderstood
  <1>3. (~far.dcd) \in BOOLEAN /\ wire \in Seq(Byte) /\ Reading \in ByteParser /\ InStream \in ByteParser
    BY StreamsType DEF StreamInv, StreamTypes
  <1>4. wire' \in Seq(Byte)
    <2>1. LineBytes(~far.dcd) \in Seq(Byte)
      <3>1. 0 \in Byte
        BY DEF Byte
      <3>. QED  BY <1>3, <3>1, SentBytes
    <2>. QED  BY <1>1, <1>3, <2>1
  <1>5. InStream' = [InStream EXCEPT !.line = ~far.dcd]
    <2>1. Reading' = Reading /\ InStream' = Parse(dev.ip232, Reading, wire \o LineBytes(~far.dcd))
      BY <1>1 DEF InStream, Reading
    <2>. QED  BY <1>1, <1>2, <1>3, <2>1, ParseLine DEF InStream
  <1>6. InStream'.data = InStream.data /\ InStream'.magic = InStream.magic /\ InStream'.line = ~far.dcd
    BY <1>3, <1>5 DEF ByteParser
  <1>7. far'.dcd = ~far.dcd /\ Held' = Held
    BY <1>1 DEF StreamInv, StreamTypes, Held
  <1>. QED  BY <1>1, <1>2, <1>4, <1>6, <1>7 DEF StreamInv, InUnderstood

\* Nothing of this half, one way or the other, in all other steps.
LEMMA NextIn ==
    ASSUME StreamInv, [Next]_vars
    PROVE  InUnderstood'
  <1>1. CASE Plug
    BY <1>1, PlugIn
  <1>2. ASSUME Unplug \/ Abort \/ Join \/ ReadTrans \/ WriteTrans \/ ByteSent \/ FarHangsUp
               \/ UNCHANGED vars
        PROVE  InUnderstood'
    <2>1. /\ UNCHANGED <<queue, owed, rloc, rpc, DCD, wire, sockfd, far>>
          /\ dev'.ip232 = dev.ip232
      BY <1>2 DEF Unplug, Abort, Join, ReadTrans, WriteTrans, ByteSent, FarHangsUp,
                  vars, mainVars, readerVars, transVars, StreamInv, SerialInv, SerialTypes
    <2>2. Held' = Held
      BY <2>1 DEF Held
    <2>. QED  BY <2>1, <2>2, InSame DEF StreamInv
  <1>3. CASE CloseSocket
    <2>1. Close /\ UNCHANGED <<rloc, rpc, DCD, queue, far, dev>>
      BY <1>3 DEF CloseSocket, readerVars
    <2>. QED  BY <2>1, CloseEffect DEF StreamInv
  <1>4. CASE NetPut
    <2>1. UNCHANGED <<rloc, rpc, DCD, queue, dev>>
      BY <1>4 DEF NetPut, readerVars
    <2>2. CASE Close /\ UNCHANGED far
      BY <2>1, <2>2, CloseEffect DEF StreamInv
    <2>3. CASE /\ far' = IF conn = "open" THEN [far EXCEPT !.heard = Hears(put)] ELSE far
               /\ UNCHANGED <<sockfd, conn, wire, owed>>
      <3>1. far'.dcd = far.dcd
        BY <2>3 DEF StreamInv, StreamTypes
      <3>2. Held' = Held
        BY <2>1 DEF Held
      <3>. QED  BY <2>1, <2>3, <3>1, <3>2, InSame DEF StreamInv
    <2>. QED  BY <1>4, <2>2, <2>3 DEF NetPut
  <1>5. CASE DeliverEvent
    BY <1>5, DeliverEventIn
  <1>6. CASE CharacterEnds
    <2>1. /\ Signal([uart EXCEPT !.sync = FALSE, !.recvReady = TRUE])
          /\ UNCHANGED <<rloc, rpc, DCD, wire, sockfd, far, dev>>
      BY <1>6 DEF CharacterEnds, readerVars
    <2>. QED  BY <2>1, SignalEffectOnStream DEF StreamInv
  <1>7. CASE WriteCommand
    <2>1. PICK rxe \in BOOLEAN, txe \in BOOLEAN, rts \in BOOLEAN, dtr \in BOOLEAN :
                 Command(Commanded(rxe), txe, rts, dtr, rxe # uart.rxe)
      BY <1>7 DEF WriteCommand
    <2>2. (rxe # uart.rxe) \in BOOLEAN
      OBVIOUS
    <2>. QED  BY <2>1, <2>2, CommandIn
  <1>8. CASE Reset
    <2>1. Command(NewUart, FALSE, FALSE, FALSE, TRUE)
      BY <1>8 DEF Reset
    <2>. QED  BY <2>1, CommandIn
  <1>9. CASE LoopTop \/ PollReturns \/ RecvFails \/ Forget \/ Distribute
    <2>1. /\ UNCHANGED <<queue, owed, rloc, DCD, wire, far, dev>> /\ (sockfd' => sockfd)
          /\ rpc # "push" /\ rpc' # "push"
      BY <1>9 DEF LoopTop, PollReturns, RecvFails, Forget, Distribute, Reader, mainVars
    <2>2. Held' = Held /\ InStream' = InStream
      BY <2>1 DEF Held, InStream, Reading
    <2>. QED  BY <2>1, <2>2 DEF StreamInv, InUnderstood
  <1>10. CASE Recv
    BY <1>10, RecvIn
  <1>11. CASE Push
    BY <1>11, PushIn
  <1>12. CASE FarSends
    BY <1>12, FarSendsIn
  <1>13. CASE FarLine
    BY <1>13, FarLineIn
  <1>14. CASE CommandSignals
    BY <1>14, CommandSignalsIn
  <1>. QED  BY <1>1, <1>2, <1>3, <1>4, <1>5, <1>6, <1>7, <1>8, <1>9, <1>10, <1>11, <1>12, <1>13,
               <1>14 DEF Next, Main, Run, Far

---------------------------------------------------------------------------
\* A command: the bytes for DTR, and a transmitter that forgets what it has
\* when it is off.
LEMMA CommandOut ==
    ASSUME StreamInv, NEW u, NEW txe \in BOOLEAN, NEW rts \in BOOLEAN, NEW dtr \in BOOLEAN,
           NEW switched \in BOOLEAN, Command(u, txe, rts, dtr, switched)
    PROVE  put' \in Seq(Byte) /\ ConnInv' /\ OutUnderstood'
  <1>. DEFINE tells == dev.plugged /\ dtr # dev.DTR /\ sockfd /\ dev.ip232
  <1>1. /\ mpc = "idle" /\ put' = IF tells THEN LineBytes(dtr) ELSE <<>>
        /\ mpc' = IF switched THEN IF tells THEN "tell" ELSE "signal"
                  ELSE IF tells THEN "put" ELSE "idle"
        /\ trans' = Enabled(txe) /\ unheard' = IF txe THEN unheard ELSE <<>>
        /\ dev' = IF dev.plugged THEN [dev EXCEPT !.RTS = rts, !.DTR = dtr] ELSE dev
        /\ UNCHANGED <<far, sockfd, conn, wire, rpc>>
    BY DEF Command, readerVars
  <1>2. /\ dev'.ip232 = dev.ip232 /\ dev'.plugged = dev.plugged
        /\ dev'.DTR = IF dev.plugged THEN dtr ELSE dev.DTR
    BY <1>1 DEF StreamInv, SerialInv, SerialTypes
  <1>. HIDE DEF tells
  <1>3. /\ put = <<>> /\ OutStream = far.heard
        /\ unheard = trans.bytes /\ far.heard.data = <<>> /\ ~far.heard.magic
    BY <1>1, NothingToPut DEF StreamInv
  <1>4. put' \in Seq(Byte)
    <2>1. <<>> \in Seq(Byte) /\ 0 \in Byte
      BY DEF Byte
    <2>. QED  BY <1>1, <2>1, SentBytes
  <1>5. ConnInv'
    BY <1>1, <1>2 DEF StreamInv, ConnInv
  <1>6. /\ OutStream'.data = <<>> /\ ~OutStream'.magic
        /\ OutStream'.line = IF tells THEN dtr ELSE far.heard.line
    <2>1. far.heard \in ByteParser /\ <<>> \in Seq(Byte)
      BY StreamsType DEF StreamInv
    <2>2. CASE tells
      <3>1. OutStream' = Parse(dev.ip232, far.heard, <<>> \o LineBytes(dtr))
        <4>1. LineBytes(dtr) = <<>> \o LineBytes(dtr)
          <5>1. LineBytes(dtr) \in Seq(Byte)
            BY <1>1, <1>4, <2>2
          <5>. QED  BY <5>1
        <4>. QED  BY <1>1, <1>2, <2>2, <4>1 DEF OutStream
      <3>2. Parse(dev.ip232, far.heard, <<>>) = far.heard
        BY ParseEmpty
      <3>3. OutStream' = [far.heard EXCEPT !.line = dtr]
        <4>1. Parse(dev.ip232, far.heard, <<>> \o LineBytes(dtr)) =
                  IF dev.ip232 THEN [Parse(dev.ip232, far.heard, <<>>) EXCEPT !.line = dtr]
                  ELSE Parse(dev.ip232, far.heard, <<>>)
          BY <1>3, <2>1, <3>2, ParseLine
        <4>. QED  BY <2>2, <3>1, <3>2, <4>1 DEF tells
      <3>. QED  BY <1>3, <2>1, <2>2, <3>3 DEF ByteParser
    <2>3. CASE ~tells
      <3>1. OutStream' = far.heard
        BY <1>1, <2>3, ParseEmpty DEF OutStream
      <3>. QED  BY <1>3, <2>3, <3>1
    <2>. QED  BY <2>2, <2>3
  <1>7. unheard' = trans'.bytes
    <2>1. trans \in [txe : BOOLEAN, bytes : Seq(Data), sync : BOOLEAN]
      BY DEF StreamInv, TransInv
    <2>. QED  BY <1>1, <1>3, <2>1 DEF Enabled, NewTrans
  <1>8. unheard' = OutStream'.data \o trans'.bytes
    <2>1. trans'.bytes \in Seq(Data)
      <3>1. TransInv'
        BY <1>1, EnabledEffect DEF StreamInv
      <3>. QED  BY <3>1 DEF TransInv
    <2>. QED  BY <1>6, <1>7, <2>1
  <1>9. sockfd' /\ conn' = "open" /\ dev'.ip232 => OutStream'.line = dev'.DTR
    <2>1. SUFFICES ASSUME sockfd, conn = "open", dev.ip232
                   PROVE  OutStream'.line = dev'.DTR
      BY <1>1, <1>2
    <2>2. dev.plugged /\ far.heard.line = dev.DTR
      BY <1>1, <1>3, <2>1 DEF StreamInv, ConnInv, OutUnderstood, Linked
    <2>. QED  BY <1>2, <1>6, <2>1, <2>2 DEF tells
  <1>. QED  BY <1>4, <1>5, <1>6, <1>8, <1>9 DEF OutUnderstood

LEMMA PlugOut ==
    ASSUME StreamInv, Plug
    PROVE  StreamTypes' /\ ConnInv' /\ OutUnderstood'
  <1>1. /\ mpc = "idle" /\ mpc' = "idle" /\ put' = put /\ trans' = trans /\ unheard' = unheard
        /\ sockfd' /\ conn' = "open" /\ wire' = <<>> /\ queue' = queue
        /\ dev'.plugged /\ dev'.DTR = FALSE /\ DCD' = FALSE
        /\ rpc' = "top" /\ rloc' = [rloc EXCEPT !.magic = FALSE]
        /\ far' = [far EXCEPT !.dcd = FALSE, !.heard = NewParser]
    BY DEF Plug, transVars
  <1>2. put = <<>> /\ unheard = trans.bytes
    BY <1>1, NothingToPut DEF StreamInv
  <1>3. far'.heard = NewParser
    BY <1>1 DEF StreamInv, StreamTypes
  <1>4. OutStream' = NewParser
    BY <1>1, <1>2, <1>3, ParseEmpty DEF OutStream
  <1>5. <<>> \o trans.bytes = trans.bytes
    <2>1. trans.bytes \in Seq(Data)
      BY DEF StreamInv, TransInv
    <2>. QED  BY <2>1
  <1>6. OutUnderstood'
    BY <1>1, <1>2, <1>4, <1>5 DEF OutUnderstood, NewParser
  <1>7. StreamTypes'
    <2>1. <<>> \in Seq(Byte)
      OBVIOUS
    <2>. QED  BY <1>1, <2>1 DEF StreamInv, StreamTypes, NewParser
  <1>8. ConnInv'
    BY <1>1, <1>2 DEF ConnInv
  <1>. QED  BY <1>6, <1>7, <1>8

\* The line is let go before the connection is closed.
LEMMA UnplugOut ==
    ASSUME StreamInv, Unplug
    PROVE  put' \in Seq(Byte) /\ ConnInv' /\ OutUnderstood'
  <1>1. /\ mpc = "idle" /\ put' = IF sockfd THEN LineBytes(FALSE) ELSE <<>>
        /\ mpc' = IF ~sockfd THEN "abort" ELSE IF dev.ip232 THEN "bye" ELSE "close"
        /\ UNCHANGED <<dev, far, sockfd, conn, wire, rpc, trans, unheard>>
    BY DEF Unplug, readerVars, transVars
  <1>2. /\ put = <<>> /\ OutStream = far.heard
        /\ unheard = trans.bytes /\ far.heard.data = <<>> /\ ~far.heard.magic
    BY <1>1, NothingToPut DEF StreamInv
  <1>3. <<>> \in Seq(Byte) /\ 0 \in Byte /\ FALSE \in BOOLEAN
    BY DEF Byte
  <1>4. LineBytes(FALSE) \in Seq(Byte) /\ put' \in Seq(Byte)
    BY <1>1, <1>3, SentBytes
  <1>5. OutStream'.data = <<>> /\ ~OutStream'.magic
    <2>1. far.heard \in ByteParser
      BY StreamsType DEF StreamInv
    <2>2. CASE sockfd
      <3>1. OutStream' = Parse(dev.ip232, far.heard, <<>> \o LineBytes(FALSE))
        <4>1. LineBytes(FALSE) = <<>> \o LineBytes(FALSE)
          BY <1>4
        <4>. QED  BY <1>1, <2>2, <4>1 DEF OutStream
      <3>2. Parse(dev.ip232, far.heard, <<>>) = far.heard
        BY ParseEmpty
      <3>3. OutStream' \in {far.heard, [far.heard EXCEPT !.line = FALSE]}
        BY <1>2, <1>3, <2>1, <3>1, <3>2, ParseLine
      <3>. QED  BY <1>2, <2>1, <3>3 DEF ByteParser
    <2>3. CASE ~sockfd
      <3>1. OutStream' = far.heard
        BY <1>1, <2>3, ParseEmpty DEF OutStream
      <3>. QED  BY <1>2, <3>1
    <2>. QED  BY <2>2, <2>3
  <1>6. <<>> \o trans.bytes = trans.bytes
    <2>1. trans.bytes \in Seq(Data)
      BY DEF StreamInv, TransInv
    <2>. QED  BY <2>1
  <1>7. mpc' \notin Linked
    BY <1>1 DEF Linked
  <1>8. OutUnderstood'
    BY <1>1, <1>2, <1>5, <1>6, <1>7 DEF OutUnderstood
  <1>9. ConnInv'
    <2>1. mpc' = "close" => put' = <<>>
      BY <1>1 DEF LineBytes
    <2>2. mpc' = "abort" => put' = <<>> /\ ~sockfd
      BY <1>1
    <2>3. mpc' \in {"abort", "bye", "close"}
      BY <1>1
    <2>. QED  BY <1>1, <2>1, <2>2, <2>3 DEF StreamInv, ConnInv
  <1>. QED  BY <1>4, <1>8, <1>9

\* The bytes that were put are heard, or the connection is closed.
LEMMA NetPutOut ==
    ASSUME StreamInv, NetPut
    PROVE  StreamTypes' /\ ConnInv' /\ OutUnderstood'
  <1>1. /\ \/ mpc = "put" /\ mpc' = "idle"
           \/ mpc = "tell" /\ mpc' = "signal"
           \/ mpc = "bye" /\ mpc' = "close"
        /\ put' = <<>> /\ unheard' = trans.bytes
        /\ UNCHANGED <<dev, trans, rloc, rpc, DCD, queue>>
    BY DEF NetPut, readerVars
  <1>2. <<>> \in Seq(Byte) /\ <<>> \o trans.bytes = trans.bytes
    <2>1. trans.bytes \in Seq(Data)
      BY DEF StreamInv, TransInv
    <2>. QED  BY <2>1
  <1>3. OutStream' = far'.heard
    BY <1>1, ParseEmpty DEF OutStream
  <1>4. CASE Close /\ UNCHANGED far
    <2>1. wire' \in Seq(Byte) /\ ~sockfd' /\ conn' \in {"none", "closed"} /\ wire' = <<>>
      BY <1>1, <1>4, CloseEffect DEF StreamInv
    <2>2. StreamTypes'
      BY <1>1, <1>2, <1>4, <2>1 DEF StreamInv, StreamTypes
    <2>3. ConnInv'
      BY <1>1, <2>1 DEF StreamInv, ConnInv
    <2>4. far'.heard.data = <<>> /\ ~far'.heard.magic
      BY <2>2 DEF StreamTypes
    <2>. QED  BY <1>1, <1>2, <1>3, <2>1, <2>2, <2>3, <2>4 DEF OutUnderstood
  <1>5. CASE /\ sockfd /\ conn # "closed"
             /\ far' = IF conn = "open" THEN [far EXCEPT !.heard = Hears(put)] ELSE far
             /\ UNCHANGED <<sockfd, conn, wire, owed>>
    <2>1. OutStream \in ByteParser /\ ~OutStream.magic
      BY StreamsType DEF StreamInv, OutUnderstood
    <2>2. Hears(put) = [OutStream EXCEPT !.data = <<>>]
      BY DEF Hears, OutStream
    <2>3. /\ Hears(put) \in [magic : {FALSE}, line : BOOLEAN, data : {<<>>}]
          /\ Hears(put).line = OutStream.line
      BY <2>1, <2>2 DEF ByteParser
    <2>4. StreamTypes' /\ (conn = "open" => far'.heard.line = OutStream.line)
      BY <1>1, <1>2, <1>5, <2>3 DEF StreamInv, StreamTypes
    <2>5. ConnInv'
      BY <1>1, <1>5 DEF StreamInv, ConnInv
    <2>6. far'.heard.data = <<>> /\ ~far'.heard.magic
      BY <2>4 DEF StreamTypes
    <2>7. mpc' \in Linked => mpc \in Linked
      BY <1>1 DEF Linked
    <2>. QED  BY <1>1, <1>2, <1>3, <1>5, <2>4, <2>5, <2>6, <2>7 DEF StreamInv, OutUnderstood
  <1>. QED  BY <1>4, <1>5 DEF NetPut

\* A byte that waits longer, or one that is put.
LEMMA WriteTransOut ==
    ASSUME StreamInv, WriteTrans
    PROVE  OutUnderstood'
  <1>1. mpc = "idle" /\ UNCHANGED <<dev, far, put, sockfd, conn, mpc>>
    BY DEF WriteTrans
  <1>2. unheard = trans.bytes /\ OutStream.data = <<>> /\ ~OutStream.magic
    BY <1>1, NothingToPut DEF StreamInv
  <1>3. unheard' = trans'.bytes
    <2>1. trans \in [txe : BOOLEAN, bytes : Seq(Data), sync : BOOLEAN]
      BY DEF StreamInv, TransInv
    <2>. QED  BY <1>2, <2>1 DEF WriteTrans
  <1>4. trans'.bytes \in Seq(Data)
    <2>1. TransInv'
      BY NextTrans DEF StreamInv, Next, Main
    <2>. QED  BY <2>1 DEF TransInv
  <1>5. OutStream' = OutStream /\ unheard' = <<>> \o trans'.bytes
    BY <1>1, <1>3, <1>4 DEF OutStream
  <1>. QED  BY <1>1, <1>2, <1>5 DEF StreamInv, OutUnderstood

LEMMA ByteSentOut ==
    ASSUME StreamInv, ByteSent
    PROVE  put' \in Seq(Byte) /\ ConnInv' /\ OutUnderstood'
  <1>. DEFINE takes == dev.plugged /\ sockfd
              b == Head(trans.bytes)
  <1>1. /\ mpc = "idle" /\ mpc' = IF takes THEN "put" ELSE "idle"
        /\ put' = IF takes THEN DataBytes(b) ELSE <<>>
        /\ unheard' = IF takes THEN unheard ELSE Tail(unheard)
        /\ UNCHANGED <<dev, far, sockfd, conn, wire, rpc>>
    BY DEF ByteSent, readerVars
  <1>2. trans'.bytes = Tail(trans.bytes)
    BY DEF ByteSent, StreamInv, TransInv
  <1>3. trans.bytes \in Seq(Data) /\ trans.bytes # <<>>
    BY DEF ByteSent, StreamInv, TransInv
  <1>4. b \in Byte /\ Tail(trans.bytes) \in Seq(Data) /\ trans.bytes = <<b>> \o Tail(trans.bytes)
    BY <1>3, DataIsByte
  <1>. HIDE DEF takes, b
  <1>5. /\ OutStream = far.heard
        /\ unheard = trans.bytes /\ far.heard.data = <<>> /\ ~far.heard.magic
    BY <1>1, NothingToPut DEF StreamInv
  <1>6. <<>> \in Seq(Byte) /\ DataBytes(b) \in Seq(Byte) /\ put' \in Seq(Byte)
    <2>1. <<>> \in Seq(Byte) /\ DataBytes(b) \in Seq(Byte)
      <3>1. TRUE \in BOOLEAN
        OBVIOUS
      <3>2. DataBytes(b) \in Seq(Byte)
        BY <1>4, <3>1, SentBytes
      <3>. QED  BY <3>2
    <2>. QED  BY <1>1, <2>1
  <1>7. ConnInv'
    <2>1. mpc' \notin {"put", "tell", "bye"} => put' = <<>>
      BY <1>1
    <2>2. mpc' \notin {"abort", "join"}
      BY <1>1
    <2>. QED  BY <1>1, <2>1, <2>2 DEF StreamInv, ConnInv
  <1>8. /\ OutStream'.data = IF takes THEN <<b>> ELSE <<>>
        /\ ~OutStream'.magic /\ OutStream'.line = far.heard.line
    <2>1. far.heard \in ByteParser
      BY StreamsType DEF StreamInv
    <2>2. CASE takes
      <3>1. OutStream' = Parse(dev.ip232, far.heard, <<>> \o DataBytes(b))
        <4>1. DataBytes(b) = <<>> \o DataBytes(b)
          BY <1>6
        <4>. QED  BY <1>1, <2>2, <4>1 DEF OutStream
      <3>2. Parse(dev.ip232, far.heard, <<>>) = far.heard
        BY ParseEmpty
      <3>3. OutStream' = [far.heard EXCEPT !.data = Append(@, b)]
        <4>1. Parse(dev.ip232, far.heard, <<>> \o DataBytes(b)) =
                  [Parse(dev.ip232, far.heard, <<>>) EXCEPT !.data = Append(@, b)]
          <5>1. ~Parse(dev.ip232, far.heard, <<>>).magic /\ <<>> \in Seq(Byte) /\ b \in Byte
            BY <1>4, <1>5, <1>6, <3>2
          <5>. QED  BY <2>1, <5>1, ParseData
        <4>. QED  BY <3>1, <3>2, <4>1
      <3>4. Append(<<>>, b) = <<b>>
        OBVIOUS
      <3>. QED  BY <1>5, <2>1, <2>2, <3>3, <3>4 DEF ByteParser
    <2>3. CASE ~takes
      <3>1. OutStream' = far.heard
        BY <1>1, <2>3, ParseEmpty DEF OutStream
      <3>. QED  BY <1>5, <2>3, <3>1
    <2>. QED  BY <2>2, <2>3
  <1>9. unheard' = OutStream'.data \o trans'.bytes
    <2>1. <<>> \o Tail(trans.bytes) = Tail(trans.bytes)
      BY <1>4
    <2>. QED  BY <1>1, <1>2, <1>4, <1>5, <1>8, <2>1
  <1>10. sockfd' /\ conn' = "open" /\ dev'.ip232 => OutStream'.line = dev'.DTR
    BY <1>1, <1>5, <1>8 DEF StreamInv, OutUnderstood, Linked
  <1>. QED  BY <1>6, <1>7, <1>8, <1>9, <1>10 DEF OutUnderstood

---------------------------------------------------------------------------
\* Every step, for what the streams are carried by and for the way out.
LEMMA NextOut ==
    ASSUME StreamInv, [Next]_vars
    PROVE  StreamTypes' /\ ConnInv' /\ OutUnderstood'
  <1>. USE DEF StreamInv
  <1>1. ASSUME UNCHANGED <<far, put, rloc, DCD, dev, sockfd, conn, wire, rpc, mpc, trans, unheard>>,
               queue' \in Seq(Byte)
        PROVE  StreamTypes' /\ ConnInv' /\ OutUnderstood'
    <2>1. OutUnderstood'
      BY <1>1, OutSame
    <2>. QED  BY <1>1, <2>1 DEF StreamTypes, ConnInv
  <1>2. CASE Plug
    BY <1>2, PlugOut
  <1>3. CASE Unplug
    <2>1. UNCHANGED <<far, rloc, DCD, wire, queue>>
      BY <1>3 DEF Unplug, readerVars
    <2>. QED  BY <1>3, <2>1, UnplugOut DEF StreamTypes
  <1>4. CASE CloseSocket
    <2>1. /\ Close /\ UNCHANGED <<rloc, rpc, DCD, queue, far, dev, put, trans, unheard>>
          /\ mpc = "close" /\ mpc' = "abort"
      BY <1>4 DEF CloseSocket, readerVars, transVars
    <2>2. wire' \in Seq(Byte) /\ ~sockfd' /\ conn' \in {"none", "closed"} /\ wire' = <<>>
      BY <2>1, CloseEffect
    <2>3. OutUnderstood'
      BY <2>1, <2>2, OutSame
    <2>4. StreamTypes'
      BY <2>1, <2>2 DEF StreamTypes
    <2>5. ConnInv'
      BY <2>1, <2>2 DEF ConnInv
    <2>. QED  BY <2>3, <2>4, <2>5
  <1>5. CASE Abort
    <2>1. /\ UNCHANGED <<far, put, rloc, DCD, dev, sockfd, conn, wire, rpc, trans, unheard, queue>>
          /\ mpc = "abort" /\ mpc' = "join"
      BY <1>5 DEF Abort, readerVars, transVars
    <2>2. OutUnderstood'
      BY <2>1, OutSame DEF Linked
    <2>. QED  BY <2>1, <2>2 DEF StreamTypes, ConnInv
  <1>6. CASE Join
    <2>1. /\ UNCHANGED <<far, put, rloc, DCD, sockfd, conn, wire, rpc, trans, unheard, queue>>
          /\ mpc = "join" /\ mpc' = "idle" /\ dev' = [dev EXCEPT !.plugged = FALSE]
      BY <1>6 DEF Join, readerVars, transVars
    <2>2. ~sockfd /\ dev'.ip232 = dev.ip232 /\ rpc = rpc'
      BY <2>1 DEF ConnInv, SerialInv, SerialTypes
    <2>3. OutUnderstood'
      BY <2>1, <2>2, OutSame
    <2>. QED  BY <2>1, <2>2, <2>3 DEF StreamTypes, ConnInv
  <1>7. CASE NetPut
    BY <1>7, NetPutOut
  <1>8. CASE DeliverEvent
    <2>1. UNCHANGED <<far, put, rloc, DCD, dev, sockfd, conn, wire, rpc, mpc, trans, unheard>>
      BY <1>8 DEF DeliverEvent, readerVars, transVars
    <2>2. queue' \in Seq(Byte)
      BY <1>8, DeliverEventIn
    <2>. QED  BY <1>1, <2>1, <2>2
  <1>9. CASE CharacterEnds
    <2>1. /\ UNCHANGED <<far, put, rloc, DCD, dev, sockfd, conn, wire, rpc, mpc, trans, unheard>>
          /\ Signal([uart EXCEPT !.sync = FALSE, !.recvReady = TRUE])
      BY <1>9 DEF CharacterEnds, readerVars, transVars
    <2>2. queue' \in Seq(Byte)
      BY <2>1, SignalEffectOnStream
    <2>. QED  BY <1>1, <2>1, <2>2
  <1>10. CASE ReadTrans \/ LoopTop \/ PollReturns \/ Distribute \/ UNCHANGED vars
    <2>1. /\ UNCHANGED <<far, put, rloc, DCD, dev, sockfd, conn, wire, mpc, trans, unheard, queue>>
          /\ rpc' = "forget" => rpc = "forget"
      BY <1>10 DEF ReadTrans, LoopTop, PollReturns, Distribute, Reader, mainVars, readerVars,
                   transVars, vars
    <2>2. OutUnderstood'
      BY <2>1, OutSame
    <2>. QED  BY <2>1, <2>2 DEF StreamTypes, ConnInv
  <1>11. CASE WriteCommand \/ Reset
    <2>1. PICK u \in {NewUart, Commanded(TRUE), Commanded(FALSE)}, txe \in BOOLEAN, rts \in BOOLEAN,
               dtr \in BOOLEAN, switched \in BOOLEAN :
                 Command(u, txe, rts, dtr, switched)
      <3>1. CASE WriteCommand
        <4>1. PICK rxe \in BOOLEAN, txe \in BOOLEAN, rts \in BOOLEAN, dtr \in BOOLEAN :
                     Command(Commanded(rxe), txe, rts, dtr, rxe # uart.rxe)
          BY <3>1 DEF WriteCommand
        <4>2. (rxe # uart.rxe) \in BOOLEAN /\ rxe \in {TRUE, FALSE}
          OBVIOUS
        <4>. QED  BY <4>1, <4>2
      <3>2. CASE Reset
        BY <3>2 DEF Reset
      <3>. QED  BY <1>11, <3>1, <3>2
    <2>2. UNCHANGED <<far, rloc, DCD, wire>>
      BY <2>1 DEF Command, readerVars
    <2>3. put' \in Seq(Byte) /\ ConnInv' /\ OutUnderstood' /\ queue' \in Seq(Byte)
      BY <2>1, CommandOut, CommandIn
    <2>. QED  BY <2>2, <2>3 DEF StreamTypes
  <1>12. CASE WriteTrans
    <2>1. UNCHANGED <<far, put, rloc, DCD, dev, sockfd, conn, wire, rpc, mpc, queue>>
      BY <1>12 DEF WriteTrans, readerVars
    <2>. QED  BY <1>12, <2>1, WriteTransOut DEF StreamTypes, ConnInv
  <1>13. CASE ByteSent
    <2>1. UNCHANGED <<far, rloc, DCD, wire, queue>>
      BY <1>13 DEF ByteSent, readerVars
    <2>. QED  BY <1>13, <2>1, ByteSentOut DEF StreamTypes
  <1>14. CASE Recv
    <2>1. /\ UNCHANGED <<far, put, queue, dev, sockfd, conn, mpc, trans, unheard>>
          /\ sockfd /\ wire # <<>> /\ rpc' # "forget"
      BY <1>14 DEF Recv, mainVars, transVars
    <2>2. rloc' \in [magic : BOOLEAN, b : Byte] /\ DCD' \in BOOLEAN /\ wire' \in Seq(Byte)
      BY <1>14, RecvIn
    <2>3. OutUnderstood'
      BY <2>1, OutSame
    <2>. QED  BY <2>1, <2>2, <2>3 DEF StreamTypes, ConnInv
  <1>15. CASE RecvFails
    <2>1. /\ UNCHANGED <<far, put, queue, dev, sockfd, mpc, trans, unheard, wire, rloc, DCD>>
          /\ ~sockfd \/ (wire = <<>> /\ conn # "open")
          /\ conn' = IF sockfd THEN "closed" ELSE conn
      BY <1>15 DEF RecvFails, Reader, mainVars, transVars
    <2>2. conn' \in {"none", "closed"} /\ wire' = <<>>
      BY <2>1 DEF ConnInv
    <2>3. OutUnderstood'
      BY <2>1, <2>2, OutSame
    <2>. QED  BY <2>1, <2>2, <2>3 DEF StreamTypes, ConnInv
  <1>16. CASE Forget
    <2>1. /\ UNCHANGED <<far, put, queue, dev, conn, mpc, trans, unheard, wire, rloc, DCD>>
          /\ rpc = "forget" /\ rpc' = "ended" /\ ~sockfd'
      BY <1>16 DEF Forget, Reader, mainVars, transVars
    <2>2. conn \in {"none", "closed"}
      BY <2>1 DEF ConnInv
    <2>3. OutUnderstood'
      BY <2>1, <2>2, OutSame
    <2>. QED  BY <2>1, <2>2, <2>3 DEF StreamTypes, ConnInv
  <1>17. CASE Push
    <2>1. /\ UNCHANGED <<far, put, dev, sockfd, conn, mpc, trans, unheard, wire, DCD>>
          /\ rpc' = "distribute"
      BY <1>17 DEF Push, Reader, mainVars, transVars
    <2>2. rloc' \in [magic : BOOLEAN, b : Byte] /\ queue' \in Seq(Byte)
      BY <1>17, PushIn
    <2>3. OutUnderstood'
      BY <2>1, OutSame
    <2>. QED  BY <2>1, <2>2, <2>3 DEF StreamTypes, ConnInv
  <1>18. CASE FarSends \/ FarLine
    <2>1. /\ UNCHANGED <<put, queue, dev, sockfd, conn, mpc, trans, unheard, rloc, rpc, DCD>>
          /\ conn = "open"
      BY <1>18 DEF FarSends, FarLine, mainVars, readerVars, transVars
    <2>2. wire' \in Seq(Byte)
      BY <1>18, FarSendsIn, FarLineIn
    <2>3. /\ far' \in [sends : Nat, dcd : BOOLEAN,
                       heard : [magic : {FALSE}, line : BOOLEAN, data : {<<>>}]]
          /\ far'.heard = far.heard
      <3>1. /\ far \in [sends : Nat, dcd : BOOLEAN,
                        heard : [magic : {FALSE}, line : BOOLEAN, data : {<<>>}]]
            /\ far.sends + 1 \in Nat
        <4>1. far \in [sends : Nat, dcd : BOOLEAN,
                       heard : [magic : {FALSE}, line : BOOLEAN, data : {<<>>}]]
          BY DEF StreamTypes
        <4>2. far.sends \in Nat
          BY <4>1
        <4>3. far.sends + 1 \in Nat
          BY <4>2
        <4>. QED  BY <4>1, <4>3, Zenon
      <3>2. CASE far' = [far EXCEPT !.sends = @ + 1]
        BY <3>1, <3>2
      <3>3. CASE far' = [far EXCEPT !.dcd = ~@, !.sends = @ + 1]
        BY <3>1, <3>3
      <3>. QED  BY <1>18, <3>2, <3>3 DEF FarSends, FarLine
    <2>4. OutUnderstood'
      BY <2>1, <2>3, OutSame
    <2>. QED  BY <2>1, <2>2, <2>3, <2>4 DEF StreamTypes, ConnInv
  <1>19. CASE FarHangsUp
    <2>1. /\ UNCHANGED <<far, put, queue, dev, sockfd, mpc, trans, unheard, wire, rloc, rpc, DCD>>
          /\ conn = "open" /\ conn' = "hungup"
      BY <1>19 DEF FarHangsUp, mainVars, readerVars, transVars
    <2>2. OutUnderstood'
      BY <2>1, OutSame
    <2>. QED  BY <2>1, <2>2 DEF StreamTypes, ConnInv
  <1>20. CASE CommandSignals
    <2>1. /\ UNCHANGED <<far, put, rloc, DCD, dev, sockfd, conn, wire, rpc, trans, unheard>>
          /\ mpc = "signal" /\ mpc' = "idle"
      BY <1>20 DEF CommandSignals, readerVars, transVars
    <2>2. queue' \in Seq(Byte)
      BY <1>20, CommandSignalsIn
    <2>3. OutUnderstood'
      BY <2>1, OutSame DEF Linked
    <2>. QED  BY <2>1, <2>2, <2>3 DEF StreamTypes, ConnInv
  <1>. QED  BY <1>2, <1>3, <1>4, <1>5, <1>6, <1>7, <1>8, <1>9, <1>10, <1>11, <1>12, <1>13,
               <1>14, <1>15, <1>16, <1>17, <1>18, <1>19, <1>20 DEF Next, Main, Run, Far

---------------------------------------------------------------------------
(* The assertions of I8251::execRecv(), execTrans() and of RS232Net::run()   *)
(* hold, whatever the MSX, the other end and the reader do, for any bytes    *)
(* and bounds.                                                               *)
THEOREM SerialAssertions == Spec => []AssertionsHold
  <1>1. Init => SerialInv /\ TransInv
    BY InitSerial, InitTrans
  <1>2. (SerialInv /\ TransInv) /\ [Next]_vars => (SerialInv /\ TransInv)'
    BY NextSerial, NextTrans
  <1>3. SerialInv /\ TransInv => AssertionsHold
    BY DEF SerialInv, TransInv, AssertionsHold, TransmitterOK
  <1>. QED  BY <1>1, <1>2, <1>3, PTL DEF Spec

(* No byte is stuck (signal(), setRTS(), execRecv()) if the MSX reads each   *)
(* byte before the time of that byte is over, and the device is plugged in   *)
(* with an empty queue: the two conditions the code does not see to.         *)
THEOREM NoByteIsStuck ==
    ASSUME ~LateReads, ~OldQueue
    PROVE  Spec => []NoByteStuck
  <1>. DEFINE I == SerialInv /\ ReadInTime /\ NoByteStuck
  <1>1. Init => I
    BY InitSerial
  <1>2. I /\ [Next]_vars => I'
    BY NextSerial
  <1>3. I => NoByteStuck
    OBVIOUS
  <1>. QED  BY <1>1, <1>2, <1>3, PTL DEF Spec

(* The two threads and the protocol lose, double or reorder nothing, and take *)
(* no control byte for data or data for a control byte: whatever the MSX, the *)
(* other end and the reader do, also across a connection that breaks, an     *)
(* unplugging and a new plugging in (run(), signal(), recvByte(), setDTR()). *)
THEOREM StreamsUnderstood == Spec => []StreamsAreUnderstood
  <1>1. Init => StreamInv
    BY InitStream
  <1>2. StreamInv /\ [Next]_vars => StreamInv'
    <2>1. SUFFICES ASSUME StreamInv, [Next]_vars PROVE StreamInv'
      OBVIOUS
    <2>2. SerialInv' /\ TransInv'
      BY <2>1, NextSerial, NextTrans DEF StreamInv
    <2>3. InUnderstood' /\ StreamTypes' /\ ConnInv' /\ OutUnderstood'
      BY <2>1, NextIn, NextOut
    <2>. QED  BY <2>2, <2>3 DEF StreamInv
  <1>3. StreamInv => StreamsAreUnderstood
    BY DEF StreamInv, InUnderstood, OutUnderstood, StreamsAreUnderstood, InStream, OutStream, Linked
  <1>. QED  BY <1>1, <1>2, <1>3, PTL DEF Spec
===========================================================================
