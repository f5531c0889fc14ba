------------------------------- MODULE RS232Net ------------------------------
(* The serial port over a socket: the pluggable (src/src/serial/RS232Net.cc) *)
(* with its reader thread, the receiver and the transmitter of the UART it   *)
(* is plugged into (I8251.cc, MSXRS232.cc), and the event that carries a     *)
(* byte from one thread to the other.  The IP232 protocol puts the control   *)
(* lines in the stream: the byte Magic announces a line's new level, or is   *)
(* itself sent twice.                                                        *)
EXTENDS Integers, SequencesExt

CONSTANTS Data,       \* bytes that are sent, Magic among them
          MaxIn,      \* bound: bytes and line changes the other end sends
          MaxEvents,  \* bound: events on their way when a line makes one more
          MaxPlugs,   \* bound: times it is plugged in
          LateReads,  \* TRUE: the MSX may read a byte when its time is over
          OldQueue    \* TRUE: it may be plugged in again with bytes queued

\* IP232_MAGIC, and the levels IP232_DTR_HI and _LO, IP232_DCD_HI and _LO.
Magic == 255
Level(high) == IF high THEN 1 ELSE 0

ASSUME ConstantsAssumption ==
    /\ Data \subseteq 0..255 /\ IsFiniteSet(Data)
    /\ {MaxIn, MaxEvents, MaxPlugs} \subseteq Nat
    /\ {LateReads, OldQueue} \subseteq BOOLEAN

VARIABLES uart,    \* the receiver of the I8251
          trans,   \* its transmitter
          dev,     \* the pluggable, but what the reader uses of it
          sockfd,  \* the socket is not OPENMSX_INVALID_SOCKET
          aborted, \* Poller::abortFlag
          DCD,
          queue,
          events,  \* Rs232NetEvents that were distributed and not delivered
          rpc, rloc,  \* the reader: where it is; ipMagic and the byte b
          mpc, put,   \* the emulation thread; the bytes for net_put()
          conn,    \* what became of the connection
          wire,    \* bytes of the other end that were not read
          far,     \* the other end: what it did and what it heard
          owed,    \* not in the code: data on its way to the MSX
          unheard  \* not in the code: data of the MSX on its way out

transVars  == <<trans, unheard>>
mainVars   == <<uart, dev, mpc, put, transVars, aborted>>
readerVars == <<rpc, rloc, DCD>>
vars == <<mainVars, readerVars, sockfd, queue, events, conn, wire, far, owed>>

Parser == [magic : BOOLEAN, line : BOOLEAN, data : Seq(Data)]
NewParser == [magic |-> FALSE, line |-> FALSE, data |-> <<>>]

\* A variant of Feed: the second Magic does not end the mark.
FeedStays(ip232, s, b) ==
    IF ~ip232 THEN [s EXCEPT !.data = Append(@, b)]
    ELSE IF s.magic /\ b # Magic
         THEN [s EXCEPT !.magic = FALSE, !.line = b % 2 = 1]
    ELSE IF ~s.magic /\ b = Magic THEN [s EXCEPT !.magic = TRUE]
    ELSE [s EXCEPT !.data = Append(@, b)]

\* One byte of the stream, as RS232Net::run() takes it (and the other end).
Feed(ip232, s, b) ==
    IF ~ip232 THEN [s EXCEPT !.data = Append(@, b)]
    ELSE IF s.magic /\ b # Magic
         THEN [s EXCEPT !.magic = FALSE, !.line = b % 2 = 1]
    ELSE IF ~s.magic /\ b = Magic THEN [s EXCEPT !.magic = TRUE]
    ELSE [s EXCEPT !.magic = FALSE, !.data = Append(@, b)]

\* The parser s after these bytes: its state before the first and after each.
Parse(ip232, s, bytes) ==
    LET after[i \in 0..Len(bytes)] ==
            IF i = 0 THEN s ELSE Feed(ip232, after[i - 1], bytes[i])
    IN after[Len(bytes)]

\* The other end has parsed these bytes, and used the data.
Hears(bytes) == [Parse(dev.ip232, far.heard, bytes) EXCEPT !.data = <<>>]

\* A byte of data, and a line that changed, as they are sent.
DataBytes(b)    == IF dev.ip232 /\ b = Magic THEN <<Magic, Magic>> ELSE <<b>>
LineBytes(high) == IF dev.ip232 THEN <<Magic, Level(high)>> ELSE <<>>

---------------------------------------------------------------------------
\* The receiver and the transmitter after I8251::reset().
NewUart == [rxe |-> FALSE, recvReady |-> FALSE, rxrdy |-> FALSE, sync |-> FALSE]

\* The transmitter: bytes are sendByte, unless STAT_TXEMPTY, and sendBuffer,
\* unless STAT_TXRDY; sync is the end of the first one's time.
NewTrans == [txe |-> FALSE, bytes |-> <<>>, sync |-> FALSE]

Init ==
    /\ uart = NewUart /\ trans = NewTrans
    /\ dev = [plugged |-> FALSE, DTR |-> FALSE, RTS |-> FALSE, ip232 |-> TRUE,
              plugs |-> 0]
    /\ sockfd = FALSE /\ aborted = FALSE /\ DCD = FALSE
    /\ queue = <<>> /\ events = 0
    /\ rpc = "ended" /\ rloc = [magic |-> FALSE, b |-> 0]
    /\ mpc = "idle" /\ put = <<>>
    /\ conn = "none" /\ wire = <<>>
    /\ far = [sends |-> 0, dcd |-> FALSE, heard |-> NewParser]
    /\ owed = <<>> /\ unheard = <<>>

---------------------------------------------------------------------------
(* The emulation thread.                                                     *)

\* A byte in the reader's hands, that it will push.
Held == IF rpc = "push" THEN <<rloc.b>> ELSE <<>>

\* plugHelper(): the connection is made, the reader is started.
Plug ==
    /\ mpc = "idle" /\ ~dev.plugged /\ dev.plugs < MaxPlugs
    /\ OldQueue \/ queue = <<>>
    /\ \E ip \in BOOLEAN :
         dev' = [plugged |-> TRUE, DTR |-> FALSE, RTS |-> TRUE, ip232 |-> ip,
                 plugs |-> dev.plugs + 1]
    /\ sockfd' = TRUE /\ conn' = "open" /\ wire' = <<>>
    /\ far' = [far EXCEPT !.dcd = FALSE, !.heard = NewParser]
    /\ DCD' = FALSE /\ aborted' = FALSE
    /\ rpc' = "top" /\ rloc' = [rloc EXCEPT !.magic = FALSE]
    /\ UNCHANGED <<uart, transVars, queue, events, mpc, put, owed>>

\* unplugHelper(): the test of the socket, and then the bytes to announce it.
Unplug ==
    /\ mpc = "idle" /\ dev.plugged
    /\ mpc' = IF ~sockfd THEN "abort" ELSE IF dev.ip232 THEN "bye" ELSE "close"
    /\ put' = IF sockfd THEN LineBytes(FALSE) ELSE <<>>
    /\ UNCHANGED <<uart, dev, aborted, transVars, readerVars, sockfd, queue, events,
                   conn, wire, far, owed>>

\* sock_close() of whatever sockfd is at that moment, and forgetting it.
\* After that the bytes that were not read are gone.
Close ==
    /\ sockfd' = FALSE
    /\ conn' = IF sockfd THEN "closed" ELSE conn
    /\ wire' = IF sockfd THEN <<>> ELSE wire
    /\ owed' = IF sockfd THEN queue \o Held ELSE owed

CloseSocket ==
    /\ mpc = "close" /\ Close /\ mpc' = "abort"
    /\ UNCHANGED <<uart, dev, put, transVars, aborted, readerVars, queue, events, far>>

\* Poller::abort(): the flag, and then the pipe that ends poll().
Abort ==
    /\ mpc = "abort" /\ aborted' = TRUE /\ mpc' = "join"
    /\ UNCHANGED <<uart, dev, put, transVars, readerVars, sockfd, queue, events, conn,
                   wire, far, owed>>

Join ==
    /\ mpc = "join" /\ rpc = "ended"
    /\ mpc' = "idle" /\ dev' = [dev EXCEPT !.plugged = FALSE]
    /\ UNCHANGED <<uart, put, transVars, aborted, readerVars, sockfd, queue, events,
                   conn, wire, far, owed>>

\* net_put(): the other end gets it, or the connection is found to be broken.
NetPut ==
    /\ \/ mpc = "put" /\ mpc' = "idle"
       \/ mpc = "tell" /\ mpc' = "signal"
       \/ mpc = "bye" /\ mpc' = "close"
    /\ put' = <<>> /\ unheard' = trans.bytes
    /\ \/ /\ sockfd /\ conn # "closed"
          /\ far' = IF conn = "open" THEN [far EXCEPT !.heard = Hears(put)] ELSE far
          /\ UNCHANGED <<sockfd, conn, wire, owed>>
       \/ /\ ~sockfd \/ conn # "open"
          /\ Close
          /\ UNCHANGED far
    /\ UNCHANGED <<uart, dev, trans, aborted, readerVars, queue, events>>

\* MSXRS232::ready()
Ready(u) == u.recvReady /\ ~u.rxrdy

\* The byte that I8251::recvByte() gets; its time starts to run.
Received(u) == [u EXCEPT !.rxrdy = TRUE, !.recvReady = FALSE, !.sync = TRUE]

\* RS232Net::signal(): a receiver that is off loses all there is; one that is
\* ready gets a byte.
Signal(u) ==
    IF dev.plugged /\ ~u.rxe
    THEN /\ uart' = u /\ queue' = <<>>
         /\ owed' = SubSeq(owed, Len(queue) + 1, Len(owed))
    ELSE IF dev.plugged /\ Ready(u) /\ dev'.RTS /\ queue # <<>>
    THEN /\ uart' = Received(u) /\ queue' = Tail(queue)
         /\ owed' = Tail(owed)
    ELSE uart' = u /\ UNCHANGED <<queue, owed>>

\* RS232Net::signalEvent()
DeliverEvent ==
    /\ mpc = "idle" /\ events > 0
    /\ events' = events - 1
    /\ UNCHANGED dev
    /\ IF dev.plugged THEN Signal(uart)
       ELSE /\ queue' = <<>> /\ owed' = <<>>
            /\ UNCHANGED uart
    /\ UNCHANGED <<mpc, put, transVars, aborted, readerVars, sockfd, conn, wire, far>>

\* I8251::execRecv(): the time of the byte is over.
CharacterEnds ==
    /\ mpc = "idle" /\ uart.sync
    /\ LateReads \/ ~uart.rxrdy
    /\ UNCHANGED dev
    /\ Signal([uart EXCEPT !.sync = FALSE, !.recvReady = TRUE])
    /\ UNCHANGED <<mpc, put, transVars, aborted, readerVars, sockfd, events, conn,
                   wire, far>>

\* I8251::readTrans(): no one is told that there is room for a byte again.
ReadTrans ==
    /\ mpc = "idle" /\ uart.rxrdy
    /\ uart' = [uart EXCEPT !.rxrdy = FALSE]
    /\ UNCHANGED <<dev, mpc, put, transVars, aborted, readerVars, sockfd, queue,
                   events, conn, wire, far, owed>>

\* A variant of Woken: setRTS() only keeps the level.
NeverWoken(rts) == FALSE

\* setRTS(): bytes that waited for the line get an event.
Woken(rts) == dev.plugged /\ rts /\ ~dev.RTS /\ queue # <<>>

\* A variant of Commanded: the end of the byte stays planned.
KeepsSync(rxe) ==
    IF rxe = uart.rxe THEN uart
    ELSE IF rxe THEN [uart EXCEPT !.rxe = TRUE, !.recvReady = TRUE]
    ELSE [uart EXCEPT !.rxe = FALSE, !.rxrdy = FALSE]

\* What I8251::writeCommand() does to the receiver.
Commanded(rxe) ==
    IF rxe = uart.rxe THEN uart
    ELSE IF rxe THEN [uart EXCEPT !.rxe = TRUE, !.recvReady = TRUE]
    ELSE [uart EXCEPT !.rxe = FALSE, !.sync = FALSE, !.rxrdy = FALSE]

\* A transmitter that is off forgets what it has.
Enabled(txe) == IF txe THEN [trans EXCEPT !.txe = TRUE] ELSE NewTrans

\* I8251::writeCommand(): RTS, DTR, the transmitter, and the receiver.  The bytes
\* for DTR leave in a step of their own, and the signal of a receiver that was
\* switched comes after it, in another; the reader may come before each.
Command(u, txe, rts, dtr, switched) ==
    LET tells == dev.plugged /\ dtr # dev.DTR /\ sockfd /\ dev.ip232
    IN /\ mpc = "idle"
       /\ Woken(rts) => events < MaxEvents
       /\ dev' = IF dev.plugged THEN [dev EXCEPT !.RTS = rts, !.DTR = dtr] ELSE dev
       /\ events' = IF Woken(rts) THEN events + 1 ELSE events
       /\ put' = IF tells THEN LineBytes(dtr) ELSE <<>>
       /\ mpc' = IF switched THEN IF tells THEN "tell" ELSE "signal"
                 ELSE IF tells THEN "put" ELSE "idle"
       /\ uart' = u /\ trans' = Enabled(txe)
       /\ unheard' = IF txe THEN unheard ELSE <<>>
       /\ UNCHANGED <<aborted, readerVars, sockfd, queue, conn, wire, far, owed>>

CommandSignals ==
    /\ mpc = "signal" /\ mpc' = "idle"
    /\ UNCHANGED dev
    /\ Signal(uart)
    /\ UNCHANGED <<put, transVars, aborted, readerVars, sockfd, events, conn, wire, far>>

WriteCommand ==
    \E rxe, txe, rts, dtr \in BOOLEAN :
        Command(Commanded(rxe), txe, rts, dtr, rxe # uart.rxe)

\* I8251::reset(): it writes a command that changes every bit to 0.
Reset == Command(NewUart, FALSE, FALSE, FALSE, TRUE)

\* I8251::writeTrans(): the byte is sent, or waits, and replaces one that did.
WriteTrans ==
    /\ mpc = "idle" /\ trans.txe
    /\ LET Kept(bytes) == IF Len(trans.bytes) = 2 THEN Front(bytes) ELSE bytes
       IN  \E b \in Data :
             /\ trans' = [trans EXCEPT !.bytes = Append(Kept(@), b), !.sync = TRUE]
             /\ unheard' = Append(Kept(unheard), b)
    /\ UNCHANGED <<uart, dev, mpc, put, aborted, readerVars, sockfd, queue,
                   events, conn, wire, far, owed>>

\* I8251::execTrans(), and RS232Net::recvByte() when it is plugged in: the byte
\* is sent, the one that waits is next.
ByteSent ==
    /\ mpc = "idle" /\ trans.sync
    /\ LET takes == dev.plugged /\ sockfd
       IN  /\ mpc' = IF takes THEN "put" ELSE "idle"
           /\ put' = IF takes THEN DataBytes(Head(trans.bytes)) ELSE <<>>
           /\ unheard' = IF takes THEN unheard ELSE Tail(unheard)
    /\ trans' = [trans EXCEPT !.bytes = Tail(@), !.sync = Len(trans.bytes) = 2]
    /\ UNCHANGED <<uart, dev, aborted, readerVars, sockfd, queue, events, conn,
                   wire, far, owed>>

---------------------------------------------------------------------------
(* The reader: RS232Net::run().                                              *)

Reader(from, to) == rpc = from /\ rpc' = to

LoopTop ==
    /\ Reader("top", IF sockfd THEN "poll" ELSE "ended")
    /\ UNCHANGED <<mainVars, rloc, DCD, sockfd, queue, events, conn, wire, far, owed>>

\* Poller::poll() returns, also when its socket is closed meanwhile.
PollReturns ==
    /\ aborted \/ ~sockfd \/ conn # "open" \/ wire # <<>>
    /\ Reader("poll", IF aborted THEN "ended" ELSE "recv")
    /\ UNCHANGED <<mainVars, rloc, DCD, sockfd, queue, events, conn, wire, far, owed>>

\* The reader as a parser of the stream.
Reading == [magic |-> rloc.magic, line |-> DCD, data |-> <<>>]

\* sock_recv() of whatever sockfd is at that moment, and the IP232 protocol.
Recv ==
    /\ rpc = "recv" /\ sockfd /\ wire # <<>>
    /\ LET s == Feed(dev.ip232, Reading, Head(wire))
       IN /\ wire' = Tail(wire)
          /\ DCD' = s.line
          /\ rpc' = IF s.data = <<>> THEN "top" ELSE "push"
          /\ rloc' = [magic |-> s.magic,
                      b |-> IF s.data = <<>> THEN 0 ELSE Head(s.data)]
    /\ UNCHANGED <<mainVars, sockfd, queue, events, conn, far, owed>>

RecvFails ==
    /\ ~sockfd \/ (wire = <<>> /\ conn # "open")
    /\ Reader("recv", "forget")
    /\ conn' = IF sockfd THEN "closed" ELSE conn
    /\ UNCHANGED <<mainVars, rloc, DCD, sockfd, queue, events, wire, far, owed>>

\* The socket is closed; now sockfd says so.
Forget ==
    /\ Reader("forget", "ended")
    /\ sockfd' = FALSE
    /\ UNCHANGED <<mainVars, rloc, DCD, queue, events, conn, wire, far, owed>>

Push ==
    /\ Reader("push", "distribute")
    /\ queue' = Append(queue, rloc.b) /\ rloc' = [rloc EXCEPT !.b = 0]
    /\ UNCHANGED <<mainVars, DCD, sockfd, events, conn, wire, far, owed>>

Distribute ==
    /\ Reader("distribute", "top")
    /\ events' = events + 1
    /\ UNCHANGED <<mainVars, rloc, DCD, sockfd, queue, conn, wire, far, owed>>

---------------------------------------------------------------------------
(* External: the other end of the connection.                                *)

FarSends ==
    /\ conn = "open" /\ far.sends < MaxIn
    /\ \E b \in Data : wire' = wire \o DataBytes(b) /\ owed' = Append(owed, b)
    /\ far' = [far EXCEPT !.sends = @ + 1]
    /\ UNCHANGED <<mainVars, readerVars, sockfd, queue, events, conn>>

FarLine ==
    /\ conn = "open" /\ far.sends < MaxIn /\ dev.ip232
    /\ wire' = wire \o LineBytes(~far.dcd)
    /\ far' = [far EXCEPT !.dcd = ~@, !.sends = @ + 1]
    /\ UNCHANGED <<mainVars, readerVars, sockfd, queue, events, conn, owed>>

FarHangsUp ==
    /\ conn = "open" /\ conn' = "hungup"
    /\ UNCHANGED <<mainVars, readerVars, sockfd, queue, events, wire, far, owed>>

---------------------------------------------------------------------------
Main ==
    \/ Plug \/ Unplug \/ CloseSocket \/ Abort \/ Join \/ NetPut
    \/ DeliverEvent \/ CharacterEnds \/ ReadTrans \/ WriteCommand \/ Reset
    \/ CommandSignals \/ WriteTrans \/ ByteSent

Run == LoopTop \/ PollReturns \/ Recv \/ RecvFails \/ Forget \/ Push \/ Distribute

Far == FarSends \/ FarLine \/ FarHangsUp

Next == Main \/ Run \/ Far

Spec == Init /\ [][Next]_vars

---------------------------------------------------------------------------
TypeOK ==
    /\ uart \in [rxe : BOOLEAN, recvReady : BOOLEAN, rxrdy : BOOLEAN, sync : BOOLEAN]
    /\ trans \in [txe : BOOLEAN, bytes : Seq(Data), sync : BOOLEAN]
    /\ Len(trans.bytes) <= 2
    /\ dev \in [plugged : BOOLEAN, DTR : BOOLEAN, RTS : BOOLEAN, ip232 : BOOLEAN,
                plugs : 0..MaxPlugs]
    /\ {sockfd, aborted, DCD} \subseteq BOOLEAN
    /\ queue \in Seq(Data) /\ owed \in Seq(Data) /\ unheard \in Seq(Data)
    /\ events \in Nat
    /\ rpc \in {"top", "poll", "recv", "push", "distribute", "forget", "ended"}
    /\ mpc \in {"idle", "put", "tell", "signal", "bye", "close", "abort", "join"}
    /\ conn \in {"none", "open", "hungup", "closed"}
    /\ wire \in Seq(0..255) /\ put \in Seq(0..255)
    /\ far.heard \in Parser

\* While the emulation thread is here it is not unplugging the device.
Linked == {"idle", "put", "tell", "signal"}

(* What the two threads and the protocol make of the two streams.  The data  *)
(* the MSX is still owed is, in order, what is queued, what the reader holds *)
(* and what the bytes not yet read will be taken for, and the carrier will   *)
(* be what the other end last made it (run(), signal()).  The data the MSX   *)
(* wrote and the other end did not hear is, in order, what it will take the  *)
(* bytes about to be put for and what the transmitter has, also across a new *)
(* connection; and it knows the line DTR (execTrans(), recvByte(), setDTR()).*)
StreamsAreUnderstood ==
    LET in == Parse(dev.ip232, Reading, wire)
        out == Parse(dev.ip232, far.heard, put)
    IN /\ owed = queue \o Held \o in.data
       /\ sockfd => ~in.magic /\ in.line = far.dcd
       /\ unheard = out.data \o trans.bytes /\ ~out.magic
       /\ sockfd /\ conn = "open" /\ mpc \in Linked /\ dev.ip232 =>
            out.line = dev.DTR

(* No byte is stuck: when the UART could take a byte and there is one, an    *)
(* event that will hand it over is on its way, or the reader is about to     *)
(* distribute it, or the command that switched the receiver has yet to       *)
(* signal; the pluggable has no other way to try again (signal()).           *)
NoByteStuck ==
    dev.plugged /\ dev.RTS /\ Ready(uart) /\ uart.rxe /\ queue # <<>> =>
        events > 0 \/ rpc = "distribute" \/ mpc \in {"tell", "signal"}

(* The assertions of the UART and of the reader hold when they are reached:  *)
(* the sync points that end a byte are there only while the receiver is on   *)
(* and busy (I8251::execRecv()), and while the transmitter is on and has one *)
(* (execTrans()); and a byte is pushed only while the device is plugged in   *)
(* (run()), although unplugging and the reader overlap.                      *)
ReceiverOK ==
    /\ uart.sync => uart.rxe /\ ~uart.recvReady
    /\ rpc # "ended" => dev.plugged
TransmitterOK == trans.sync => trans.txe /\ trans.bytes # <<>>
AssertionsHold == ReceiverOK /\ TransmitterOK

(* "assert(sockfd != OPENMSX_INVALID_SOCKET)" (RS232Net::net_put()).         *)
NetPutAssert == mpc \in {"put", "tell", "bye"} => sockfd
===========================================================================
