----------------------------- MODULE MSXPiDevice ----------------------------
(* The MSXPi interface (src/src/MSXPiDevice.cc): the emulation thread, which *)
(* starts transfers at port accesses and binds them to the bytes the Pi      *)
(* offers, the reader thread, which connects to the server and queues its    *)
(* offers, and the server, which may offer, cancel, and hang up at any time. *)
(* A section under mtx is one step; a byte is the frame it was offered in.   *)
EXTENDS Integers, FiniteSets, SequencesExt

CONSTANTS Ports,      \* values of the msxpiserver_port setting
          None,
          MaxConn,    \* bound: connections made
          MaxFrames,  \* bound: frames the server sends on a connection
          \* Situations the code gets wrong, explored only when set:
          CloseBeforePoll, \* the port is changed after the reader tested or
                           \* set sock, and before it polls it
          BindAcross       \* a bind is done when the reader has set sock, and
                           \* before it forgets the offers of the last connection

ASSUME ConstantsAssumption ==
    /\ {MaxConn, MaxFrames} \subseteq Nat
    /\ None \notin Ports
    /\ {CloseBeforePoll, BindAcross} \subseteq BOOLEAN

VARIABLES offers,      \* the visible offers; offerCount is its length
          link,        \* how far the connection is
          sock,        \* the connection, with what went over it, or None
          epoch,       \* counts the connections
          activePort,
          rpc,         \* where the reader thread is
          arg,         \* its local: the port it connects to, the socket it polls
          buf,         \* frames received and not handled
          pendingHold, \* offers of a run whose closing offer is still due
          epc,         \* where the emulation thread is
          access,      \* the port access it is in
          busy,        \* a transfer was started
          bound,       \* the offer it got, with boundEpoch
          waitMode

shared     == <<offers, link, sock, epoch, activePort>>
readerVars == <<rpc, arg, buf, pendingHold>>
emuVars    == <<epc, access, busy, bound, waitMode>>
vars == <<shared, readerVars, emuVars>>

Links    == {"DOWN", "PROBING", "FRAMED", "INCOMPATIBLE"}
Ops      == {"hello", "hold", "offer", "cancel"}
Accesses == {"status", "read", "write"}
\* The n-th frame that came from the server on connection conn.
Frame == [conn : 1..MaxConn, n : 1..MaxFrames, op : Ops]

\* check, startCheck, stallCheck: tryBind() before it locks, as called from
\* update(), startTransfer() and stall(); bind, ...: after that.
\* port: the rest of the access  close: update(Setting) before closeSocket()
EmuPCs == {"idle", "check", "bind", "port", "startCheck", "startBind", "stall",
           "stallCheck", "stallBind", "close"}
ReaderPCs == {"loop", "connect", "adopt", "probe", "poll", "polling", "handle"}

Init ==
    /\ offers = <<>> /\ link = "DOWN" /\ sock = None /\ epoch = 0
    /\ activePort \in Ports
    /\ rpc = "loop" /\ arg = None /\ buf = <<>> /\ pendingHold = <<>>
    /\ epc = "idle" /\ access = None /\ busy = FALSE /\ bound = None /\ waitMode = FALSE

\* sendFrame(): what is sent on a closed socket is dropped.
SendFrame(op, of) ==
    sock' = IF sock = None THEN None
            ELSE [sock EXCEPT !.toServer = Append(@, [op |-> op, of |-> of])]

---------------------------------------------------------------------------
\* The emulation thread.

\* Back to the MSX program, or on with the access.
Continue(pc) == epc' = pc /\ access' = IF pc = "idle" THEN None ELSE access

\* The transfer that runs is clocked by the server of now.
Clocked == bound # None /\ bound.epoch = epoch

\* update(): a transfer of an earlier connection is not clocked any more; the
\* transfer is complete when its time has come.
Access(a) ==
    /\ epc = "idle"
    /\ access' = a
    /\ IF Clocked
       THEN /\ epc' = "port"
            /\ \/ busy' = FALSE /\ bound' = None
               \/ UNCHANGED <<busy, bound>>
       ELSE /\ epc' = IF busy THEN "check" ELSE "port"
            /\ bound' = None /\ UNCHANGED busy
    /\ UNCHANGED <<shared, readerVars, waitMode>>

\* tryBind(), first without the mutex ...
NextLabel == CASE epc = "check"      -> <<"bind", "port">>
               [] epc = "startCheck" -> <<"startBind", "stall">>
               [] epc = "stallCheck" -> <<"stallBind", "idle">>
TryBind ==
    /\ epc \in {"check", "startCheck", "stallCheck"}
    /\ Continue(IF link = "FRAMED" /\ offers # <<>> THEN NextLabel[1] ELSE NextLabel[2])
    /\ UNCHANGED <<shared, readerVars, busy, bound, waitMode>>

\* ... then with it: the Pi clocks the byte, and gets the latch for it.
Bind ==
    /\ epc \in {"bind", "startBind", "stallBind"}
    /\ BindAcross \/ rpc # "probe"
    /\ Continue(CASE epc = "bind" -> "port" [] epc = "startBind" -> "stall" [] OTHER -> "idle")
    /\ IF offers = <<>>
       THEN UNCHANGED <<offers, bound, sock>>
       ELSE /\ bound' = [of |-> Head(offers), epoch |-> epoch]
            /\ offers' = Tail(offers)
            /\ SendFrame("offer", Head(offers))
    /\ UNCHANGED <<link, epoch, activePort, readerVars, busy, waitMode>>

\* readIO(), writeIO() after update(): a write starts a transfer, a wait-mode
\* read does when the Pi is ready; then stall().
Port ==
    /\ epc = "port"
    /\ LET ready  == link = "FRAMED" /\ (bound # None \/ offers # <<>>)
           starts == ~busy /\ (access = "write" \/ (access = "read" /\ waitMode /\ ready))
       IN  /\ busy' = (busy \/ starts)
           /\ bound' = IF starts THEN None ELSE bound
           /\ Continue(IF starts THEN "startCheck"
                       ELSE IF waitMode /\ access # "status" THEN "stall" ELSE "idle")
    /\ UNCHANGED <<shared, readerVars, waitMode>>

\* stall(): /WAIT is held till the end of the transfer, then update().
Stall ==
    /\ epc = "stall"
    /\ IF ~waitMode \/ bound = None
       THEN Continue("idle") /\ UNCHANGED <<busy, bound>>
       ELSE /\ bound' = None
            /\ busy' = ~Clocked
            /\ Continue(IF Clocked THEN "idle" ELSE "stallCheck")
    /\ UNCHANGED <<shared, readerVars, waitMode>>

\* OUT (0x56),0xFF and power-up.
InterfaceReset ==
    /\ epc = "idle"
    /\ busy' = FALSE /\ bound' = None /\ waitMode' = FALSE
    /\ UNCHANGED <<shared, readerVars, epc, access>>

\* OUT (0x57): wait mode on or off.
SetWaitMode ==
    /\ epc = "idle"
    /\ waitMode' = ~waitMode
    /\ UNCHANGED <<shared, readerVars, epc, access, busy, bound>>

\* update(Setting), in the emulation thread: the port first, then the socket.
ChangePort ==
    /\ epc = "idle"
    /\ activePort' \in Ports \ {activePort}
    /\ epc' = "close"
    /\ UNCHANGED <<offers, link, sock, epoch, readerVars, access, busy, bound, waitMode>>

\* Mutant: a connection that has not greeted yet is left alone.
PortChangedWhenUp ==
    /\ epc = "close"
    /\ CloseBeforePoll \/ rpc \notin {"probe", "poll"}
    /\ sock' = IF link = "FRAMED" THEN None ELSE sock
    /\ epc' = "idle"
    /\ UNCHANGED <<offers, link, epoch, activePort, readerVars, access, busy, bound, waitMode>>

PortChanged ==
    /\ epc = "close"
    /\ CloseBeforePoll \/ rpc \notin {"probe", "poll"}
    /\ sock' = None
    /\ epc' = "idle"
    /\ UNCHANGED <<offers, link, epoch, activePort, readerVars, access, busy, bound, waitMode>>

---------------------------------------------------------------------------
\* The reader thread: readLoop().

ReaderOnly == UNCHANGED <<activePort, emuVars>>

\* Mutant: the reader ends when a connection is lost.
LoopOnce ==
    /\ rpc = "loop" /\ (sock # None \/ link = "DOWN")
    /\ link' = IF sock = None THEN "DOWN" ELSE link
    /\ rpc' = IF sock = None THEN "connect" ELSE "poll"
    /\ UNCHANGED <<offers, sock, epoch, arg, buf, pendingHold>> /\ ReaderOnly

Loop ==
    /\ rpc = "loop"
    /\ link' = IF sock = None THEN "DOWN" ELSE link
    /\ rpc' = IF sock = None THEN "connect" ELSE "poll"
    /\ UNCHANGED <<offers, sock, epoch, arg, buf, pendingHold>> /\ ReaderOnly

\* connectSocket(): connect to the port of the moment, or fail and try again ...
Connect ==
    /\ rpc = "connect"
    /\ \/ epoch < MaxConn /\ arg' = activePort /\ rpc' = "adopt"
       \/ rpc' = "loop" /\ UNCHANGED arg
    /\ UNCHANGED <<offers, link, sock, epoch, buf, pendingHold>> /\ ReaderOnly

NewConnection == [id |-> epoch + 1, port |-> arg, open |-> TRUE, sent |-> <<>>, got |-> 0,
                  toServer |-> <<>>]

\* Mutant: the port is not compared again.
AdoptAnyPort ==
    /\ rpc = "adopt" /\ arg' = None
    /\ sock' = NewConnection
    /\ rpc' = "probe"
    /\ UNCHANGED <<offers, link, epoch, buf, pendingHold>> /\ ReaderOnly

\* ... and use the connection under socketMtx, if this still is the port.
Adopt ==
    /\ rpc = "adopt" /\ arg' = None
    /\ IF arg = activePort THEN sock' = NewConnection /\ rpc' = "probe"
                           ELSE UNCHANGED sock /\ rpc' = "loop"
    /\ UNCHANGED <<offers, link, epoch, buf, pendingHold>> /\ ReaderOnly

\* Mutant: the offers of the last connection stay.
ProbePending ==
    /\ rpc = "probe" /\ rpc' = "poll"
    /\ pendingHold' = <<>>
    /\ epoch' = epoch + 1
    /\ link' = "PROBING"
    /\ UNCHANGED <<offers, sock, arg, buf>> /\ ReaderOnly

Probe ==
    /\ rpc = "probe" /\ rpc' = "poll"
    /\ offers' = <<>> /\ pendingHold' = <<>>
    /\ epoch' = epoch + 1
    /\ link' = "PROBING"
    /\ UNCHANGED <<sock, arg, buf>> /\ ReaderOnly

\* poller.poll(sock): the socket as it is now ...
Poll ==
    /\ rpc = "poll" /\ rpc' = "polling"
    /\ arg' = IF sock = None THEN None ELSE sock.id
    /\ UNCHANGED <<offers, link, sock, epoch, buf, pendingHold>> /\ ReaderOnly

HasData == sock # None /\ sock.got < Len(sock.sent)

\* ... which is ready when it has data or is closed at either end, and never is
\* when it is -1: poll(2) ignores it, and Poller::poll goes on after a time-out.
Ready == arg # None /\ (sock # None => HasData \/ ~sock.open)

\* Mutant: a connection that has ended is not closed.
RecvOnly ==
    /\ rpc = "polling" /\ Ready /\ arg' = None
    /\ IF HasData
       THEN /\ buf' = SubSeq(sock.sent, sock.got + 1, Len(sock.sent))
            /\ sock' = [sock EXCEPT !.got = Len(sock.sent)]
            /\ rpc' = "handle"
       ELSE UNCHANGED <<sock, buf>> /\ rpc' = "loop"
    /\ UNCHANGED <<offers, link, epoch, pendingHold>> /\ ReaderOnly

\* Then all that has come is received; the end of it closes the socket.
Recv ==
    /\ rpc = "polling" /\ Ready /\ arg' = None
    /\ IF HasData
       THEN /\ buf' = SubSeq(sock.sent, sock.got + 1, Len(sock.sent))
            /\ sock' = [sock EXCEPT !.got = Len(sock.sent)]
            /\ rpc' = "handle"
       ELSE sock' = None /\ rpc' = "loop" /\ UNCHANGED buf
    /\ UNCHANGED <<offers, link, epoch, pendingHold>> /\ ReaderOnly

\* Mutant: a cancel forgets the held offers only.
CancelHeld ==
    /\ pendingHold' = <<>>
    /\ SendFrame("cancel", Head(buf))
    /\ UNCHANGED <<link, offers>>

\* handleFrame(), an operator for each frame.
Cancel ==
    /\ offers' = <<>> /\ pendingHold' = <<>>
    /\ SendFrame("cancel", Head(buf))
    /\ UNCHANGED link

\* Mutant: every hold is visible at once.
HoldVisible ==
    /\ offers' = Append(offers, Head(buf))
    /\ UNCHANGED <<link, pendingHold, sock>>

Hold ==
    /\ pendingHold' = Append(pendingHold, Head(buf))
    /\ UNCHANGED <<link, offers, sock>>

Offer ==
    /\ offers' = offers \o pendingHold \o <<Head(buf)>>
    /\ pendingHold' = <<>>
    /\ UNCHANGED <<link, sock>>

\* The greeting.  A server that sends something else is none that offers.
Greet ==
    /\ IF Head(buf).op = "hello"
       THEN link' = "FRAMED" /\ SendFrame("hello", Head(buf))
       ELSE link' = "INCOMPATIBLE" /\ UNCHANGED sock
    /\ UNCHANGED <<offers, pendingHold>>

IgnoreFrame == UNCHANGED <<offers, link, pendingHold, sock>>

HandleFrame ==
    \/ link = "PROBING" /\ Greet
    \/ link = "FRAMED" /\ \/ Head(buf).op = "hold" /\ Hold
                          \/ Head(buf).op = "offer" /\ Offer
                          \/ Head(buf).op = "cancel" /\ Cancel
                          \/ Head(buf).op = "hello" /\ IgnoreFrame
    \/ link \notin {"PROBING", "FRAMED"} /\ IgnoreFrame

Handle ==
    /\ rpc = "handle"
    /\ IF buf = <<>>
       THEN rpc' = "loop" /\ UNCHANGED <<offers, link, buf, pendingHold, sock>>
       ELSE buf' = Tail(buf) /\ UNCHANGED rpc /\ HandleFrame
    /\ UNCHANGED <<epoch, arg>> /\ ReaderOnly

---------------------------------------------------------------------------
\* The server, msxpi-server.py: not part of this repository.  The frames it
\* has sent are those that have arrived.

ServerSend ==
    /\ sock # None /\ sock.open /\ Len(sock.sent) < MaxFrames
    /\ \E op \in Ops :
         sock' = [sock EXCEPT !.sent = Append(@, [conn |-> sock.id, n |-> Len(@) + 1, op |-> op])]
    /\ UNCHANGED <<offers, link, epoch, activePort, readerVars, emuVars>>

ServerClose ==
    /\ sock # None /\ sock.open
    /\ sock' = [sock EXCEPT !.open = FALSE]
    /\ UNCHANGED <<offers, link, epoch, activePort, readerVars, emuVars>>

---------------------------------------------------------------------------
Emulation == \/ \E a \in Accesses : Access(a)
             \/ TryBind \/ Bind \/ Port \/ Stall
             \/ InterfaceReset \/ SetWaitMode \/ ChangePort \/ PortChanged
ReadLoop  == \/ Loop \/ Connect \/ Adopt \/ Probe \/ Poll \/ Recv \/ Handle
Server    == ServerSend \/ ServerClose

Next == Emulation \/ ReadLoop \/ Server

\* The reader thread keeps running; nothing is assumed of the other two.
Spec == Init /\ [][Next]_vars /\ WF_vars(ReadLoop)

---------------------------------------------------------------------------
TypeOK ==
    /\ {offers, buf, pendingHold} \subseteq Seq(Frame)
    /\ link \in Links /\ epoch \in 0..MaxConn /\ activePort \in Ports
    /\ sock # None => /\ sock.id \in epoch..(epoch + 1) /\ sock.port \in Ports
                      /\ sock.open \in BOOLEAN /\ sock.got \in 0..Len(sock.sent)
                      /\ {sock.sent, [i \in DOMAIN sock.toServer |-> sock.toServer[i].of]}
                            \subseteq Seq(Frame)
    /\ rpc \in ReaderPCs /\ arg \in Ports \cup 1..MaxConn \cup {None}
    /\ epc \in EmuPCs /\ access \in Accesses \cup {None}
    /\ busy \in BOOLEAN /\ waitMode \in BOOLEAN
    /\ bound # None => busy /\ bound \in [of : Frame, epoch : 1..MaxConn]

\* What the device sends on a connection is the reply to its hello first, and
\* then the latch only for bytes that were offered on that connection, in
\* order, each once (the replies of tryBind(), "01 m: an offer was clocked").
RepliesAnswerOffers == sock # None =>
    LET wire == sock.toServer
        Replies == {p \in DOMAIN wire : wire[p].op = "offer"}
    IN  /\ wire # <<>> => Head(wire).op = "hello"
        /\ \A p \in Replies : wire[p].of.conn = sock.id
        /\ \A p, q \in Replies : p < q => wire[p].of.n < wire[q].of.n

\* Replies and acknowledgements are sent under one mutex, and a cancel forgets
\* every offer before it (handleFrame()): the acknowledgements before the reply
\* to an offer are those of the cancels the server sent before that offer.
CancelSeparates == sock # None =>
    LET wire == sock.toServer
        Cancels(n) == {i \in 2..(n - 1) : sock.sent[i].op = "cancel"}
        Acks(p) == {i \in 1..(p - 1) : wire[i].op = "cancel"}
    IN  \A p \in DOMAIN wire : wire[p].op = "offer" /\ wire[p].of.conn = sock.id =>
            Cardinality(Acks(p)) = Cardinality(Cancels(wire[p].of.n))

\* READY never stays up for a hold alone: what is visible ends with the offer
\* that closes its run (handleFrame(), tryBind()).
RunsAreClosed == offers # <<>> => Last(offers).op = "offer"

\* The device is not left on another port than the setting's: connectSocket()
\* compares the port under socketMtx, update(Setting) closes after it is set.
PortIsCurrent == sock # None /\ epc # "close" => sock.port = activePort

\* "retry once per second" (readLoop()): whenever the device has no connection,
\* the reader comes to make one.
Retries == sock = None ~> sock # None \/ rpc = "connect"

\* A connection the server has ended is given up (readLoop()).
HangUpSeen == (sock # None /\ ~sock.open) ~> sock = None
=============================================================================
