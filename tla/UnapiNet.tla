------------------------------- MODULE UnapiNet ------------------------------
(* The TCP connections of the UNAPI network cartridge                        *)
(* (src/src/unapinet/UnapiNet.cc): the emulation thread, which executes the  *)
(* commands of the MSX, the socket thread, which connects, accepts, sends,   *)
(* receives and closes, and between them a slot per handle with its mutex.   *)
(* A section under a mutex is one step; what the code tests outside it may   *)
(* have changed by the next step.  Socket numbers are those of the host,     *)
(* which gives a closed one out again.  A byte is [conn, n]: the n-th of its *)
(* direction on the connection conn.                                         *)
EXTENDS Naturals, FiniteSets, SequencesExt

CONSTANTS NumHandles,   \* MAX_TCP
          Fds,          \* socket numbers
          None,
          RecvCap,      \* MAX_RECV_BUF
          SendCap,      \* MAX_SEND_BUF
          MaxSockets,   \* bound: sockets made
          MaxBytes,     \* bound: bytes sent on a connection, both ways together
          Underneath    \* explored only when set: a command on a slot after
                        \* the socket thread tested it without its mutex, and
                        \* before it acts on what it saw

ASSUME ConstantsAssumption ==
    /\ NumHandles \in Nat \ {0} /\ Fds \subseteq Nat /\ IsFiniteSet(Fds) /\ None \notin Fds
    /\ {RecvCap, SendCap, MaxSockets, MaxBytes} \subseteq Nat
    /\ Underneath \in BOOLEAN

Handles == 1..NumHandles
Byte    == [conn : Nat, n : Nat]
\* The len bytes of a connection that follow the first n.
Bytes(conn, n, len) == [i \in 1..len |-> [conn |-> conn, n |-> n + i]]

\* sent, got: bytes the peer has sent, and those we have received; fin, reset:
\* the peer closed its side, or reset; wire, shut: what we have sent, and that
\* we closed ours; caller: a connection waits at the listener.
HostSocket == [kind : {"connecting", "refused", "listen", "stream"}, id : Nat,
               sent : Nat, got : Nat, fin : BOOLEAN, reset : BOOLEAN,
               wire : Seq(Byte), shut : BOOLEAN, caller : BOOLEAN]

ASSUME NoneAssumption == None \notin HostSocket

VARIABLES slot,     \* the TcpConnection of each handle, see Slot
          toClose,  \* socksToClose
          fds,      \* the host's sockets, see HostSocket
          made,     \* counts them
          cmd,      \* the closing command the emulation thread is in, or None
          spc,      \* where the socket thread is
          cur,      \* the slot it is at
          sd,       \* its local: the socket it took from the slot
          new,      \* its local: the socket it accepted, or None
          chunk,    \* its local: the bytes it received
          watched   \* watchedTcp and the fd sets

socketThread == <<spc, cur, sd, new, chunk, watched>>
vars == <<slot, toClose, fds, made, cmd, socketThread>>

TcpStates == {"Closed", "Listen", "SynSent", "Established", "FinWait1", "CloseWait"}

\* due: closeDeadline is over.  conn, seen, accepted are not in the code: the
\* connection the MSX has here, the bytes of it that the MSX has read, and
\* those that TCP_SEND has accepted.
Slot == [sock : Fds \cup {None}, state : TcpStates, finSent : BOOLEAN, due : BOOLEAN,
         recvBuf : Seq(Byte), sendBuf : Seq(Byte),
         conn : Nat, seen : Nat, accepted : Nat]

NewSocket(kind) == [kind |-> kind, id |-> made + 1, sent |-> 0, got |-> 0, fin |-> FALSE,
                    reset |-> FALSE, wire |-> <<>>, shut |-> FALSE, caller |-> FALSE]

FreeFds == {f \in Fds : fds[f] = None}
\* POSIX: the lowest number that is free.
LowestFd == CHOOSE f \in FreeFds : \A g \in FreeFds : f <= g
CanOpen == FreeFds # {} /\ made < MaxSockets

Watched   == [fd : Fds, id : Nat, r : BOOLEAN, w : BOOLEAN]
\* The sockets in socksToClose.
Deferred  == ToSet(toClose)
Unwatched == [h \in Handles |-> None]

Init ==
    /\ slot = [h \in Handles |-> [sock |-> None, state |-> "Closed", finSent |-> FALSE,
                 due |-> FALSE, recvBuf |-> <<>>, sendBuf |-> <<>>,
                 conn |-> 0, seen |-> 0, accepted |-> 0]]
    /\ toClose = <<>> /\ fds = [f \in Fds |-> None] /\ made = 0 /\ cmd = None
    /\ spc = "close" /\ cur = 1 /\ sd = None /\ new = None /\ chunk = <<>>
    /\ watched = Unwatched

---------------------------------------------------------------------------
\* What both threads use.

\* deferSockClose()
DeferSockClose(f) == toClose' = Append(toClose, f)

\* requestClose(): the tail that was received stays, except at a reset.
RequestClose(h, clear) ==
    /\ slot' = [slot EXCEPT ![h] = [slot[h] EXCEPT !.sock = None, !.state = "Closed",
                  !.finSent = FALSE, !.sendBuf = <<>>, !.accepted = 0,
                  !.recvBuf = IF clear THEN <<>> ELSE slot[h].recvBuf]]
    /\ IF slot[h].sock = None THEN UNCHANGED toClose ELSE DeferSockClose(slot[h].sock)

\* For the bound: the bytes that were sent on a socket, both ways.
Moved(f) == LET owner == {h \in Handles : slot[h].sock = f}
            IN  fds[f].sent + IF owner = {} THEN 0 ELSE slot[CHOOSE h \in owner : TRUE].accepted

\* netSend() on a stream: it fails once either side is closed for it, and else
\* takes as many as the host has room for.
SendFails(f) == fds[f].reset \/ fds[f].shut
Sent(f, bytes, k) == [fds EXCEPT ![f].wire = @ \o SubSeq(bytes, 1, k)]
After(bytes, k) == SubSeq(bytes, k + 1, Len(bytes))

---------------------------------------------------------------------------
\* The emulation thread: commands of the MSX.

EmulationOnly == UNCHANGED <<made, socketThread>>

\* The situations Underneath is about: the socket thread is at the slot,
\* between a test and what it does about it.
BetweenTestAndAct(h) == cur = h /\ spc \in {"armFin", "armDrop", "drop", "closeWait"}
MayAct(h) == Underneath \/ ~BetweenTestAndAct(h)

\* allocTcpHandle()
Free(h) == slot[h].sock = None /\ slot[h].state = "Closed"

\* Mutant: what the last connection left unread stays.
OpenedOnTail(h, f, state) ==
    [slot[h] EXCEPT !.sock = f, !.state = state, !.finSent = FALSE,
                    !.sendBuf = <<>>, !.conn = made + 1, !.seen = 0, !.accepted = 0]
\* cmdTcpOpen(): connect() succeeds at once or later; or listen().  When a call
\* fails the socket is closed again and the slot is as it was.
Opened(h, f, state) ==
    [slot[h] EXCEPT !.sock = f, !.state = state, !.finSent = FALSE, !.recvBuf = <<>>,
                    !.sendBuf = <<>>, !.conn = made + 1, !.seen = 0, !.accepted = 0]
KindOf == [Established |-> "stream", SynSent |-> "connecting", Listen |-> "listen"]
TcpOpen(h, state) ==
    /\ cmd = None /\ CanOpen /\ MayAct(h)
    /\ Free(h) /\ \A g \in 1..(h - 1) : ~Free(g)
    /\ slot' = [slot EXCEPT ![h] = Opened(h, LowestFd, state)]
    /\ fds' = [fds EXCEPT ![LowestFd] = NewSocket(KindOf[state])]
    /\ made' = made + 1
    /\ UNCHANGED <<toClose, cmd, socketThread>>

\* cmdTcpSend(): behind what is queued, all or nothing, or straight to the host.
\* Data the host does not take at once is queued.
TcpSend(h, len) ==
    LET s == slot[h]
        data == Bytes(s.conn, s.accepted, len)
    IN  /\ cmd = None
        /\ s.sock # None /\ s.state \in {"Established", "CloseWait"}
        /\ Moved(s.sock) + len <= MaxBytes
        /\ IF s.sendBuf # <<>>
           THEN /\ Len(s.sendBuf) + len <= SendCap
                /\ slot' = [slot EXCEPT ![h] = [s EXCEPT !.sendBuf = s.sendBuf \o data,
                                                          !.accepted = s.accepted + len]]
                /\ UNCHANGED <<fds, toClose>>
           ELSE IF SendFails(s.sock)
           THEN RequestClose(h, FALSE) /\ UNCHANGED fds
           ELSE \E k \in 0..len :
                /\ fds' = Sent(s.sock, data, k)
                /\ slot' = [slot EXCEPT ![h] = [s EXCEPT !.sendBuf = After(data, k),
                                                          !.accepted = s.accepted + len]]
                /\ UNCHANGED toClose
    /\ UNCHANGED cmd /\ EmulationOnly

\* cmdTcpRecv(): open or closed.
TcpRecv(h, len) ==
    /\ cmd = None
    /\ len \in 1..Len(slot[h].recvBuf)
    /\ slot' = [slot EXCEPT ![h] = [slot[h] EXCEPT !.recvBuf = After(slot[h].recvBuf, len),
                                                   !.seen = slot[h].seen + len]]
    /\ UNCHANGED <<toClose, fds, cmd>> /\ EmulationOnly

Closing == [op : {"close", "drop", "abort", "reset"}, todo : (SUBSET Handles) \ {{}}]

\* cmdTcpClose(), cmdTcpAbort(), with a handle or all that are not resident,
\* and reset(): the slots are done one after the other.
ClosingCommand(op, S) ==
    /\ cmd = None
    /\ S # {} /\ (op = "reset" => S = Handles)
    /\ cmd' = [op |-> op, todo |-> S]
    /\ UNCHANGED <<slot, toClose, fds>> /\ EmulationOnly

CurrentSlot == CHOOSE h \in cmd.todo : \A g \in cmd.todo : h <= g
SlotDone == cmd' = IF cmd.todo = {CurrentSlot} THEN None
                   ELSE [op |-> IF cmd.op = "drop" THEN "close" ELSE cmd.op,
                         todo |-> cmd.todo \ {CurrentSlot}]

\* Mutant: the FIN goes out before what is queued.
FinAtOnce(h) == TRUE
\* Everything the MSX queued is out.
Drained(h) == slot[h].sendBuf = <<>>

\* gracefulClose() under the mutex: the FIN now, or when all that is queued has
\* been sent.
HalfClose(h) ==
    /\ slot' = [slot EXCEPT ![h] = [slot[h] EXCEPT !.state = "FinWait1", !.due = FALSE,
                                                   !.finSent = Drained(h)]]
    /\ fds' = [fds EXCEPT ![slot[h].sock].shut = Drained(h)]
    /\ UNCHANGED toClose

CloseSlot ==
    /\ cmd # None /\ MayAct(CurrentSlot)
    /\ LET h == CurrentSlot
           open == slot[h].sock # None
       IN  CASE cmd.op = "close" /\ open /\ slot[h].state \in {"Established", "CloseWait"} ->
                    HalfClose(h) /\ SlotDone
             [] cmd.op = "close" /\ open /\ slot[h].state \in {"Listen", "SynSent"} ->
                    \* it unlocks, and locks again to drop it
                    cmd' = [cmd EXCEPT !.op = "drop"] /\ UNCHANGED <<slot, toClose, fds>>
             [] cmd.op \in {"drop", "reset"} \/ (cmd.op = "abort" /\ open) ->
                    RequestClose(h, cmd.op = "reset") /\ SlotDone /\ UNCHANGED fds
             [] OTHER -> SlotDone /\ UNCHANGED <<slot, toClose, fds>>
    /\ EmulationOnly

Emulation ==
    \/ \E h \in Handles, state \in DOMAIN KindOf : TcpOpen(h, state)
    \/ \E h \in Handles, len \in 1..SendCap : TcpSend(h, len)
    \/ \E h \in Handles, len \in 1..RecvCap : TcpRecv(h, len)
    \/ \E op \in {"close", "abort", "reset"}, S \in SUBSET Handles : ClosingCommand(op, S)
    \/ CloseSlot

---------------------------------------------------------------------------
\* The socket thread: socketLoop().

\* On with the same slot, or to the next; to pc after the last.
Goto(pc) == spc' = pc /\ UNCHANGED <<cur, sd, new, chunk, watched>>
NextSlot(this, pc) ==
    /\ cur' = IF cur = NumHandles THEN 1 ELSE cur + 1
    /\ spc' = IF cur = NumHandles THEN pc ELSE this
    /\ sd' = None /\ new' = None /\ chunk' = <<>>
NextToArm    == NextSlot("arm", "select")
NextToHandle ==
    /\ NextSlot("handle", "close")
    /\ watched' = IF cur = NumHandles THEN Unwatched ELSE watched

\* The sockets that were handed over are closed, when none is watched.
CloseHandedOver ==
    /\ spc = "close" /\ Goto("arm")
    /\ fds' = [f \in Fds |-> IF f \in Deferred THEN None ELSE fds[f]]
    /\ toClose' = <<>>
    /\ UNCHANGED <<slot, made, cmd>>

\* What is asked of select() for the slot: incoming data only while recvBuf has
\* room, outgoing while there is some.
Watch(f) ==
    /\ watched' = [watched EXCEPT ![cur] =
         [fd |-> f, id |-> fds[f].id,
          r |-> slot[cur].state # "SynSent" /\ Len(slot[cur].recvBuf) < RecvCap,
          w |-> slot[cur].state = "SynSent" \/ slot[cur].sendBuf # <<>>]]
    /\ NextToArm

Arm ==
    /\ spc = "arm"
    /\ LET f == slot[cur].sock
       IN  IF f = None THEN NextToArm /\ UNCHANGED watched
           ELSE IF slot[cur].state # "FinWait1" THEN Watch(f)
           ELSE spc' = "armFin" /\ sd' = f /\ UNCHANGED <<cur, new, chunk, watched>>
    /\ UNCHANGED <<slot, toClose, fds, made, cmd>>

\* Mutant: the close has no deadline.
NeverDue(h) == FALSE
DeadlineOver(h) == slot[h].due

\* A slot that is being closed: its FIN, and its end when the peer never closes.
ArmFin ==
    /\ spc = "armFin"
    /\ LET fin == ~slot[cur].finSent /\ Drained(cur)
       IN  /\ slot' = [slot EXCEPT ![cur].finSent = @ \/ fin]
           /\ fds' = [fds EXCEPT ![sd].shut = @ \/ fin]
    /\ IF DeadlineOver(cur) THEN Goto("armDrop") ELSE Watch(sd)
    /\ UNCHANGED <<toClose, made, cmd>>

ArmDrop ==
    /\ spc = "armDrop"
    /\ RequestClose(cur, FALSE) /\ NextToArm
    /\ UNCHANGED <<fds, made, cmd, watched>>

HasData(f)  == fds[f].got < fds[f].sent
Readable(f) == CASE fds[f].kind = "listen" -> fds[f].caller
                 [] fds[f].kind = "stream" -> HasData(f) \/ fds[f].fin \/ fds[f].reset
                 [] OTHER -> FALSE
Writable(f) == fds[f].kind \in {"stream", "refused"}

\* select(): what is ready of what is watched.  When it is nothing, a poke or
\* the time-out ends it; both only lead to another pass.
Select ==
    /\ spc = "select"
    /\ LET Ready(w) == IF w = None THEN None
                       ELSE [w EXCEPT !.r = @ /\ Readable(w.fd), !.w = @ /\ Writable(w.fd)]
           ready == [h \in Handles |-> Ready(watched[h])]
           some == \E h \in Handles : ready[h] # None /\ (ready[h].r \/ ready[h].w)
       IN  /\ spc' = IF some THEN "handle" ELSE "close"
           /\ watched' = IF some THEN ready ELSE Unwatched
    /\ UNCHANGED <<slot, toClose, fds, made, cmd, cur, sd, new, chunk>>

\* Mutant: what was ready is taken for the socket the slot has now.
OpenAtAll(h) == slot[h].sock # None /\ watched[h] # None
\* The socket that was watched still is the slot's.
Watches(h) == watched[h] # None /\ slot[h].sock = watched[h].fd

\* What is to be done for a slot, by its state: SO_ERROR tells how a connect()
\* has ended.
Handle ==
    /\ spc = "handle"
    /\ LET w == watched[cur]
           state == slot[cur].state
           stream == state \in {"Established", "CloseWait", "FinWait1"}
           On(pc) == spc' = pc /\ sd' = w.fd /\ UNCHANGED <<cur, new, chunk, watched>>
       IN  IF ~Watches(cur) THEN NextToHandle
           ELSE CASE state = "SynSent" /\ w.w ->
                        On(IF fds[w.fd].kind = "refused" THEN "drop" ELSE "up")
                  [] state = "Listen" /\ w.r -> On("accept")
                  [] stream /\ w.w -> On("flush")
                  [] stream /\ ~w.w /\ w.r -> On("recv")
                  [] OTHER -> NextToHandle
    /\ UNCHANGED <<slot, toClose, fds, made, cmd>>

\* Mutant: the socket is not compared again.
NotCompared == TRUE
\* Under the mutex: the slot still has the socket.
StillOurs == slot[cur].sock = sd

\* connect() has succeeded.
Connected ==
    /\ spc = "up"
    /\ slot' = IF StillOurs THEN [slot EXCEPT ![cur].state = "Established"] ELSE slot
    /\ NextToHandle
    /\ UNCHANGED <<toClose, fds, made, cmd>>

\* accept(), without the mutex ...
Accept ==
    /\ spc = "accept"
    /\ IF CanOpen
       THEN /\ new' = LowestFd
            /\ fds' = [fds EXCEPT ![new'] = NewSocket("stream"),
                                 ![sd] = [fds[sd] EXCEPT !.caller = FALSE]]
            /\ made' = made + 1
            /\ spc' = "take"
            /\ UNCHANGED <<cur, sd, chunk, watched>>
       ELSE NextToHandle /\ UNCHANGED <<fds, made>>
    /\ UNCHANGED <<slot, toClose, cmd>>

\* ... and with it: the slot becomes the connection, when it still is that
\* listener and the caller is one it waits for.
Take ==
    /\ spc = "take"
    /\ \/ /\ StillOurs
          /\ slot' = [slot EXCEPT ![cur] = [slot[cur] EXCEPT !.sock = new, !.state = "Established",
                                                           !.conn = fds[new].id]]
          /\ DeferSockClose(sd) /\ UNCHANGED fds
       \/ /\ fds' = [fds EXCEPT ![new] = None]
          /\ UNCHANGED <<slot, toClose>>
    /\ NextToHandle
    /\ UNCHANGED <<made, cmd>>

\* Data that is queued is sent, as much as the host takes.
Flush ==
    /\ spc = "flush"
    /\ LET queued == IF StillOurs THEN slot[cur].sendBuf ELSE <<>>
       IN  IF queued # <<>> /\ SendFails(sd)
           THEN Goto("drop") /\ UNCHANGED <<slot, fds>>
           ELSE /\ \E k \in 0..Len(queued) :
                     /\ fds' = Sent(sd, queued, k)
                     /\ slot' = IF StillOurs THEN [slot EXCEPT ![cur].sendBuf = After(@, k)]
                                ELSE slot
                /\ IF watched[cur].r THEN Goto("recv") ELSE NextToHandle
    /\ UNCHANGED <<toClose, made, cmd>>

Room == RecvCap - Len(slot[cur].recvBuf)

\* netRecv(), no more than there is room for.  The end of the peer's data is the
\* end of the connection when the MSX has closed its side too.
Recv ==
    /\ spc = "recv"
    /\ LET left == fds[sd].sent - fds[sd].got
           n == IF left < Room THEN left ELSE Room
       IN  IF ~StillOurs \/ Room = 0
           THEN NextToHandle /\ UNCHANGED fds
           ELSE IF n > 0
           THEN /\ chunk' = Bytes(fds[sd].id, fds[sd].got, n)
                /\ fds' = [fds EXCEPT ![sd].got = @ + n]
                /\ spc' = "store" /\ UNCHANGED <<cur, sd, new, watched>>
           ELSE /\ Goto(IF fds[sd].reset \/ slot[cur].state = "FinWait1" THEN "drop"
                        ELSE "closeWait")
                /\ UNCHANGED fds
    /\ UNCHANGED <<slot, toClose, made, cmd>>

Store ==
    /\ spc = "store"
    /\ slot' = IF StillOurs
               THEN [slot EXCEPT ![cur].recvBuf = @ \o chunk] ELSE slot
    /\ NextToHandle
    /\ UNCHANGED <<toClose, fds, made, cmd>>

PeerClosed ==
    /\ spc = "closeWait"
    /\ slot' = IF StillOurs THEN [slot EXCEPT ![cur].state = "CloseWait"] ELSE slot
    /\ NextToHandle
    /\ UNCHANGED <<toClose, fds, made, cmd>>

\* A connect() or a connection that failed, or both sides are closed.
Drop ==
    /\ spc = "drop"
    /\ RequestClose(cur, FALSE) /\ NextToHandle
    /\ UNCHANGED <<fds, made, cmd>>

SocketLoop == \/ CloseHandedOver \/ Arm \/ ArmFin \/ ArmDrop \/ Select
              \/ Handle \/ Connected \/ Accept \/ Take \/ Flush \/ Recv \/ Store
              \/ PeerClosed \/ Drop

---------------------------------------------------------------------------
\* The host's network: connections succeed or not, callers come, the peer
\* sends, closes its side, and resets.  What happens to a socket that is only
\* waiting to be closed is left out: nobody looks at it any more.

Changes(f, s) ==
    fds' = [fds EXCEPT ![f] = s] /\ UNCHANGED <<slot, toClose, made, cmd, socketThread>>
InUse(kind)   == {f \in Fds \ Deferred : fds[f] # None /\ fds[f].kind = kind}
OpenStreams   == {f \in InUse("stream") : ~fds[f].reset}

Network ==
    \/ \E f \in InUse("connecting"), kind \in {"stream", "refused"} :
            Changes(f, [fds[f] EXCEPT !.kind = kind])
    \/ \E f \in InUse("listen") : ~fds[f].caller /\ Changes(f, [fds[f] EXCEPT !.caller = TRUE])
    \/ \E f \in OpenStreams : /\ ~fds[f].fin /\ Moved(f) < MaxBytes
                              /\ Changes(f, [fds[f] EXCEPT !.sent = @ + 1])
    \/ \E f \in OpenStreams : ~fds[f].fin /\ Changes(f, [fds[f] EXCEPT !.fin = TRUE])
    \/ \E f \in OpenStreams : Changes(f, [fds[f] EXCEPT !.reset = TRUE])

\* CLOSE_TIMEOUT is over.
TimePasses(h) ==
    /\ slot[h].state = "FinWait1" /\ ~slot[h].due
    /\ slot' = [slot EXCEPT ![h].due = TRUE]
    /\ UNCHANGED <<toClose, fds, made, cmd, socketThread>>

Next == Emulation \/ SocketLoop \/ Network \/ \E h \in Handles : TimePasses(h)

\* The socket thread runs and time passes; nothing is assumed of the MSX, which
\* need not read what has come, nor of the network.
Spec == Init /\ [][Next]_vars /\ WF_vars(SocketLoop)
             /\ \A h \in Handles : WF_vars(TimePasses(h))

---------------------------------------------------------------------------
TypeOK ==
    /\ slot \in [Handles -> Slot]
    /\ \A h \in Handles : Len(slot[h].recvBuf) <= RecvCap /\ Len(slot[h].sendBuf) <= SendCap
    /\ fds \in [Fds -> HostSocket \cup {None}]
    /\ toClose \in Seq(Fds) /\ made \in 0..MaxSockets
    /\ cmd \in Closing \cup {None}
    /\ spc \in {"close", "arm", "armFin", "armDrop", "select", "handle", "up",
                "accept", "take", "flush", "recv", "store", "closeWait", "drop"}
    /\ cur \in Handles /\ {sd, new} \subseteq Fds \cup {None} /\ chunk \in Seq(Byte)
    /\ watched \in [Handles -> Watched \cup {None}]

\* What the MSX reads on a handle is what the peer of the connection it has
\* there sent, all of it and in order, also when the connection has ended and
\* however little room there was ("dropping whatever doesn't fit would silently
\* truncate the stream", socketLoop()); and it is told that the peer has closed
\* (CloseWait) only when it has all.
ReceivedInOrder == \A h \in Handles :
    LET s == slot[h]
        f == fds[s.sock]
        inHand == IF cur = h /\ sd = s.sock THEN Len(chunk) ELSE 0
    IN  /\ s.recvBuf = Bytes(s.conn, s.seen, Len(s.recvBuf))
        /\ s.sock # None => f.got = s.seen + Len(s.recvBuf) + inHand
        /\ s.sock # None /\ s.state = "CloseWait" /\ ~f.reset => f.got = f.sent

\* What goes out on a connection is what TCP_SEND accepted for it, in order, and
\* the FIN after the last of it: "the FIN goes out as soon as whatever the MSX
\* queued has been sent" (gracefulClose(), cmdTcpSend(), socketLoop()).
FinAfterData ==
    /\ \A f \in Fds : fds[f] # None => fds[f].wire = Bytes(fds[f].id, 0, Len(fds[f].wire))
    /\ \A h \in Handles : slot[h].sock # None =>
         LET f == fds[slot[h].sock]
         IN  f.shut => Len(f.wire) = slot[h].accepted

\* "its number cannot be recycled while another thread is still sitting on it"
\* (UnapiNet.hh): a socket that is watched stays the one it was, each socket
\* has one owner that will close it, and none is closed twice or lost.  Nor is
\* a slot lost ("unusable and unrecoverable", gracefulClose()): it has a socket
\* exactly when it is not closed, so that allocTcpHandle() can give it out again.
SocketsOwned ==
    /\ \A h \in Handles : watched[h] # None =>
         fds[watched[h].fd] # None /\ fds[watched[h].fd].id = watched[h].id
    /\ LET mine == {h \in Handles : slot[h].sock # None}
           inUse == {f \in Fds : fds[f] # None}
           owned == {slot[h].sock : h \in mine} \cup Deferred \cup ({new} \ {None})
       IN  /\ owned = inUse
           /\ Cardinality(inUse) = Cardinality(mine) + Len(toClose)
                                   + (IF new = None THEN 0 ELSE 1)
    /\ \A h \in Handles : (slot[h].sock = None) = (slot[h].state = "Closed")

\* "The socket thread re-checks that the socket is still the one it was watching
\* before publishing anything, so it can never act on a connection the MSX has
\* closed and reopened underneath it" (UnapiNet.hh).  While it arms, the socket
\* is sd, and afterwards what it watches.
OnlyWhatItWatched ==
    [][SocketLoop => \A h \in Handles : slot'[h] # slot[h] =>
         h = cur /\ slot[h].sock = sd]_vars

\* The same for what it says of a connection that was "closed and reopened
\* underneath it", which is what can be checked when Underneath is set.
NotUnderneath ==
    [][SocketLoop => \A h \in Handles : slot[h].sock \notin {None, sd} => slot'[h] = slot[h]]_vars

\* "the connection is dropped when the peer closes too, or when closeDeadline
\* passes and it never does" (UnapiNet.hh): a TCP_CLOSE ends.
CloseEnds == \A h \in Handles : slot[h].state = "FinWait1" ~> slot[h].sock = None
=============================================================================
