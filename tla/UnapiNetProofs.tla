---------------------------- MODULE UnapiNetProofs ---------------------------
(* For any number of handles, sockets and bytes: every socket has one owner, *)
(* the socket thread only changes the connection it watched, and what goes   *)
(* out and comes in is in order and whole.                                   *)
EXTENDS UnapiNet, FiniteSetTheorems, SequenceTheorems, WellFoundedInduction, TLAPS

Open(h)  == slot[h].sock # None
Peer(h)  == fds[slot[h].sock]
Streams  == {"Established", "CloseWait", "FinWait1"}
Handling == {"handle", "up", "accept", "take", "flush", "recv", "store", "closeWait", "drop"}
AtSocket == {"armFin", "armDrop"} \cup (Handling \ {"handle"})

Threads == {"close", "arm", "armFin", "armDrop", "select"} \cup Handling

NetTypes ==
    /\ slot \in [Handles -> Slot]
    /\ fds \in [Fds -> HostSocket \cup {None}]
    /\ toClose \in Seq(Fds) /\ made \in Nat
    /\ cmd \in Closing \cup {None}
    /\ spc \in Threads /\ cur \in Handles
    /\ sd \in Fds \cup {None} /\ new \in Fds \cup {None} /\ chunk \in Seq(Byte)
    /\ watched \in [Handles -> Watched \cup {None}]

\* Slots, sockets to be closed, and the one that was accepted: each socket that
\* is open belongs to one of them, and each of them is open.
OwnInv ==
    /\ \A h \in Handles : Open(h) =>
         Peer(h) # None /\ slot[h].sock \notin Deferred /\ slot[h].sock # new
    /\ \A h, g \in Handles : slot[h].sock = slot[g].sock /\ Open(h) => h = g
    /\ \A i, j \in DOMAIN toClose : toClose[i] = toClose[j] => i = j
    /\ \A f \in Deferred : fds[f] # None /\ f # new
    /\ new # None => fds[new] # None
    /\ \A f \in Fds : fds[f] # None =>
         f = new \/ f \in Deferred \/ \E h \in Handles : slot[h].sock = f

\* What the socket thread watches or has in hand is open.
WatchInv ==
    /\ \A h \in Handles : watched[h] # None =>
         /\ fds[watched[h].fd] # None /\ fds[watched[h].fd].id = watched[h].id
         /\ watched[h].fd # new
    /\ sd # None => fds[sd] # None
    /\ spc = "close" => watched = Unwatched
    /\ spc \in AtSocket <=> sd # None
    /\ spc = "take" <=> new # None

StateInv == \A h \in Handles : (slot[h].sock = None) = (slot[h].state = "Closed")

\* The slot that is dropped, or whose close is looked at, still has the socket.
SafeInv ==
    /\ spc \in {"armFin", "armDrop"} => slot[cur].sock = sd /\ slot[cur].state = "FinWait1"
    /\ spc \in {"drop", "closeWait"} => slot[cur].sock \in {sd, None}
    /\ \A h \in Handles : ~Open(h) =>
         ~slot[h].finSent /\ slot[h].sendBuf = <<>> /\ slot[h].accepted = 0

\* What accept() returned is taken for the slot of a listener.
AcceptInv ==
    /\ spc \in {"accept", "take"} /\ StillOurs => slot[cur].state = "Listen"
    /\ new # None => /\ fds[new].kind = "stream" /\ ~fds[new].shut
                     /\ fds[new].wire = <<>> /\ fds[new].got = 0

\* What a slot has queued follows what is out on its socket, and nothing is
\* queued once the FIN is out.
Sends(s, p) ==
    /\ s.conn = p.id
    /\ s.sendBuf = Bytes(s.conn, Len(p.wire), Len(s.sendBuf))
    /\ s.accepted = Len(p.wire) + Len(s.sendBuf)
    /\ p.shut => s.sendBuf = <<>>
    /\ s.state \in {"Listen", "SynSent"} => s.accepted = 0 /\ ~p.shut
Wired(p) == p.wire = Bytes(p.id, 0, Len(p.wire))

SendInv ==
    /\ \A h \in Handles : Open(h) => Sends(slot[h], Peer(h))
    /\ \A f \in Fds : fds[f] # None => Wired(fds[f])

\* What the socket thread knows of the slot at which it is.
StageInv ==
    /\ spc \in {"flush", "recv", "store", "closeWait"} /\ StillOurs => slot[cur].state \in Streams
    /\ spc = "up" => fds[sd].kind = "stream"
    /\ spc \in {"flush", "recv"} => watched[cur] # None /\ watched[cur].fd = sd
    /\ spc = "recv" => watched[cur].r

\* What was received but is not in recvBuf.
InHand(h) == IF cur = h /\ sd = slot[h].sock THEN Len(chunk) ELSE 0

\* The bytes b of a connection are those that follow its first n.
Stretch(b, conn, n) == b = Bytes(conn, n, Len(b))

\* What a slot has follows what the MSX has read, and all that was received is
\* there, in hand, or was read.
InOrder(s) ==
    /\ Stretch(s.recvBuf, s.conn, s.seen)
    /\ s.state \in {"Listen", "SynSent"} => s.recvBuf = <<>> /\ s.seen = 0
Gets(s, p, hand) ==
    /\ s.conn = p.id
    /\ p.got = s.seen + Len(s.recvBuf) + hand
    /\ Len(s.recvBuf) + hand <= RecvCap
    /\ s.state \in Streams => p.kind = "stream"
    /\ s.state = "CloseWait" => p.fin /\ p.got = p.sent

ReceiveInv ==
    /\ \A h \in Handles : InOrder(slot[h])
    /\ \A h \in Handles : Open(h) => Gets(slot[h], Peer(h), InHand(h))

\* What is in hand is the end of what was received.
ChunkInv ==
    /\ \A f \in Fds : fds[f] # None => fds[f].got <= fds[f].sent
    /\ spc # "store" => chunk = <<>>
    /\ spc = "store" => \E n \in Nat : /\ Stretch(chunk, fds[sd].id, n)
                                       /\ fds[sd].got = n + Len(chunk)
    /\ spc = "closeWait" => fds[sd].fin /\ fds[sd].got = fds[sd].sent

\* A socket was found readable, and is not read yet, or writable.
Due(h) == /\ watched[h] # None /\ watched[h].r /\ watched[h].fd = slot[h].sock
          /\ h > cur \/ (h = cur /\ spc \in {"handle", "flush", "recv"})
Answers(p) == /\ p.kind # "connecting"
              /\ p.kind = "stream" => p.got < p.sent \/ p.fin \/ p.reset
ReadyInv ==
    spc \in Handling => \A h \in Handles :
        /\ Due(h) => Answers(Peer(h))
        /\ watched[h] # None /\ watched[h].w => fds[watched[h].fd].kind \in {"stream", "refused"}

---------------------------------------------------------------------------
\* Numbers, sequences of sockets, and bytes of a connection.

LEMMA Least ==
    ASSUME NEW S, S \subseteq Nat, S # {}
    PROVE  \E x \in S : \A y \in S : x <= y
  <1>1. PICK x \in S : \A y \in S : ~(<<y, x>> \in OpToRel(<, Nat))
    BY NatLessThanWellFounded, WFMin
  <1>2. ASSUME NEW y \in S PROVE x <= y
    <2>1. x \in Nat /\ y \in Nat
      OBVIOUS
    <2>2. ~(y < x)
      BY <1>1, <2>1 DEF OpToRel
    <2>. QED  BY <2>1, <2>2
  <1>. QED  BY <1>2

LEMMA LowestIsFree ==
    ASSUME CanOpen
    PROVE  LowestFd \in Fds /\ fds[LowestFd] = None
  <1>1. FreeFds # {} /\ FreeFds \subseteq Nat
    BY ConstantsAssumption DEF CanOpen, FreeFds
  <1>2. \E f \in FreeFds : \A g \in FreeFds : f <= g
    BY <1>1, Least
  <1>3. LowestFd \in FreeFds
    BY <1>2 DEF LowestFd
  <1>. QED  BY <1>3 DEF FreeFds

LEMMA CurrentIsToDo ==
    ASSUME cmd \in Closing
    PROVE  CurrentSlot \in cmd.todo /\ CurrentSlot \in Handles
  <1>1. cmd.todo # {} /\ cmd.todo \subseteq Handles /\ Handles \subseteq Nat
    BY DEF Closing, Handles
  <1>2. \E h \in cmd.todo : \A g \in cmd.todo : h <= g
    BY <1>1, Least
  <1>. QED  BY <1>1, <1>2 DEF CurrentSlot

LEMMA OneMoreDeferred ==
    ASSUME NEW q \in Seq(Fds), NEW f \in Fds
    PROVE  /\ Append(q, f) \in Seq(Fds) /\ ToSet(Append(q, f)) = ToSet(q) \cup {f}
           /\ (\A i, j \in DOMAIN q : q[i] = q[j] => i = j) /\ f \notin ToSet(q) =>
                LET p == Append(q, f) IN \A i, j \in DOMAIN p : p[i] = p[j] => i = j
  <1>. DEFINE p == Append(q, f)
  <1>1. /\ p \in Seq(Fds) /\ DOMAIN p = DOMAIN q \cup {Len(q) + 1} /\ p[Len(q) + 1] = f
        /\ \A i \in DOMAIN q : p[i] = q[i]
    OBVIOUS
  <1>. HIDE DEF p
  <1>2. ToSet(p) = ToSet(q) \cup {f}
    BY <1>1 DEF ToSet
  <1>3. ASSUME \A i, j \in DOMAIN q : q[i] = q[j] => i = j, f \notin ToSet(q)
        PROVE  \A i, j \in DOMAIN p : p[i] = p[j] => i = j
    BY <1>1, <1>3 DEF ToSet
  <1>. QED  BY <1>1, <1>2, <1>3 DEF p

LEMMA BytesLen ==
    ASSUME NEW c, NEW n \in Nat, NEW len \in Nat
    PROVE  /\ Len(Bytes(c, n, len)) = len /\ DOMAIN Bytes(c, n, len) = 1..len
           /\ \A i \in 1..len : Bytes(c, n, len)[i] = [conn |-> c, n |-> n + i]
           /\ c \in Nat => Bytes(c, n, len) \in Seq(Byte)
           /\ Bytes(c, n, 0) = <<>>
  BY DEF Bytes, Byte

LEMMA BytesCut ==
    ASSUME NEW c \in Nat, NEW n \in Nat, NEW len \in Nat, NEW k \in 0..len,
           NEW j \in Nat, j = n + k, NEW r \in Nat, r = len - k
    PROVE  /\ SubSeq(Bytes(c, n, len), 1, k) = Bytes(c, n, k)
           /\ After(Bytes(c, n, len), k) = Bytes(c, j, r)
  BY DEF Bytes, Byte, After

---------------------------------------------------------------------------
\* What happens to the slots and the sockets: nothing that concerns who owns
\* which, or ...
SocketsKept ==
    /\ \A h \in Handles : slot'[h].sock = slot[h].sock
    /\ toClose' = toClose /\ new' = new
    /\ \A f \in Fds : /\ fds'[f] = None <=> fds[f] = None
                      /\ fds[f] # None => fds'[f].id = fds[f].id

\* ... a slot gives its socket up, ...
GivenUp(h) ==
    /\ slot'[h].sock = None /\ \A g \in Handles \ {h} : slot'[g].sock = slot[g].sock
    /\ IF Open(h) THEN toClose' = Append(toClose, slot[h].sock) ELSE toClose' = toClose
    /\ fds' = fds /\ new' = new

\* ... or a socket is made, for a slot or to be taken.
SocketMade(f) ==
    /\ fds[f] = None /\ fds'[f] # None
    /\ toClose' = toClose
    /\ \A e \in Fds \ {f} : /\ fds'[e] = None <=> fds[e] = None
                            /\ fds[e] # None => fds'[e].id = fds[e].id

\* A slot is changed.
LEMMA SlotChanged ==
    ASSUME NetTypes, NEW h \in Handles, NEW s \in Slot, slot' = [slot EXCEPT ![h] = s]
    PROVE  /\ slot' \in [Handles -> Slot] /\ slot'[h] = s
           /\ \A g \in Handles \ {h} : slot'[g] = slot[g]
  BY DEF NetTypes

LEMMA SocketChanged ==
    ASSUME NetTypes, NEW f \in Fds, NEW s \in HostSocket, fds' = [fds EXCEPT ![f] = s]
    PROVE  /\ fds' \in [Fds -> HostSocket \cup {None}] /\ fds'[f] = s /\ fds'[f] # None
           /\ \A e \in Fds \ {f} : fds'[e] = fds[e]
  BY NoneAssumption DEF NetTypes

LEMMA OpenSocket ==
    ASSUME NetTypes
    PROVE  /\ \A f \in Fds : fds[f] # None => fds[f] \in HostSocket
           /\ \A h \in Handles : slot[h] \in Slot /\ (Open(h) => slot[h].sock \in Fds)
           /\ None \notin Fds /\ Deferred \subseteq Fds
  BY ConstantsAssumption DEF NetTypes, Slot, Open, Deferred, ToSet

LEMMA Requested ==
    ASSUME NetTypes, NEW h \in Handles, NEW clear \in BOOLEAN, RequestClose(h, clear)
    PROVE  /\ slot' \in [Handles -> Slot] /\ toClose' \in Seq(Fds)
           /\ \A g \in Handles \ {h} : slot'[g] = slot[g]
           /\ LET s == slot'[h]
              IN  /\ s.sock = None /\ s.state = "Closed" /\ ~s.finSent /\ s.sendBuf = <<>>
                  /\ s.accepted = 0 /\ s.recvBuf = IF clear THEN <<>> ELSE slot[h].recvBuf
                  /\ s.conn = slot[h].conn /\ s.seen = slot[h].seen /\ s.due = slot[h].due
           /\ fds' = fds /\ new' = new => GivenUp(h)
  <1>. DEFINE s == [slot[h] EXCEPT !.sock = None, !.state = "Closed",
                  !.finSent = FALSE, !.sendBuf = <<>>, !.accepted = 0,
                  !.recvBuf = IF clear THEN <<>> ELSE slot[h].recvBuf]
  <1>0. slot[h] \in Slot
    BY DEF NetTypes
  <1>1. slot[h] \in Slot /\ slot' = [slot EXCEPT ![h] = s]
    BY <1>0 DEF RequestClose
  <1>2. /\ s \in Slot
        /\ s.sock = None /\ s.state = "Closed" /\ ~s.finSent /\ s.sendBuf = <<>>
        /\ s.accepted = 0 /\ s.recvBuf = IF clear THEN <<>> ELSE slot[h].recvBuf
        /\ s.conn = slot[h].conn /\ s.seen = slot[h].seen /\ s.due = slot[h].due
    <2>1. "Closed" \in TcpStates /\ <<>> \in Seq(Byte)
      BY DEF TcpStates
    <2>2. slot[h].recvBuf \in Seq(Byte)
      BY <1>0 DEF Slot
    <2>3. (IF clear THEN <<>> ELSE slot[h].recvBuf) \in Seq(Byte)
      BY <2>1, <2>2
    <2>. QED  BY <1>0, <2>1, <2>3 DEF Slot
  <1>. HIDE DEF s
  <1>3. slot' \in [Handles -> Slot] /\ slot'[h] = s /\ \A g \in Handles \ {h} : slot'[g] = slot[g]
    BY <1>1, <1>2, SlotChanged
  <1>4. IF Open(h) THEN toClose' = Append(toClose, slot[h].sock) ELSE toClose' = toClose
    BY DEF RequestClose, DeferSockClose, Open
  <1>5. toClose' \in Seq(Fds)
    <2>1. CASE Open(h)
      <3>1. slot[h].sock \in Fds /\ toClose \in Seq(Fds)
        BY <2>1, OpenSocket DEF NetTypes
      <3>. QED  BY <1>4, <2>1, <3>1, AppendProperties
    <2>2. CASE ~Open(h)
      BY <1>4, <2>2 DEF NetTypes
    <2>. QED  BY <2>1, <2>2
  <1>. QED  BY <1>2, <1>3, <1>4, <1>5 DEF GivenUp

---------------------------------------------------------------------------
\* What each command does to the slots and the sockets.

LEMMA NewSocketIs ==
    ASSUME NetTypes, NEW kind \in {"connecting", "listen", "stream"}
    PROVE  LET s == NewSocket(kind)
           IN  /\ s \in HostSocket /\ s.kind = kind /\ s.id = made + 1 /\ s.sent = 0 /\ s.got = 0
               /\ ~s.fin /\ ~s.reset /\ s.wire = <<>> /\ ~s.shut
  <1>1. made + 1 \in Nat /\ <<>> \in Seq(Byte)
    BY DEF NetTypes
  <1>. QED  BY <1>1 DEF NewSocket, HostSocket

LEMMA TcpOpenEffect ==
    ASSUME NetTypes, NEW h \in Handles, NEW state \in DOMAIN KindOf, TcpOpen(h, state)
    PROVE  LET f == LowestFd
               s == slot'[h]
               p == fds'[f]
           IN  /\ ~Open(h) /\ f \in Fds /\ fds[f] = None /\ SocketMade(f)
               /\ slot' \in [Handles -> Slot] /\ \A g \in Handles \ {h} : slot'[g] = slot[g]
               /\ s.sock = f /\ s.state = state /\ ~s.finSent /\ s.recvBuf = <<>> /\ s.sendBuf = <<>>
               /\ s.conn = made + 1 /\ s.seen = 0 /\ s.accepted = 0
               /\ fds' \in [Fds -> HostSocket \cup {None}] /\ \A e \in Fds \ {f} : fds'[e] = fds[e]
               /\ p = NewSocket(KindOf[state])
               /\ made' = made + 1 /\ UNCHANGED <<toClose, cmd, socketThread>>
               /\ state \in {"Established", "SynSent", "Listen"}
               /\ KindOf[state] = CASE state = "Established" -> "stream"
                                    [] state = "SynSent" -> "connecting"
                                    [] OTHER -> "listen"
  <1>. DEFINE f == LowestFd
              o == [slot[h] EXCEPT !.sock = f, !.state = state, !.finSent = FALSE, !.recvBuf = <<>>,
                    !.sendBuf = <<>>, !.conn = made + 1, !.seen = 0, !.accepted = 0]
  <1>1. /\ slot' = [slot EXCEPT ![h] = o] /\ fds' = [fds EXCEPT ![f] = NewSocket(KindOf[state])]
        /\ made' = made + 1 /\ UNCHANGED <<toClose, cmd, socketThread>> /\ CanOpen /\ ~Open(h)
    BY DEF TcpOpen, Opened, Free, Open
  <1>2. f \in Fds /\ fds[f] = None
    BY <1>1, LowestIsFree
  <1>. HIDE DEF f
  <1>3. /\ state \in {"Established", "SynSent", "Listen"}
        /\ KindOf[state] = CASE state = "Established" -> "stream"
                             [] state = "SynSent" -> "connecting"
                             [] OTHER -> "listen"
    BY DEF KindOf
  <1>4. slot[h] \in Slot /\ made + 1 \in Nat /\ <<>> \in Seq(Byte) /\ state \in TcpStates
    BY <1>3 DEF NetTypes, TcpStates
  <1>5. o \in Slot
    BY <1>2, <1>4 DEF Slot
  <1>6. /\ o.sock = f /\ o.state = state /\ ~o.finSent /\ o.recvBuf = <<>> /\ o.sendBuf = <<>>
        /\ o.conn = made + 1 /\ o.seen = 0 /\ o.accepted = 0
    BY <1>4 DEF Slot
  <1>. HIDE DEF o
  <1>7. slot' \in [Handles -> Slot] /\ slot'[h] = o /\ \A g \in Handles \ {h} : slot'[g] = slot[g]
    BY <1>1, <1>5, SlotChanged
  <1>8. NewSocket(KindOf[state]) \in HostSocket
    BY <1>3, NewSocketIs
  <1>9. /\ fds' \in [Fds -> HostSocket \cup {None}] /\ fds'[f] = NewSocket(KindOf[state])
        /\ fds'[f] # None /\ \A e \in Fds \ {f} : fds'[e] = fds[e]
    BY <1>1, <1>2, <1>8, SocketChanged
  <1>10. SocketMade(f)
    BY <1>1, <1>2, <1>9 DEF SocketMade
  <1>. QED  BY <1>1, <1>2, <1>3, <1>6, <1>7, <1>9, <1>10 DEF f

\* Sending on a socket.
LEMMA SentEffect ==
    ASSUME NetTypes, NEW f \in Fds, fds[f] # None, NEW bytes \in Seq(Byte),
           NEW k \in 0..Len(bytes), fds' = Sent(f, bytes, k)
    PROVE  LET p == fds'[f]
           IN  /\ fds' \in [Fds -> HostSocket \cup {None}] /\ p # None
               /\ \A e \in Fds \ {f} : fds'[e] = fds[e]
               /\ p.wire = fds[f].wire \o SubSeq(bytes, 1, k)
               /\ p.kind = fds[f].kind /\ p.id = fds[f].id /\ p.sent = fds[f].sent
               /\ p.got = fds[f].got /\ p.fin = fds[f].fin /\ p.reset = fds[f].reset
               /\ p.shut = fds[f].shut
  <1>. DEFINE wire == fds[f].wire \o SubSeq(bytes, 1, k)
              p == [fds[f] EXCEPT !.wire = wire]
  <1>1. fds[f] \in HostSocket
    BY OpenSocket
  <1>2. wire \in Seq(Byte)
    <2>1. fds[f].wire \in Seq(Byte)
      BY <1>1 DEF HostSocket
    <2>2. SubSeq(bytes, 1, k) \in Seq(Byte)
      OBVIOUS
    <2>. QED  BY <2>1, <2>2
  <1>3. fds' = [fds EXCEPT ![f] = p]
    BY DEF Sent, NetTypes
  <1>. HIDE DEF wire
  <1>4. /\ p \in HostSocket /\ p.wire = wire
        /\ p.kind = fds[f].kind /\ p.id = fds[f].id /\ p.sent = fds[f].sent
        /\ p.got = fds[f].got /\ p.fin = fds[f].fin /\ p.reset = fds[f].reset
        /\ p.shut = fds[f].shut
    BY <1>1, <1>2 DEF HostSocket
  <1>. HIDE DEF p
  <1>5. /\ fds' \in [Fds -> HostSocket \cup {None}] /\ fds'[f] = p /\ fds'[f] # None
        /\ \A e \in Fds \ {f} : fds'[e] = fds[e]
    BY <1>3, <1>4, SocketChanged
  <1>. QED  BY <1>4, <1>5 DEF wire

\* TCP_SEND fails, or its data goes behind what is queued or to the host.
SentBy(h, len) ==
    LET s == slot[h]
        data == Bytes(s.conn, s.accepted, len)
    IN  \E k \in 0..len :
          /\ \A g \in Handles \ {h} : slot'[g] = slot[g]
          /\ slot'[h].sock = s.sock /\ slot'[h].state = s.state /\ slot'[h].finSent = s.finSent
          /\ slot'[h].recvBuf = s.recvBuf /\ slot'[h].conn = s.conn /\ slot'[h].seen = s.seen
          /\ slot'[h].accepted = s.accepted + len
          /\ \/ /\ s.sendBuf # <<>> /\ slot'[h].sendBuf = s.sendBuf \o data /\ fds' = fds
             \/ /\ s.sendBuf = <<>> /\ slot'[h].sendBuf = After(data, k)
                /\ ~SendFails(s.sock) /\ fds' = Sent(s.sock, data, k)
          /\ toClose' = toClose

LEMMA TcpSendEffect ==
    ASSUME NetTypes, NEW h \in Handles, NEW len \in 1..SendCap, TcpSend(h, len)
    PROVE  /\ Open(h) /\ slot[h].state \in {"Established", "CloseWait"}
           /\ UNCHANGED <<cmd, made, socketThread>>
           /\ slot' \in [Handles -> Slot]
           /\ (RequestClose(h, FALSE) /\ fds' = fds) \/ SentBy(h, len)
  <1>. DEFINE s == slot[h]
              data == Bytes(s.conn, s.accepted, len)
  <1>1. /\ Open(h) /\ s.state \in {"Established", "CloseWait"}
        /\ UNCHANGED <<cmd, made, socketThread>>
    BY DEF TcpSend, Open, EmulationOnly
  <1>2. /\ s \in Slot /\ s.conn \in Nat /\ s.accepted \in Nat /\ s.sendBuf \in Seq(Byte)
        /\ len \in Nat
    <2>1. s \in Slot
      BY DEF NetTypes
    <2>2. len \in Nat
      OBVIOUS
    <2>. QED  BY <2>1, <2>2 DEF Slot
  <1>3. data \in Seq(Byte) /\ Len(data) = len
    BY <1>2, BytesLen
  <1>4. \/ /\ s.sendBuf # <<>> /\ UNCHANGED <<fds, toClose>>
           /\ slot' = [slot EXCEPT ![h] = [s EXCEPT !.sendBuf = s.sendBuf \o data,
                                                    !.accepted = s.accepted + len]]
        \/ RequestClose(h, FALSE) /\ UNCHANGED fds
        \/ /\ s.sendBuf = <<>> /\ ~SendFails(s.sock) /\ UNCHANGED toClose
           /\ \E k \in 0..len :
                /\ fds' = Sent(s.sock, data, k)
                /\ slot' = [slot EXCEPT ![h] = [s EXCEPT !.sendBuf = After(data, k),
                                                         !.accepted = s.accepted + len]]
    BY DEF TcpSend
  <1>. HIDE DEF data, s
  <1>5. ASSUME NEW b \in Seq(Byte),
               slot' = [slot EXCEPT ![h] = [s EXCEPT !.sendBuf = b, !.accepted = s.accepted + len]]
        PROVE  /\ slot' \in [Handles -> Slot] /\ \A g \in Handles \ {h} : slot'[g] = slot[g]
               /\ slot'[h].sock = s.sock /\ slot'[h].state = s.state /\ slot'[h].finSent = s.finSent
               /\ slot'[h].recvBuf = s.recvBuf /\ slot'[h].conn = s.conn /\ slot'[h].seen = s.seen
               /\ slot'[h].accepted = s.accepted + len /\ slot'[h].sendBuf = b
    <2>. DEFINE o == [s EXCEPT !.sendBuf = b, !.accepted = s.accepted + len]
    <2>1. /\ o \in Slot
          /\ o.sock = s.sock /\ o.state = s.state /\ o.finSent = s.finSent
          /\ o.recvBuf = s.recvBuf /\ o.conn = s.conn /\ o.seen = s.seen
          /\ o.accepted = s.accepted + len /\ o.sendBuf = b
      <3>1. s.accepted + len \in Nat
        BY <1>2
      <3>. QED  BY <1>2, <3>1 DEF Slot
    <2>2. slot' = [slot EXCEPT ![h] = o]
      BY <1>5
    <2>. HIDE DEF o
    <2>. QED  BY <2>1, <2>2, SlotChanged
  <1>6. s.sendBuf \o data \in Seq(Byte) /\ \A k \in 0..len : After(data, k) \in Seq(Byte)
    BY <1>2, <1>3 DEF After
  <1>7. CASE RequestClose(h, FALSE) /\ UNCHANGED fds
    BY <1>1, <1>7, Requested DEF s
  <1>8. CASE /\ s.sendBuf # <<>> /\ UNCHANGED <<fds, toClose>>
             /\ slot' = [slot EXCEPT ![h] = [s EXCEPT !.sendBuf = s.sendBuf \o data,
                                                      !.accepted = s.accepted + len]]
    <2>1. 0 \in 0..len
      BY <1>2
    <2>2. SentBy(h, len)
      BY <1>5, <1>6, <1>8, <2>1 DEF SentBy, s, data
    <2>. QED  BY <1>1, <1>5, <1>6, <1>8, <2>2 DEF s
  <1>9. ASSUME NEW k \in 0..len, s.sendBuf = <<>>, ~SendFails(s.sock), UNCHANGED toClose,
               fds' = Sent(s.sock, data, k),
               slot' = [slot EXCEPT ![h] = [s EXCEPT !.sendBuf = After(data, k),
                                                     !.accepted = s.accepted + len]]
        PROVE  slot' \in [Handles -> Slot] /\ SentBy(h, len)
    BY <1>5, <1>6, <1>9 DEF SentBy, s, data
  <1>. QED  BY <1>1, <1>4, <1>7, <1>8, <1>9 DEF s

LEMMA TcpRecvEffect ==
    ASSUME NetTypes, NEW h \in Handles, NEW len \in 1..RecvCap, TcpRecv(h, len)
    PROVE  LET s == slot'[h]
           IN  /\ slot' \in [Handles -> Slot] /\ \A g \in Handles \ {h} : slot'[g] = slot[g]
               /\ len \in 1..Len(slot[h].recvBuf)
               /\ s.recvBuf = After(slot[h].recvBuf, len) /\ s.seen = slot[h].seen + len
               /\ s.sock = slot[h].sock /\ s.state = slot[h].state /\ s.finSent = slot[h].finSent
               /\ s.sendBuf = slot[h].sendBuf /\ s.conn = slot[h].conn
               /\ s.accepted = slot[h].accepted
               /\ UNCHANGED <<toClose, fds, cmd, made, socketThread>>
  <1>. DEFINE o == [slot[h] EXCEPT !.recvBuf = After(slot[h].recvBuf, len),
                                   !.seen = slot[h].seen + len]
  <1>1. /\ slot' = [slot EXCEPT ![h] = o] /\ len \in 1..Len(slot[h].recvBuf)
        /\ UNCHANGED <<toClose, fds, cmd, made, socketThread>>
    BY DEF TcpRecv, EmulationOnly
  <1>2. /\ slot[h] \in Slot /\ slot[h].recvBuf \in Seq(Byte) /\ slot[h].seen \in Nat
        /\ len \in Nat
    <2>1. slot[h] \in Slot
      BY DEF NetTypes
    <2>2. len \in Nat
      OBVIOUS
    <2>. QED  BY <2>1, <2>2 DEF Slot
  <1>3. After(slot[h].recvBuf, len) \in Seq(Byte) /\ slot[h].seen + len \in Nat
    BY <1>1, <1>2 DEF After
  <1>4. /\ o \in Slot
        /\ o.recvBuf = After(slot[h].recvBuf, len) /\ o.seen = slot[h].seen + len
        /\ o.sock = slot[h].sock /\ o.state = slot[h].state /\ o.finSent = slot[h].finSent
        /\ o.sendBuf = slot[h].sendBuf /\ o.conn = slot[h].conn
        /\ o.accepted = slot[h].accepted
    BY <1>2, <1>3 DEF Slot
  <1>. HIDE DEF o
  <1>. QED  BY <1>1, <1>4, SlotChanged

\* A socket is told that no more follows, or not yet.
LEMMA ShutEffect ==
    ASSUME NetTypes, NEW f \in Fds, fds[f] # None, NEW b \in BOOLEAN,
           fds' = [fds EXCEPT ![f].shut = b]
    PROVE  LET p == fds'[f]
           IN  /\ fds' \in [Fds -> HostSocket \cup {None}] /\ p # None
               /\ \A e \in Fds \ {f} : fds'[e] = fds[e]
               /\ p.wire = fds[f].wire /\ p.shut = b
               /\ p.kind = fds[f].kind /\ p.id = fds[f].id /\ p.sent = fds[f].sent
               /\ p.got = fds[f].got /\ p.fin = fds[f].fin /\ p.reset = fds[f].reset
  <1>. DEFINE p == [fds[f] EXCEPT !.shut = b]
  <1>1. fds[f] \in HostSocket
    BY OpenSocket
  <1>2. fds' = [fds EXCEPT ![f] = p]
    BY DEF NetTypes
  <1>3. /\ p \in HostSocket /\ p.wire = fds[f].wire /\ p.shut = b
        /\ p.kind = fds[f].kind /\ p.id = fds[f].id /\ p.sent = fds[f].sent
        /\ p.got = fds[f].got /\ p.fin = fds[f].fin /\ p.reset = fds[f].reset
    BY <1>1 DEF HostSocket
  <1>. HIDE DEF p
  <1>4. /\ fds' \in [Fds -> HostSocket \cup {None}] /\ fds'[f] = p /\ fds'[f] # None
        /\ \A e \in Fds \ {f} : fds'[e] = fds[e]
    BY <1>2, <1>3, SocketChanged
  <1>. QED  BY <1>3, <1>4

\* A TCP_CLOSE lets a connection go, with what is still to be sent.
HalfClosed(h) ==
    /\ Open(h) /\ slot[h].state \in {"Established", "CloseWait"}
    /\ \A g \in Handles \ {h} : slot'[g] = slot[g]
    /\ slot'[h].sock = slot[h].sock /\ slot'[h].state = "FinWait1"
    /\ slot'[h].recvBuf = slot[h].recvBuf /\ slot'[h].sendBuf = slot[h].sendBuf
    /\ slot'[h].conn = slot[h].conn /\ slot'[h].seen = slot[h].seen
    /\ slot'[h].accepted = slot[h].accepted
    /\ fds' = [fds EXCEPT ![slot[h].sock].shut = Drained(h)]
    /\ toClose' = toClose

LEMMA CloseSlotEffect ==
    ASSUME NetTypes, CloseSlot
    PROVE  LET h == CurrentSlot
           IN  /\ h \in Handles /\ MayAct(h) /\ UNCHANGED <<made, socketThread>>
               /\ slot' \in [Handles -> Slot] /\ cmd' \in Closing \cup {None}
               /\ \/ UNCHANGED <<slot, toClose, fds>>
                  \/ \E clear \in BOOLEAN : RequestClose(h, clear) /\ fds' = fds
                  \/ HalfClosed(h)
  <1>. DEFINE h == CurrentSlot
  <1>1. cmd \in Closing /\ MayAct(h) /\ UNCHANGED <<made, socketThread>>
    BY DEF CloseSlot, NetTypes, EmulationOnly
  <1>2. h \in cmd.todo /\ h \in Handles
    BY <1>1, CurrentIsToDo
  <1>3. SlotDone => cmd' \in Closing \cup {None}
    <2>1. CASE cmd.todo = {h}
      BY <2>1 DEF SlotDone
    <2>2. CASE cmd.todo # {h}
      <3>. DEFINE rest == cmd.todo \ {h}
                  op == IF cmd.op = "drop" THEN "close" ELSE cmd.op
      <3>1. rest \in (SUBSET Handles) \ {{}}
        BY <1>1, <1>2, <2>2 DEF Closing
      <3>2. op \in {"close", "drop", "abort", "reset"}
        BY <1>1 DEF Closing
      <3>3. SlotDone => cmd' = [op |-> op, todo |-> rest]
        BY <2>2 DEF SlotDone
      <3>. QED  BY <3>1, <3>2, <3>3 DEF Closing
    <2>. QED  BY <2>1, <2>2
  <1>4. CASE Open(h) /\ slot[h].state \in {"Established", "CloseWait"} /\ HalfClose(h) /\ SlotDone
    <2>. DEFINE o == [slot[h] EXCEPT !.state = "FinWait1", !.due = FALSE, !.finSent = Drained(h)]
    <2>1. slot[h] \in Slot /\ Drained(h) \in BOOLEAN /\ "FinWait1" \in TcpStates
      BY <1>2 DEF NetTypes, Drained, TcpStates
    <2>2. /\ o \in Slot /\ o.sock = slot[h].sock /\ o.state = "FinWait1"
          /\ o.recvBuf = slot[h].recvBuf /\ o.sendBuf = slot[h].sendBuf
          /\ o.conn = slot[h].conn /\ o.seen = slot[h].seen /\ o.accepted = slot[h].accepted
      BY <2>1 DEF Slot
    <2>3. /\ slot' = [slot EXCEPT ![h] = o] /\ toClose' = toClose
          /\ fds' = [fds EXCEPT ![slot[h].sock].shut = Drained(h)]
      BY <1>4 DEF HalfClose
    <2>. HIDE DEF o
    <2>4. slot' \in [Handles -> Slot] /\ slot'[h] = o /\ \A g \in Handles \ {h} : slot'[g] = slot[g]
      BY <1>2, <2>2, <2>3, SlotChanged
    <2>5. HalfClosed(h)
      BY <1>4, <2>2, <2>3, <2>4 DEF HalfClosed
    <2>. HIDE DEF h
    <2>. QED  BY <1>1, <1>2, <1>3, <1>4, <2>4, <2>5 DEF h
  <1>5. CASE cmd' = [cmd EXCEPT !.op = "drop"] /\ UNCHANGED <<slot, toClose, fds>>
    <2>1. cmd' \in Closing
      BY <1>1, <1>5 DEF Closing
    <2>. QED  BY <1>1, <1>2, <1>5, <2>1 DEF NetTypes
  <1>6. CASE RequestClose(h, cmd.op = "reset") /\ SlotDone /\ UNCHANGED fds
    <2>1. (cmd.op = "reset") \in BOOLEAN
      OBVIOUS
    <2>2. slot' \in [Handles -> Slot]
      BY <1>2, <1>6, <2>1, Requested
    <2>. HIDE DEF h
    <2>. QED  BY <1>1, <1>2, <1>3, <1>6, <2>1, <2>2 DEF h
  <1>7. CASE SlotDone /\ UNCHANGED <<slot, toClose, fds>>
    BY <1>1, <1>2, <1>3, <1>7 DEF NetTypes
  <1>8. \/ Open(h) /\ slot[h].state \in {"Established", "CloseWait"} /\ HalfClose(h) /\ SlotDone
        \/ cmd' = [cmd EXCEPT !.op = "drop"] /\ UNCHANGED <<slot, toClose, fds>>
        \/ RequestClose(h, cmd.op = "reset") /\ SlotDone /\ UNCHANGED fds
        \/ SlotDone /\ UNCHANGED <<slot, toClose, fds>>
    <2>. USE DEF Open
    <2>. HIDE DEF h
    <2>. QED  BY DEF CloseSlot, h
  <1>. QED  BY <1>4, <1>5, <1>6, <1>7, <1>8

LEMMA ClosingCommandEffect ==
    ASSUME NetTypes, NEW op \in {"close", "abort", "reset"}, NEW S \in SUBSET Handles,
           ClosingCommand(op, S)
    PROVE  cmd' \in Closing /\ UNCHANGED <<slot, toClose, fds, made, socketThread>>
  BY DEF ClosingCommand, Closing, EmulationOnly

---------------------------------------------------------------------------
\* What each step of the socket thread does to them.

\* It is done with the slot: nothing is in its hand.
LEMMA OnToTheNext ==
    ASSUME NetTypes
    PROVE  /\ \A this, pc \in Threads : NextSlot(this, pc) =>
                /\ cur' \in Handles /\ sd' = None /\ new' = None /\ chunk' = <<>>
                /\ \/ cur = NumHandles /\ cur' = 1 /\ spc' = pc
                   \/ cur # NumHandles /\ cur' = cur + 1 /\ spc' = this
           /\ NextToArm =>
                /\ cur' \in Handles /\ sd' = None /\ new' = None /\ chunk' = <<>>
                /\ \/ cur = NumHandles /\ cur' = 1 /\ spc' = "select"
                   \/ cur # NumHandles /\ cur' = cur + 1 /\ spc' = "arm"
           /\ NextToHandle =>
                /\ cur' \in Handles /\ sd' = None /\ new' = None /\ chunk' = <<>>
                /\ \/ cur = NumHandles /\ cur' = 1 /\ spc' = "close" /\ watched' = Unwatched
                   \/ cur # NumHandles /\ cur' = cur + 1 /\ spc' = "handle" /\ watched' = watched
  <1>1. cur \in Nat /\ cur >= 1 /\ cur <= NumHandles /\ NumHandles \in Nat
    BY ConstantsAssumption DEF NetTypes, Handles
  <1>2. 1 \in Handles /\ (cur # NumHandles => cur + 1 \in Handles)
    BY <1>1 DEF Handles
  <1>3. {"arm", "select", "handle", "close"} \subseteq Threads
    BY DEF Threads, Handling
  <1>4. ASSUME NEW this \in Threads, NEW pc \in Threads, NextSlot(this, pc)
        PROVE  /\ cur' \in Handles /\ sd' = None /\ new' = None /\ chunk' = <<>>
               /\ \/ cur = NumHandles /\ cur' = 1 /\ spc' = pc
                  \/ cur # NumHandles /\ cur' = cur + 1 /\ spc' = this
    BY <1>2, <1>4 DEF NextSlot
  <1>5. NextToHandle => watched' = IF cur = NumHandles THEN Unwatched ELSE watched
    BY DEF NextToHandle
  <1>6. NextToArm => NextSlot("arm", "select")
    BY DEF NextToArm
  <1>7. NextToHandle => NextSlot("handle", "close")
    BY DEF NextToHandle
  <1>. QED  BY <1>3, <1>4, <1>5, <1>6, <1>7

\* The variables of the socket thread keep their types.
ThreadTypes ==
    /\ spc' \in Threads /\ cur' \in Handles
    /\ sd' \in Fds \cup {None} /\ new' \in Fds \cup {None} /\ chunk' \in Seq(Byte)
    /\ watched' \in [Handles -> Watched \cup {None}]

LEMMA ThreadTypesKept ==
    ASSUME NetTypes
    PROVE  /\ UNCHANGED socketThread => ThreadTypes
           /\ \A pc \in Threads : Goto(pc) => ThreadTypes
           /\ \A pc \in Threads, f \in Fds :
                spc' = pc /\ sd' = f /\ UNCHANGED <<cur, new, chunk, watched>> => ThreadTypes
           /\ NextToHandle => ThreadTypes
           /\ NextToArm /\ watched' \in [Handles -> Watched \cup {None}] => ThreadTypes
  <1>1. {"arm", "select", "handle", "close"} \subseteq Threads
    BY DEF Threads, Handling
  <1>2. Unwatched \in [Handles -> Watched \cup {None}]
    BY DEF Unwatched
  <1>3. <<>> \in Seq(Byte)
    OBVIOUS
  <1>4. NextToHandle => ThreadTypes
    BY <1>1, <1>2, <1>3, OnToTheNext DEF ThreadTypes, NetTypes
  <1>5. NextToArm /\ watched' \in [Handles -> Watched \cup {None}] => ThreadTypes
    BY <1>1, <1>3, OnToTheNext DEF ThreadTypes
  <1>6. UNCHANGED socketThread => ThreadTypes
    BY DEF ThreadTypes, NetTypes, socketThread
  <1>7. \A pc \in Threads : Goto(pc) => ThreadTypes
    BY DEF ThreadTypes, NetTypes, Goto
  <1>8. \A pc \in Threads, f \in Fds :
          spc' = pc /\ sd' = f /\ UNCHANGED <<cur, new, chunk, watched>> => ThreadTypes
    BY DEF ThreadTypes, NetTypes
  <1>. QED  BY <1>4, <1>5, <1>6, <1>7, <1>8

LEMMA WatchEffect ==
    ASSUME NetTypes, NEW f \in Fds, fds[f] # None, Watch(f)
    PROVE  /\ NextToArm /\ ThreadTypes
           /\ \A h \in Handles \ {cur} : watched'[h] = watched[h]
           /\ watched'[cur].fd = f /\ watched'[cur].id = fds[f].id
           /\ watched'[cur].r \in BOOLEAN /\ watched'[cur].w \in BOOLEAN
           /\ watched'[cur].r => slot[cur].state # "SynSent" /\ Len(slot[cur].recvBuf) < RecvCap
           /\ watched'[cur].w => slot[cur].state = "SynSent" \/ slot[cur].sendBuf # <<>>
  <1>. DEFINE r == slot[cur].state # "SynSent" /\ Len(slot[cur].recvBuf) < RecvCap
              v == slot[cur].state = "SynSent" \/ slot[cur].sendBuf # <<>>
              w == [fd |-> f, id |-> fds[f].id, r |-> r, w |-> v]
  <1>1. NextToArm /\ watched' = [watched EXCEPT ![cur] = w]
    BY DEF Watch
  <1>2. r \in BOOLEAN /\ v \in BOOLEAN
    OBVIOUS
  <1>. HIDE DEF r, v
  <1>3. fds[f].id \in Nat
    BY OpenSocket DEF HostSocket
  <1>4. w \in Watched /\ w.fd = f /\ w.id = fds[f].id /\ w.r = r /\ w.w = v
    BY <1>2, <1>3 DEF Watched
  <1>. HIDE DEF w
  <1>5. /\ watched' \in [Handles -> Watched \cup {None}] /\ watched'[cur] = w
        /\ \A h \in Handles \ {cur} : watched'[h] = watched[h]
    BY <1>1, <1>4 DEF NetTypes
  <1>6. ThreadTypes
    BY <1>1, <1>5, ThreadTypesKept
  <1>. QED  BY <1>1, <1>2, <1>4, <1>5, <1>6 DEF r, v

LEMMA CloseHandedOverEffect ==
    ASSUME NetTypes, CloseHandedOver
    PROVE  /\ spc = "close" /\ spc' = "arm" /\ UNCHANGED <<cur, sd, new, chunk, watched>>
           /\ fds' \in [Fds -> HostSocket \cup {None}]
           /\ \A f \in Fds : fds'[f] = IF f \in Deferred THEN None ELSE fds[f]
           /\ toClose' = <<>> /\ UNCHANGED <<slot, made, cmd>> /\ ThreadTypes
  <1>1. Goto("arm") /\ "arm" \in Threads
    BY DEF CloseHandedOver, Threads
  <1>2. ThreadTypes
    BY <1>1, ThreadTypesKept
  <1>3. /\ fds' \in [Fds -> HostSocket \cup {None}]
        /\ \A f \in Fds : fds'[f] = IF f \in Deferred THEN None ELSE fds[f]
    BY DEF CloseHandedOver, NetTypes
  <1>. QED  BY <1>1, <1>2, <1>3 DEF CloseHandedOver, Goto

LEMMA ArmEffect ==
    ASSUME NetTypes, OwnInv, Arm
    PROVE  /\ spc = "arm" /\ UNCHANGED <<slot, toClose, fds, made, cmd>> /\ ThreadTypes
           /\ \/ ~Open(cur) /\ NextToArm /\ watched' = watched
              \/ /\ Open(cur) /\ slot[cur].state # "FinWait1" /\ Watch(slot[cur].sock)
                 /\ slot[cur].sock \in Fds /\ Peer(cur) # None
              \/ /\ Open(cur) /\ slot[cur].state = "FinWait1" /\ spc' = "armFin"
                 /\ sd' = slot[cur].sock /\ UNCHANGED <<cur, new, chunk, watched>>
  <1>1. /\ spc = "arm" /\ UNCHANGED <<slot, toClose, fds, made, cmd>>
        /\ \/ ~Open(cur) /\ NextToArm /\ watched' = watched
           \/ Open(cur) /\ slot[cur].state # "FinWait1" /\ Watch(slot[cur].sock)
           \/ /\ Open(cur) /\ slot[cur].state = "FinWait1" /\ spc' = "armFin"
              /\ sd' = slot[cur].sock /\ UNCHANGED <<cur, new, chunk, watched>>
    BY DEF Arm, Open
  <1>2. cur \in Handles /\ watched \in [Handles -> Watched \cup {None}]
    BY DEF NetTypes
  <1>3. Open(cur) => slot[cur].sock \in Fds /\ Peer(cur) # None
    BY <1>2, OpenSocket DEF OwnInv
  <1>4. "armFin" \in Threads
    BY DEF Threads
  <1>5. ThreadTypes
    BY <1>1, <1>2, <1>3, <1>4, ThreadTypesKept, WatchEffect DEF Peer
  <1>. QED  BY <1>1, <1>3, <1>5

\* A field of a slot is set, and those of its owner stay.
SameSlot(h) ==
    /\ slot' \in [Handles -> Slot] /\ \A g \in Handles \ {h} : slot'[g] = slot[g]
    /\ slot'[h].sock = slot[h].sock /\ slot'[h].conn = slot[h].conn
    /\ slot'[h].seen = slot[h].seen /\ slot'[h].accepted = slot[h].accepted

LEMMA ArmFinEffect ==
    ASSUME NetTypes, WatchInv, ArmFin
    PROVE  /\ spc = "armFin" /\ UNCHANGED <<toClose, made, cmd>> /\ ThreadTypes
           /\ sd \in Fds /\ fds[sd] # None
           /\ SameSlot(cur) /\ slot'[cur].state = slot[cur].state
           /\ slot'[cur].recvBuf = slot[cur].recvBuf /\ slot'[cur].sendBuf = slot[cur].sendBuf
           /\ fds' = [fds EXCEPT ![sd].shut = fds[sd].shut \/ (~slot[cur].finSent /\ Drained(cur))]
           /\ (fds[sd].shut \/ (~slot[cur].finSent /\ Drained(cur))) \in BOOLEAN
           /\ \/ spc' = "armDrop" /\ UNCHANGED <<cur, sd, new, chunk, watched>>
              \/ Watch(sd)
  <1>. DEFINE fin == ~slot[cur].finSent /\ Drained(cur)
              o == [slot[cur] EXCEPT !.finSent = slot[cur].finSent \/ fin]
  <1>1. /\ spc = "armFin" /\ UNCHANGED <<toClose, made, cmd>>
        /\ Goto("armDrop") \/ Watch(sd)
    BY DEF ArmFin
  <1>2. cur \in Handles /\ slot[cur] \in Slot /\ slot \in [Handles -> Slot]
    BY DEF NetTypes
  <1>3. sd \in Fds /\ fds[sd] # None /\ fds[sd] \in HostSocket
    BY <1>1, OpenSocket DEF WatchInv, AtSocket, NetTypes
  <1>4. slot' = [slot EXCEPT ![cur] = o]
    BY <1>2 DEF ArmFin
  <1>5. fds' = [fds EXCEPT ![sd].shut = fds[sd].shut \/ fin]
    BY <1>3 DEF ArmFin, NetTypes
  <1>6. (fds[sd].shut \/ fin) \in BOOLEAN /\ (slot[cur].finSent \/ fin) \in BOOLEAN
    OBVIOUS
  <1>. HIDE DEF fin
  <1>7. /\ o \in Slot /\ o.sock = slot[cur].sock /\ o.conn = slot[cur].conn
        /\ o.seen = slot[cur].seen /\ o.accepted = slot[cur].accepted
        /\ o.state = slot[cur].state /\ o.recvBuf = slot[cur].recvBuf
        /\ o.sendBuf = slot[cur].sendBuf
    BY <1>2, <1>6 DEF Slot
  <1>. HIDE DEF o
  <1>8. /\ slot' \in [Handles -> Slot] /\ slot'[cur] = o
        /\ \A g \in Handles \ {cur} : slot'[g] = slot[g]
    BY <1>2, <1>4, <1>7, SlotChanged
  <1>9. SameSlot(cur)
    BY <1>7, <1>8 DEF SameSlot
  <1>10. "armDrop" \in Threads
    BY DEF Threads
  <1>11. ThreadTypes
    BY <1>1, <1>3, <1>10, ThreadTypesKept, WatchEffect
  <1>. QED  BY <1>1, <1>3, <1>5, <1>6, <1>7, <1>8, <1>9, <1>11 DEF Goto, fin

LEMMA ArmDropEffect ==
    ASSUME NetTypes, ArmDrop
    PROVE  /\ spc = "armDrop" /\ UNCHANGED <<fds, made, cmd, watched>> /\ ThreadTypes
           /\ RequestClose(cur, FALSE) /\ NextToArm /\ new' = None
           /\ slot' \in [Handles -> Slot] /\ toClose' \in Seq(Fds)
  <1>1. spc = "armDrop" /\ UNCHANGED <<fds, made, cmd, watched>> /\ RequestClose(cur, FALSE) /\ NextToArm
    BY DEF ArmDrop
  <1>2. cur \in Handles /\ watched \in [Handles -> Watched \cup {None}]
    BY DEF NetTypes
  <1>. QED  BY <1>1, <1>2, ThreadTypesKept, Requested, OnToTheNext

LEMMA SelectEffect ==
    ASSUME NetTypes, Select
    PROVE  /\ spc = "select" /\ UNCHANGED <<slot, toClose, fds, made, cmd, cur, sd, new, chunk>>
           /\ ThreadTypes
           /\ \/ spc' = "close" /\ watched' = Unwatched
              \/ /\ spc' = "handle"
                 /\ \A h \in Handles : watched'[h] # None =>
                      /\ watched[h] # None
                      /\ watched'[h].fd = watched[h].fd /\ watched'[h].id = watched[h].id
                      /\ watched'[h].r <=> watched[h].r /\ Readable(watched[h].fd)
                      /\ watched'[h].w <=> watched[h].w /\ Writable(watched[h].fd)
  <1>. DEFINE Ready(w) == IF w = None THEN None
                          ELSE [w EXCEPT !.r = @ /\ Readable(w.fd), !.w = @ /\ Writable(w.fd)]
              ready == [h \in Handles |-> Ready(watched[h])]
  <1>1. /\ spc = "select" /\ UNCHANGED <<slot, toClose, fds, made, cmd, cur, sd, new, chunk>>
        /\ \/ spc' = "close" /\ watched' = Unwatched
           \/ spc' = "handle" /\ watched' = ready
    BY DEF Select
  <1>2. ASSUME NEW w \in Watched
        PROVE  LET v == [w EXCEPT !.r = @ /\ Readable(w.fd), !.w = @ /\ Writable(w.fd)]
               IN  /\ v \in Watched /\ v.fd = w.fd /\ v.id = w.id
                   /\ v.r <=> w.r /\ Readable(w.fd)
                   /\ v.w <=> w.w /\ Writable(w.fd)
    <2>. DEFINE r == w.r /\ Readable(w.fd)
                v == w.w /\ Writable(w.fd)
    <2>1. r \in BOOLEAN /\ v \in BOOLEAN
      OBVIOUS
    <2>. HIDE DEF r, v
    <2>2. LET u == [w EXCEPT !.r = r, !.w = v]
          IN  u \in Watched /\ u.fd = w.fd /\ u.id = w.id /\ u.r = r /\ u.w = v
      BY <2>1 DEF Watched
    <2>. QED  BY <2>2 DEF r, v
  <1>3. ASSUME NEW h \in Handles, watched[h] # None
        PROVE  /\ ready[h] \in Watched
               /\ ready[h].fd = watched[h].fd /\ ready[h].id = watched[h].id
               /\ ready[h].r <=> watched[h].r /\ Readable(watched[h].fd)
               /\ ready[h].w <=> watched[h].w /\ Writable(watched[h].fd)
    <2>1. watched[h] \in Watched
      BY <1>3 DEF NetTypes
    <2>. QED  BY <1>2, <1>3, <2>1
  <1>4. ASSUME NEW h \in Handles, watched[h] = None
        PROVE  ready[h] = None
    BY <1>4
  <1>5. ready \in [Handles -> Watched \cup {None}]
    <2>1. \A h \in Handles : ready[h] \in Watched \cup {None}
      BY <1>3, <1>4
    <2>2. ready = [h \in Handles |-> ready[h]]
      OBVIOUS
    <2>. HIDE DEF ready
    <2>. QED  BY <2>1, <2>2
  <1>. HIDE DEF ready
  <1>6. Unwatched \in [Handles -> Watched \cup {None}] /\ {"handle", "close"} \subseteq Threads
    BY DEF Unwatched, Threads, Handling
  <1>7. ThreadTypes
    BY <1>1, <1>5, <1>6 DEF ThreadTypes, NetTypes
  <1>. QED  BY <1>1, <1>3, <1>4, <1>7

LEMMA HandleEffect ==
    ASSUME NetTypes, WatchInv, Handle
    PROVE  /\ spc = "handle" /\ UNCHANGED <<slot, toClose, fds, made, cmd>> /\ ThreadTypes
           /\ LET w == watched[cur]
                  state == slot[cur].state
              IN  \/ NextToHandle
                  \/ /\ Watches(cur) /\ w.fd \in Fds /\ sd' = w.fd
                     /\ UNCHANGED <<cur, new, chunk, watched>>
                     /\ \/ state = "SynSent" /\ w.w /\ spc' = "drop"
                        \/ state = "SynSent" /\ w.w /\ spc' = "up" /\ fds[w.fd].kind # "refused"
                        \/ state = "Listen" /\ w.r /\ spc' = "accept"
                        \/ state \in Streams /\ w.w /\ spc' = "flush"
                        \/ state \in Streams /\ w.r /\ spc' = "recv"
  <1>1. /\ spc = "handle" /\ UNCHANGED <<slot, toClose, fds, made, cmd>>
        /\ LET w == watched[cur]
               state == slot[cur].state
           IN  \/ NextToHandle
               \/ /\ Watches(cur) /\ sd' = w.fd
                  /\ UNCHANGED <<cur, new, chunk, watched>>
                  /\ \/ state = "SynSent" /\ w.w /\ spc' = "drop"
                     \/ state = "SynSent" /\ w.w /\ spc' = "up" /\ fds[w.fd].kind # "refused"
                     \/ state = "Listen" /\ w.r /\ spc' = "accept"
                     \/ state \in Streams /\ w.w /\ spc' = "flush"
                     \/ state \in Streams /\ w.r /\ spc' = "recv"
    BY DEF Handle, Streams
  <1>2. {"drop", "up", "accept", "flush", "recv"} \subseteq Threads
    BY DEF Threads, Handling
  <1>3. Watches(cur) => watched[cur].fd \in Fds
    BY DEF Watches, NetTypes, Watched
  <1>4. ThreadTypes
    BY <1>1, <1>2, <1>3, ThreadTypesKept
  <1>. QED  BY <1>1, <1>3, <1>4

\* connect() has succeeded, or the peer has closed its side.
StateSet(state) ==
    /\ StillOurs /\ SameSlot(cur) /\ slot'[cur].state = state
    /\ slot'[cur].recvBuf = slot[cur].recvBuf /\ slot'[cur].sendBuf = slot[cur].sendBuf
    /\ slot'[cur].finSent = slot[cur].finSent

LEMMA StateSetEffect ==
    ASSUME NetTypes, NEW state \in TcpStates,
           slot' = IF StillOurs THEN [slot EXCEPT ![cur].state = state] ELSE slot
    PROVE  slot' \in [Handles -> Slot] /\ (StateSet(state) \/ (~StillOurs /\ slot' = slot))
  <1>. DEFINE o == [slot[cur] EXCEPT !.state = state]
  <1>1. cur \in Handles /\ slot[cur] \in Slot /\ slot \in [Handles -> Slot]
    BY DEF NetTypes
  <1>2. CASE StillOurs
    <2>1. slot' = [slot EXCEPT ![cur] = o]
      BY <1>1, <1>2
    <2>2. /\ o \in Slot /\ o.sock = slot[cur].sock /\ o.conn = slot[cur].conn
          /\ o.seen = slot[cur].seen /\ o.accepted = slot[cur].accepted
          /\ o.state = state /\ o.recvBuf = slot[cur].recvBuf
          /\ o.sendBuf = slot[cur].sendBuf /\ o.finSent = slot[cur].finSent
      BY <1>1 DEF Slot
    <2>. HIDE DEF o
    <2>3. /\ slot' \in [Handles -> Slot] /\ slot'[cur] = o
          /\ \A g \in Handles \ {cur} : slot'[g] = slot[g]
      BY <1>1, <2>1, <2>2, SlotChanged
    <2>. QED  BY <1>2, <2>2, <2>3 DEF StateSet, SameSlot
  <1>3. CASE ~StillOurs
    BY <1>1, <1>3
  <1>. QED  BY <1>2, <1>3

LEMMA ConnectedEffect ==
    ASSUME NetTypes, Connected
    PROVE  /\ spc = "up" /\ UNCHANGED <<toClose, fds, made, cmd>> /\ ThreadTypes /\ NextToHandle
           /\ slot' \in [Handles -> Slot]
           /\ StateSet("Established") \/ (~StillOurs /\ slot' = slot)
  <1>1. /\ spc = "up" /\ UNCHANGED <<toClose, fds, made, cmd>> /\ NextToHandle
        /\ slot' = IF StillOurs THEN [slot EXCEPT ![cur].state = "Established"] ELSE slot
    BY DEF Connected
  <1>2. "Established" \in TcpStates
    BY DEF TcpStates
  <1>. QED  BY <1>1, <1>2, StateSetEffect, ThreadTypesKept

LEMMA PeerClosedEffect ==
    ASSUME NetTypes, PeerClosed
    PROVE  /\ spc = "closeWait" /\ UNCHANGED <<toClose, fds, made, cmd>> /\ ThreadTypes
           /\ NextToHandle /\ slot' \in [Handles -> Slot]
           /\ StateSet("CloseWait") \/ (~StillOurs /\ slot' = slot)
  <1>1. /\ spc = "closeWait" /\ UNCHANGED <<toClose, fds, made, cmd>> /\ NextToHandle
        /\ slot' = IF StillOurs THEN [slot EXCEPT ![cur].state = "CloseWait"] ELSE slot
    BY DEF PeerClosed
  <1>2. "CloseWait" \in TcpStates
    BY DEF TcpStates
  <1>. QED  BY <1>1, <1>2, StateSetEffect, ThreadTypesKept

LEMMA AcceptEffect ==
    ASSUME NetTypes, WatchInv, Accept
    PROVE  /\ spc = "accept" /\ UNCHANGED <<slot, toClose, cmd>> /\ ThreadTypes
           /\ fds' \in [Fds -> HostSocket \cup {None}] /\ made' \in Nat
           /\ sd \in Fds /\ fds[sd] # None
           /\ \/ NextToHandle /\ UNCHANGED <<fds, made>>
              \/ /\ SocketMade(new') /\ new' \in Fds /\ new' # sd /\ spc' = "take"
                 /\ UNCHANGED <<cur, sd, chunk, watched>>
                 /\ fds'[new'] = NewSocket("stream") /\ made' = made + 1
                 /\ \A e \in Fds \ {new', sd} : fds'[e] = fds[e]
                 /\ fds'[sd].wire = fds[sd].wire /\ fds'[sd].shut = fds[sd].shut
                 /\ fds'[sd].kind = fds[sd].kind /\ fds'[sd].id = fds[sd].id
                 /\ fds'[sd].sent = fds[sd].sent /\ fds'[sd].got = fds[sd].got
                 /\ fds'[sd].fin = fds[sd].fin /\ fds'[sd].reset = fds[sd].reset
  <1>1. spc = "accept" /\ UNCHANGED <<slot, toClose, cmd>>
    BY DEF Accept
  <1>2. sd \in Fds /\ fds[sd] # None /\ fds[sd] \in HostSocket
    BY <1>1, OpenSocket DEF WatchInv, AtSocket, Handling, NetTypes
  <1>3. CASE NextToHandle /\ UNCHANGED <<fds, made>>
    BY <1>1, <1>2, <1>3, ThreadTypesKept DEF NetTypes
  <1>4. CASE CanOpen /\ spc' = "take"
    <2>. DEFINE f == LowestFd
                p == NewSocket("stream")
                q == [fds[sd] EXCEPT !.caller = FALSE]
    <2>1. /\ new' = f /\ made' = made + 1 /\ spc' = "take" /\ UNCHANGED <<cur, sd, chunk, watched>>
          /\ fds' = [fds EXCEPT ![f] = p, ![sd] = q]
      BY <1>4 DEF Accept, NextToHandle, NextSlot
    <2>2. f \in Fds /\ fds[f] = None /\ f # sd
      BY <1>2, <1>4, LowestIsFree
    <2>3. p \in HostSocket
      BY NewSocketIs
    <2>4. /\ q \in HostSocket /\ q.wire = fds[sd].wire /\ q.shut = fds[sd].shut
          /\ q.kind = fds[sd].kind /\ q.id = fds[sd].id /\ q.sent = fds[sd].sent
          /\ q.got = fds[sd].got /\ q.fin = fds[sd].fin /\ q.reset = fds[sd].reset
      BY <1>2 DEF HostSocket
    <2>. HIDE DEF f, p, q
    <2>5. /\ fds' \in [Fds -> HostSocket \cup {None}] /\ fds'[f] = p /\ fds'[sd] = q
          /\ \A e \in Fds \ {f, sd} : fds'[e] = fds[e]
      BY <1>2, <2>1, <2>2, <2>3, <2>4 DEF NetTypes
    <2>6. p # None /\ q # None
      BY <2>3, <2>4, NoneAssumption
    <2>7. SocketMade(f)
      BY <1>1, <1>2, <2>2, <2>4, <2>5, <2>6 DEF SocketMade
    <2>8. made' \in Nat
      BY <2>1 DEF NetTypes
    <2>9. ThreadTypes
      BY <2>1, <2>2 DEF ThreadTypes, NetTypes, Threads, Handling
    <2>. QED  BY <1>1, <1>2, <2>1, <2>2, <2>4, <2>5, <2>7, <2>8, <2>9 DEF p
  <1>5. (NextToHandle /\ UNCHANGED <<fds, made>>) \/ (CanOpen /\ spc' = "take")
    BY DEF Accept
  <1>. QED  BY <1>3, <1>4, <1>5

\* The slot of a listener becomes the connection.
TakenOver ==
    /\ StillOurs /\ \A g \in Handles \ {cur} : slot'[g] = slot[g]
    /\ slot'[cur].sock = new /\ slot'[cur].state = "Established"
    /\ slot'[cur].conn = fds[new].id /\ slot'[cur].finSent = slot[cur].finSent
    /\ slot'[cur].recvBuf = slot[cur].recvBuf /\ slot'[cur].sendBuf = slot[cur].sendBuf
    /\ slot'[cur].seen = slot[cur].seen /\ slot'[cur].accepted = slot[cur].accepted
    /\ toClose' = Append(toClose, sd) /\ fds' = fds

LEMMA TakeEffect ==
    ASSUME NetTypes, OwnInv, WatchInv, Take
    PROVE  /\ spc = "take" /\ UNCHANGED <<made, cmd>> /\ ThreadTypes /\ NextToHandle
           /\ sd \in Fds /\ fds[sd] # None /\ new \in Fds /\ fds[new] # None
           /\ slot' \in [Handles -> Slot] /\ toClose' \in Seq(Fds)
           /\ fds' \in [Fds -> HostSocket \cup {None}]
           /\ \/ TakenOver
              \/ /\ UNCHANGED <<slot, toClose>> /\ fds'[new] = None
                 /\ \A e \in Fds \ {new} : fds'[e] = fds[e]
  <1>1. spc = "take" /\ UNCHANGED <<made, cmd>> /\ NextToHandle
    BY DEF Take
  <1>2. /\ sd \in Fds /\ fds[sd] # None /\ new \in Fds /\ fds[new] # None
        /\ cur \in Handles /\ slot[cur] \in Slot
    BY <1>1 DEF OwnInv, WatchInv, AtSocket, Handling, NetTypes
  <1>3. ThreadTypes
    BY <1>1, ThreadTypesKept
  <1>4. CASE fds' = [fds EXCEPT ![new] = None] /\ UNCHANGED <<slot, toClose>>
    <2>1. /\ fds' \in [Fds -> HostSocket \cup {None}] /\ fds'[new] = None
          /\ \A e \in Fds \ {new} : fds'[e] = fds[e]
      BY <1>2, <1>4 DEF NetTypes
    <2>. QED  BY <1>1, <1>2, <1>3, <1>4, <2>1 DEF NetTypes
  <1>5. CASE /\ StillOurs /\ DeferSockClose(sd) /\ UNCHANGED fds
             /\ slot' = [slot EXCEPT ![cur] = [slot[cur] EXCEPT !.sock = new, !.state = "Established",
                                                                !.conn = fds[new].id]]
    <2>. DEFINE o == [slot[cur] EXCEPT !.sock = new, !.state = "Established", !.conn = fds[new].id]
    <2>1. fds[new] # None /\ fds[new].id \in Nat /\ "Established" \in TcpStates
      BY <1>2, OpenSocket DEF HostSocket, TcpStates
    <2>2. /\ o \in Slot /\ o.sock = new /\ o.state = "Established" /\ o.conn = fds[new].id
          /\ o.finSent = slot[cur].finSent /\ o.recvBuf = slot[cur].recvBuf
          /\ o.sendBuf = slot[cur].sendBuf /\ o.seen = slot[cur].seen
          /\ o.accepted = slot[cur].accepted
      BY <1>2, <2>1 DEF Slot
    <2>3. slot' = [slot EXCEPT ![cur] = o]
      BY <1>5
    <2>. HIDE DEF o
    <2>4. /\ slot' \in [Handles -> Slot] /\ slot'[cur] = o
          /\ \A g \in Handles \ {cur} : slot'[g] = slot[g]
      BY <1>2, <2>2, <2>3, SlotChanged
    <2>5. toClose' = Append(toClose, sd) /\ toClose' \in Seq(Fds)
      BY <1>2, <1>5, OneMoreDeferred DEF DeferSockClose, NetTypes
    <2>6. TakenOver
      BY <1>5, <2>2, <2>4, <2>5 DEF TakenOver
    <2>7. fds' \in [Fds -> HostSocket \cup {None}]
      BY <1>5 DEF NetTypes
    <2>. QED  BY <1>1, <1>2, <1>3, <2>1, <2>4, <2>5, <2>6, <2>7
  <1>6. \/ fds' = [fds EXCEPT ![new] = None] /\ UNCHANGED <<slot, toClose>>
        \/ /\ StillOurs /\ DeferSockClose(sd) /\ UNCHANGED fds
           /\ slot' = [slot EXCEPT ![cur] = [slot[cur] EXCEPT !.sock = new, !.state = "Established",
                                                              !.conn = fds[new].id]]
    BY DEF Take
  <1>. QED  BY <1>4, <1>5, <1>6

LEMMA DropEffect ==
    ASSUME NetTypes, Drop
    PROVE  /\ spc = "drop" /\ UNCHANGED <<fds, made, cmd>> /\ ThreadTypes
           /\ RequestClose(cur, FALSE) /\ NextToHandle /\ new' = None
           /\ slot' \in [Handles -> Slot] /\ toClose' \in Seq(Fds)
  <1>1. spc = "drop" /\ UNCHANGED <<fds, made, cmd>> /\ RequestClose(cur, FALSE) /\ NextToHandle
    BY DEF Drop
  <1>2. cur \in Handles
    BY DEF NetTypes
  <1>. QED  BY <1>1, <1>2, ThreadTypesKept, Requested, OnToTheNext

\* Bytes go from the slot to the host, or come from there to the slot.
LEMMA BufferSet ==
    ASSUME NetTypes, NEW b \in Seq(Byte)
    PROVE  /\ slot' = [slot EXCEPT ![cur].sendBuf = b] =>
                /\ SameSlot(cur) /\ slot'[cur].state = slot[cur].state
                /\ slot'[cur].finSent = slot[cur].finSent
                /\ slot'[cur].recvBuf = slot[cur].recvBuf /\ slot'[cur].sendBuf = b
           /\ slot' = [slot EXCEPT ![cur].recvBuf = b] =>
                /\ SameSlot(cur) /\ slot'[cur].state = slot[cur].state
                /\ slot'[cur].finSent = slot[cur].finSent
                /\ slot'[cur].recvBuf = b /\ slot'[cur].sendBuf = slot[cur].sendBuf
  <1>1. cur \in Handles /\ slot[cur] \in Slot /\ slot \in [Handles -> Slot]
    BY DEF NetTypes
  <1>2. ASSUME slot' = [slot EXCEPT ![cur].sendBuf = b]
        PROVE  /\ SameSlot(cur) /\ slot'[cur].state = slot[cur].state
               /\ slot'[cur].finSent = slot[cur].finSent
               /\ slot'[cur].recvBuf = slot[cur].recvBuf /\ slot'[cur].sendBuf = b
    <2>. DEFINE o == [slot[cur] EXCEPT !.sendBuf = b]
    <2>1. slot' = [slot EXCEPT ![cur] = o]
      BY <1>1, <1>2
    <2>2. /\ o \in Slot /\ o.sock = slot[cur].sock /\ o.conn = slot[cur].conn
          /\ o.seen = slot[cur].seen /\ o.accepted = slot[cur].accepted
          /\ o.state = slot[cur].state /\ o.finSent = slot[cur].finSent
          /\ o.recvBuf = slot[cur].recvBuf /\ o.sendBuf = b
      BY <1>1 DEF Slot
    <2>. HIDE DEF o
    <2>. QED  BY <1>1, <2>1, <2>2, SlotChanged DEF SameSlot
  <1>3. ASSUME slot' = [slot EXCEPT ![cur].recvBuf = b]
        PROVE  /\ SameSlot(cur) /\ slot'[cur].state = slot[cur].state
               /\ slot'[cur].finSent = slot[cur].finSent
               /\ slot'[cur].recvBuf = b /\ slot'[cur].sendBuf = slot[cur].sendBuf
    <2>. DEFINE o == [slot[cur] EXCEPT !.recvBuf = b]
    <2>1. slot' = [slot EXCEPT ![cur] = o]
      BY <1>1, <1>3
    <2>2. /\ o \in Slot /\ o.sock = slot[cur].sock /\ o.conn = slot[cur].conn
          /\ o.seen = slot[cur].seen /\ o.accepted = slot[cur].accepted
          /\ o.state = slot[cur].state /\ o.finSent = slot[cur].finSent
          /\ o.recvBuf = b /\ o.sendBuf = slot[cur].sendBuf
      BY <1>1 DEF Slot
    <2>. HIDE DEF o
    <2>. QED  BY <1>1, <2>1, <2>2, SlotChanged DEF SameSlot
  <1>. QED  BY <1>2, <1>3

\* The host takes k bytes of what is queued.
Flushed(k) ==
    /\ StillOurs /\ SameSlot(cur) /\ slot'[cur].state = slot[cur].state
    /\ slot'[cur].finSent = slot[cur].finSent /\ slot'[cur].recvBuf = slot[cur].recvBuf
    /\ slot'[cur].sendBuf = After(slot[cur].sendBuf, k)
    /\ fds' = Sent(sd, slot[cur].sendBuf, k)
    /\ slot[cur].sendBuf = <<>> \/ ~SendFails(sd)

LEMMA FlushEffect ==
    ASSUME NetTypes, WatchInv, Flush
    PROVE  /\ spc = "flush" /\ UNCHANGED <<toClose, made, cmd>> /\ ThreadTypes
           /\ sd \in Fds /\ fds[sd] # None /\ slot' \in [Handles -> Slot]
           /\ fds' \in [Fds -> HostSocket \cup {None}]
           /\ \/ StillOurs /\ Goto("drop") /\ UNCHANGED <<slot, fds>>
              \/ /\ \/ \E k \in 0..Len(slot[cur].sendBuf) : Flushed(k)
                    \/ ~StillOurs /\ slot' = slot /\ fds' = Sent(sd, <<>>, 0)
                 /\ (watched[cur].r /\ Goto("recv")) \/ NextToHandle
  <1>1. spc = "flush" /\ UNCHANGED <<toClose, made, cmd>>
    BY DEF Flush
  <1>2. /\ sd \in Fds /\ fds[sd] # None /\ cur \in Handles
        /\ slot[cur] \in Slot /\ slot[cur].sendBuf \in Seq(Byte)
    BY <1>1 DEF WatchInv, AtSocket, Handling, NetTypes, Slot
  <1>3. {"drop", "recv"} \subseteq Threads
    BY DEF Threads, Handling
  <1>4. CASE StillOurs /\ Goto("drop") /\ UNCHANGED <<slot, fds>>
    BY <1>1, <1>2, <1>3, <1>4, ThreadTypesKept DEF NetTypes
  <1>5. ASSUME StillOurs, NEW k \in 0..Len(slot[cur].sendBuf), fds' = Sent(sd, slot[cur].sendBuf, k),
               slot[cur].sendBuf = <<>> \/ ~SendFails(sd),
               slot' = [slot EXCEPT ![cur].sendBuf = After(@, k)]
        PROVE  Flushed(k)
    <2>1. After(slot[cur].sendBuf, k) \in Seq(Byte)
      BY <1>2 DEF After
    <2>2. slot' = [slot EXCEPT ![cur].sendBuf = After(slot[cur].sendBuf, k)]
      BY <1>2, <1>5
    <2>. QED  BY <1>5, <2>1, <2>2, BufferSet DEF Flushed
  <1>6. CASE (watched[cur].r /\ Goto("recv")) \/ NextToHandle
    <2>1. CASE StillOurs
      <3>1. PICK k \in 0..Len(slot[cur].sendBuf) : Flushed(k)
        BY <1>5, <1>6, <2>1 DEF Flush, Goto, NextToHandle, NextSlot
      <3>2. slot' \in [Handles -> Slot]
        BY <3>1 DEF Flushed, SameSlot
      <3>3. fds' \in [Fds -> HostSocket \cup {None}]
        BY <1>2, <3>1, SentEffect DEF Flushed
      <3>. QED  BY <1>1, <1>2, <1>3, <1>6, <3>1, <3>2, <3>3, ThreadTypesKept
    <2>2. CASE ~StillOurs
      <3>1. slot' = slot /\ fds' = Sent(sd, <<>>, 0)
        <4>1. \E k \in 0..Len(<<>>) : slot' = slot /\ fds' = Sent(sd, <<>>, k)
          BY <2>2 DEF Flush
        <4>2. 0..Len(<<>>) = {0}
          OBVIOUS
        <4>. QED  BY <4>1, <4>2
      <3>2. fds' \in [Fds -> HostSocket \cup {None}]
        <4>1. <<>> \in Seq(Byte) /\ 0 \in 0..Len(<<>>)
          OBVIOUS
        <4>. QED  BY <1>2, <3>1, <4>1, SentEffect
      <3>. QED  BY <1>1, <1>2, <1>3, <1>6, <2>2, <3>1, <3>2, ThreadTypesKept DEF NetTypes
    <2>. QED  BY <2>1, <2>2
  <1>7. \/ StillOurs /\ Goto("drop") /\ UNCHANGED <<slot, fds>>
        \/ (watched[cur].r /\ Goto("recv")) \/ NextToHandle
    BY DEF Flush
  <1>. QED  BY <1>4, <1>6, <1>7

LEMMA StoreEffect ==
    ASSUME NetTypes, Store
    PROVE  /\ spc = "store" /\ UNCHANGED <<toClose, fds, made, cmd>> /\ ThreadTypes
           /\ NextToHandle /\ slot' \in [Handles -> Slot]
           /\ \/ ~StillOurs /\ slot' = slot
              \/ /\ StillOurs /\ SameSlot(cur) /\ slot'[cur].state = slot[cur].state
                 /\ slot'[cur].finSent = slot[cur].finSent
                 /\ slot'[cur].recvBuf = slot[cur].recvBuf \o chunk
                 /\ slot'[cur].sendBuf = slot[cur].sendBuf
  <1>1. spc = "store" /\ UNCHANGED <<toClose, fds, made, cmd>> /\ NextToHandle
    BY DEF Store
  <1>2. ThreadTypes
    BY <1>1, ThreadTypesKept
  <1>3. CASE ~StillOurs
    BY <1>1, <1>2, <1>3 DEF Store, NetTypes
  <1>4. CASE StillOurs
    <2>1. cur \in Handles /\ slot[cur] \in Slot /\ chunk \in Seq(Byte)
      BY DEF NetTypes
    <2>2. slot[cur].recvBuf \in Seq(Byte)
      BY <2>1 DEF Slot
    <2>3. slot[cur].recvBuf \o chunk \in Seq(Byte)
      BY <2>1, <2>2
    <2>4. slot' = [slot EXCEPT ![cur].recvBuf = slot[cur].recvBuf \o chunk]
      BY <1>4, <2>1 DEF Store, NetTypes
    <2>. QED  BY <1>1, <1>2, <1>4, <2>3, <2>4, BufferSet DEF SameSlot
  <1>. QED  BY <1>3, <1>4

\* n bytes have been received, that fit.
Received(n) ==
    /\ StillOurs /\ spc' = "store" /\ UNCHANGED <<cur, sd, new, watched>>
    /\ n <= fds[sd].sent - fds[sd].got /\ n <= Room
    /\ chunk' = Bytes(fds[sd].id, fds[sd].got, n)
    /\ \A e \in Fds \ {sd} : fds'[e] = fds[e]
    /\ fds'[sd] # None /\ fds'[sd].got = fds[sd].got + n /\ fds'[sd].sent = fds[sd].sent
    /\ fds'[sd].id = fds[sd].id /\ fds'[sd].kind = fds[sd].kind
    /\ fds'[sd].fin = fds[sd].fin /\ fds'[sd].reset = fds[sd].reset
    /\ fds'[sd].wire = fds[sd].wire /\ fds'[sd].shut = fds[sd].shut

LEMMA RecvEffect ==
    ASSUME NetTypes, WatchInv, Recv
    PROVE  /\ spc = "recv" /\ UNCHANGED <<slot, toClose, made, cmd>> /\ ThreadTypes
           /\ sd \in Fds /\ fds[sd] # None /\ fds' \in [Fds -> HostSocket \cup {None}]
           /\ \/ NextToHandle /\ fds' = fds
              \/ \E n \in Nat \ {0} : Received(n)
              \/ StillOurs /\ Goto("drop") /\ fds' = fds
              \/ /\ StillOurs /\ Goto("closeWait") /\ fds' = fds
                 /\ ~fds[sd].reset /\ slot[cur].state # "FinWait1"
                 /\ fds[sd].sent <= fds[sd].got \/ Room < 0
                 /\ Room # 0
  <1>. DEFINE left == fds[sd].sent - fds[sd].got
              n == IF left < Room THEN left ELSE Room
  <1>1. spc = "recv" /\ UNCHANGED <<slot, toClose, made, cmd>>
    BY DEF Recv
  <1>2. /\ sd \in Fds /\ fds[sd] # None /\ fds[sd] \in HostSocket /\ cur \in Handles
        /\ slot[cur].recvBuf \in Seq(Byte)
    <2>1. sd \in Fds /\ fds[sd] # None
      BY <1>1 DEF WatchInv, AtSocket, Handling, NetTypes
    <2>2. cur \in Handles /\ slot[cur] \in Slot
      BY DEF NetTypes
    <2>. QED  BY <2>1, <2>2, OpenSocket DEF Slot
  <1>3. fds[sd].sent \in Nat /\ fds[sd].got \in Nat /\ fds[sd].id \in Nat /\ Room \in Int
    <2>1. Len(slot[cur].recvBuf) \in Nat /\ RecvCap \in Nat
      BY <1>2, ConstantsAssumption
    <2>. QED  BY <1>2, <2>1 DEF HostSocket, Room
  <1>4. {"store", "drop", "closeWait"} \subseteq Threads
    BY DEF Threads, Handling
  <1>5. \/ NextToHandle /\ fds' = fds
        \/ /\ StillOurs /\ n > 0 /\ chunk' = Bytes(fds[sd].id, fds[sd].got, n)
           /\ fds' = [fds EXCEPT ![sd].got = @ + n]
           /\ spc' = "store" /\ UNCHANGED <<cur, sd, new, watched>>
        \/ StillOurs /\ Goto("drop") /\ fds' = fds
        \/ /\ StillOurs /\ ~(n > 0) /\ Room # 0 /\ Goto("closeWait") /\ fds' = fds
           /\ ~fds[sd].reset /\ slot[cur].state # "FinWait1"
    BY DEF Recv
  <1>6. n \in Int /\ n <= left /\ n <= Room /\ (~(n > 0) => fds[sd].sent <= fds[sd].got \/ Room <= 0)
    BY <1>3
  <1>7. CASE NextToHandle /\ fds' = fds
    BY <1>1, <1>2, <1>7, ThreadTypesKept DEF NetTypes
  <1>8. CASE StillOurs /\ Goto("drop") /\ fds' = fds
    BY <1>1, <1>2, <1>4, <1>8, ThreadTypesKept DEF NetTypes
  <1>9. CASE /\ StillOurs /\ ~(n > 0) /\ Room # 0 /\ Goto("closeWait") /\ fds' = fds
             /\ ~fds[sd].reset /\ slot[cur].state # "FinWait1"
    <2>1. fds[sd].sent <= fds[sd].got \/ Room < 0
      BY <1>3, <1>6, <1>9
    <2>2. ThreadTypes
      BY <1>4, <1>9, ThreadTypesKept
    <2>. QED  BY <1>1, <1>2, <1>9, <2>1, <2>2 DEF NetTypes
  <1>. HIDE DEF n
  <1>10. CASE /\ StillOurs /\ n > 0 /\ chunk' = Bytes(fds[sd].id, fds[sd].got, n)
              /\ fds' = [fds EXCEPT ![sd].got = @ + n]
              /\ spc' = "store" /\ UNCHANGED <<cur, sd, new, watched>>
    <2>. DEFINE p == [fds[sd] EXCEPT !.got = fds[sd].got + n]
    <2>1. n \in Nat \ {0} /\ fds[sd].got + n \in Nat
      BY <1>3, <1>6, <1>10
    <2>2. fds' = [fds EXCEPT ![sd] = p]
      BY <1>2, <1>10 DEF NetTypes
    <2>3. /\ p \in HostSocket /\ p.got = fds[sd].got + n /\ p.sent = fds[sd].sent
          /\ p.id = fds[sd].id /\ p.kind = fds[sd].kind
          /\ p.fin = fds[sd].fin /\ p.reset = fds[sd].reset
          /\ p.wire = fds[sd].wire /\ p.shut = fds[sd].shut
      BY <1>2, <2>1 DEF HostSocket
    <2>. HIDE DEF p
    <2>4. /\ fds' \in [Fds -> HostSocket \cup {None}] /\ fds'[sd] = p /\ fds'[sd] # None
          /\ \A e \in Fds \ {sd} : fds'[e] = fds[e]
      BY <1>2, <2>2, <2>3, SocketChanged
    <2>5. chunk' \in Seq(Byte)
      BY <1>3, <1>10, <2>1, BytesLen
    <2>6. ThreadTypes
      BY <1>4, <1>10, <2>5 DEF ThreadTypes, NetTypes
    <2>7. Received(n)
      BY <1>6, <1>10, <2>3, <2>4 DEF Received
    <2>. QED  BY <1>1, <1>2, <2>1, <2>4, <2>6, <2>7
  <1>. QED  BY <1>5, <1>7, <1>8, <1>9, <1>10

\* What the network does to a socket in use: its kind becomes known, or the peer
\* has sent more, closes its side or resets.
NetworkAt(f) ==
    /\ f \in Fds /\ fds[f] # None /\ fds'[f] # None /\ f \notin Deferred
    /\ \A e \in Fds \ {f} : fds'[e] = fds[e]
    /\ fds'[f].id = fds[f].id /\ fds'[f].got = fds[f].got
    /\ fds'[f].wire = fds[f].wire /\ fds'[f].shut = fds[f].shut
    /\ fds'[f].kind # fds[f].kind => fds[f].kind = "connecting" /\ fds'[f].kind \in {"stream", "refused"}
    /\ fds[f].fin => fds'[f].fin /\ fds'[f].sent = fds[f].sent
    /\ fds[f].reset => fds'[f].reset
    /\ fds'[f].sent >= fds[f].sent

LEMMA NetworkEffect ==
    ASSUME NetTypes, Network
    PROVE  /\ UNCHANGED <<slot, toClose, made, cmd, socketThread>>
           /\ fds' \in [Fds -> HostSocket \cup {None}]
           /\ \E f \in Fds : NetworkAt(f)
  <1>1. UNCHANGED <<slot, toClose, made, cmd, socketThread>>
    BY DEF Network, Changes
  <1>2. ASSUME NEW f \in Fds \ Deferred, fds[f] # None, NEW s \in HostSocket,
               fds' = [fds EXCEPT ![f] = s],
               s.id = fds[f].id, s.got = fds[f].got, s.wire = fds[f].wire, s.shut = fds[f].shut,
               s.kind # fds[f].kind => fds[f].kind = "connecting" /\ s.kind \in {"stream", "refused"},
               fds[f].fin => s.fin /\ s.sent = fds[f].sent,
               fds[f].reset => s.reset, s.sent >= fds[f].sent
        PROVE  fds' \in [Fds -> HostSocket \cup {None}] /\ \E e \in Fds : NetworkAt(e)
    <2>1. /\ fds' \in [Fds -> HostSocket \cup {None}] /\ fds'[f] = s /\ fds'[f] # None
          /\ \A e \in Fds \ {f} : fds'[e] = fds[e]
      BY <1>2, SocketChanged
    <2>. QED  BY <1>2, <2>1 DEF NetworkAt
  <1>3. ASSUME NEW f \in Fds, fds[f] # None
        PROVE  fds[f] \in HostSocket /\ fds[f].sent \in Nat /\ fds[f].sent + 1 \in Nat
    BY <1>3, OpenSocket DEF HostSocket
  <1>4. ASSUME NEW f \in InUse("connecting"), NEW kind \in {"stream", "refused"},
               Changes(f, [fds[f] EXCEPT !.kind = kind])
        PROVE  fds' \in [Fds -> HostSocket \cup {None}] /\ \E e \in Fds : NetworkAt(e)
    <2>. DEFINE s == [fds[f] EXCEPT !.kind = kind]
    <2>1. f \in Fds \ Deferred /\ fds[f] # None /\ fds[f].kind = "connecting"
      BY DEF InUse
    <2>2. fds' = [fds EXCEPT ![f] = s]
      BY <1>4 DEF Changes
    <2>3. /\ s \in HostSocket /\ s.id = fds[f].id /\ s.got = fds[f].got /\ s.wire = fds[f].wire
          /\ s.shut = fds[f].shut /\ s.kind = kind /\ s.fin = fds[f].fin
          /\ s.reset = fds[f].reset /\ s.sent = fds[f].sent
      BY <1>3, <2>1 DEF HostSocket
    <2>. HIDE DEF s
    <2>4. s.sent >= fds[f].sent
      BY <1>3, <2>1, <2>3
    <2>. QED  BY <1>2, <2>1, <2>2, <2>3, <2>4
  <1>5. ASSUME NEW f \in InUse("listen"), Changes(f, [fds[f] EXCEPT !.caller = TRUE])
        PROVE  fds' \in [Fds -> HostSocket \cup {None}] /\ \E e \in Fds : NetworkAt(e)
    <2>. DEFINE s == [fds[f] EXCEPT !.caller = TRUE]
    <2>1. f \in Fds \ Deferred /\ fds[f] # None
      BY DEF InUse
    <2>2. fds' = [fds EXCEPT ![f] = s]
      BY <1>5 DEF Changes
    <2>3. /\ s \in HostSocket /\ s.id = fds[f].id /\ s.got = fds[f].got /\ s.wire = fds[f].wire
          /\ s.shut = fds[f].shut /\ s.kind = fds[f].kind /\ s.fin = fds[f].fin
          /\ s.reset = fds[f].reset /\ s.sent = fds[f].sent
      BY <1>3, <2>1 DEF HostSocket
    <2>. HIDE DEF s
    <2>4. s.sent >= fds[f].sent
      BY <1>3, <2>1, <2>3
    <2>. QED  BY <1>2, <2>1, <2>2, <2>3, <2>4
  <1>6. ASSUME NEW f \in OpenStreams, ~fds[f].fin, Changes(f, [fds[f] EXCEPT !.sent = @ + 1])
        PROVE  fds' \in [Fds -> HostSocket \cup {None}] /\ \E e \in Fds : NetworkAt(e)
    <2>. DEFINE s == [fds[f] EXCEPT !.sent = fds[f].sent + 1]
    <2>1. f \in Fds \ Deferred /\ fds[f] # None
      BY DEF OpenStreams, InUse
    <2>2. fds' = [fds EXCEPT ![f] = s]
      BY <1>6 DEF Changes
    <2>3. /\ s \in HostSocket /\ s.id = fds[f].id /\ s.got = fds[f].got /\ s.wire = fds[f].wire
          /\ s.shut = fds[f].shut /\ s.kind = fds[f].kind /\ s.fin = fds[f].fin
          /\ s.reset = fds[f].reset /\ s.sent = fds[f].sent + 1
      BY <1>3, <2>1 DEF HostSocket
    <2>. HIDE DEF s
    <2>4. s.sent >= fds[f].sent
      BY <1>3, <2>1, <2>3
    <2>. QED  BY <1>2, <1>6, <2>1, <2>2, <2>3, <2>4
  <1>7. ASSUME NEW f \in OpenStreams, NEW fin \in BOOLEAN, NEW reset \in BOOLEAN,
               fds' = [fds EXCEPT ![f] = [fds[f] EXCEPT !.fin = fin, !.reset = reset]],
               fds[f].fin => fin, fds[f].reset => reset
        PROVE  fds' \in [Fds -> HostSocket \cup {None}] /\ \E e \in Fds : NetworkAt(e)
    <2>. DEFINE s == [fds[f] EXCEPT !.fin = fin, !.reset = reset]
    <2>1. f \in Fds \ Deferred /\ fds[f] # None
      BY DEF OpenStreams, InUse
    <2>2. fds' = [fds EXCEPT ![f] = s]
      BY <1>7
    <2>3. /\ s \in HostSocket /\ s.id = fds[f].id /\ s.got = fds[f].got /\ s.wire = fds[f].wire
          /\ s.shut = fds[f].shut /\ s.kind = fds[f].kind /\ s.fin = fin
          /\ s.reset = reset /\ s.sent = fds[f].sent
      BY <1>3, <2>1 DEF HostSocket
    <2>. HIDE DEF s
    <2>4. s.sent >= fds[f].sent
      BY <1>3, <2>1, <2>3
    <2>. QED  BY <1>2, <1>7, <2>1, <2>2, <2>3, <2>4
  <1>8. ASSUME NEW f \in OpenStreams, Changes(f, [fds[f] EXCEPT !.fin = TRUE])
        PROVE  fds' \in [Fds -> HostSocket \cup {None}] /\ \E e \in Fds : NetworkAt(e)
    <2>1. f \in Fds /\ fds[f] # None /\ fds[f] \in HostSocket
      BY <1>3 DEF OpenStreams, InUse
    <2>2. [fds[f] EXCEPT !.fin = TRUE] = [fds[f] EXCEPT !.fin = TRUE, !.reset = fds[f].reset]
          /\ fds[f].reset \in BOOLEAN
      BY <2>1 DEF HostSocket
    <2>3. fds' = [fds EXCEPT ![f] = [fds[f] EXCEPT !.fin = TRUE, !.reset = fds[f].reset]]
      BY <1>8, <2>2 DEF Changes
    <2>. QED  BY <1>7, <2>2, <2>3
  <1>9. ASSUME NEW f \in OpenStreams, Changes(f, [fds[f] EXCEPT !.reset = TRUE])
        PROVE  fds' \in [Fds -> HostSocket \cup {None}] /\ \E e \in Fds : NetworkAt(e)
    <2>1. f \in Fds /\ fds[f] # None /\ fds[f] \in HostSocket
      BY <1>3 DEF OpenStreams, InUse
    <2>2. [fds[f] EXCEPT !.reset = TRUE] = [fds[f] EXCEPT !.fin = fds[f].fin, !.reset = TRUE]
          /\ fds[f].fin \in BOOLEAN
      BY <2>1 DEF HostSocket
    <2>3. fds' = [fds EXCEPT ![f] = [fds[f] EXCEPT !.fin = fds[f].fin, !.reset = TRUE]]
      BY <1>9, <2>2 DEF Changes
    <2>. QED  BY <1>7, <2>2, <2>3
  <1>. QED  BY <1>1, <1>4, <1>5, <1>6, <1>8, <1>9 DEF Network

LEMMA TimePassesEffect ==
    ASSUME NetTypes, NEW h \in Handles, TimePasses(h)
    PROVE  /\ UNCHANGED <<toClose, fds, made, cmd, socketThread>>
           /\ SameSlot(h) /\ slot'[h].state = slot[h].state /\ Open(h)' = Open(h)
           /\ slot[h].state = "FinWait1"
           /\ slot'[h].finSent = slot[h].finSent
           /\ slot'[h].recvBuf = slot[h].recvBuf /\ slot'[h].sendBuf = slot[h].sendBuf
  <1>. DEFINE o == [slot[h] EXCEPT !.due = TRUE]
  <1>1. slot[h] \in Slot /\ slot \in [Handles -> Slot]
    BY DEF NetTypes
  <1>2. /\ slot' = [slot EXCEPT ![h] = o] /\ UNCHANGED <<toClose, fds, made, cmd, socketThread>>
        /\ slot[h].state = "FinWait1"
    BY <1>1 DEF TimePasses
  <1>3. /\ o \in Slot /\ o.sock = slot[h].sock /\ o.conn = slot[h].conn
        /\ o.seen = slot[h].seen /\ o.accepted = slot[h].accepted
        /\ o.state = slot[h].state /\ o.finSent = slot[h].finSent
        /\ o.recvBuf = slot[h].recvBuf /\ o.sendBuf = slot[h].sendBuf
    BY <1>1 DEF Slot
  <1>. HIDE DEF o
  <1>. QED  BY <1>2, <1>3, SlotChanged DEF SameSlot, Open

---------------------------------------------------------------------------
\* Types, and who owns which socket.

\* An action of the emulation thread, of the socket thread or of the network.
LEMMA EachStep ==
    ASSUME [Next]_vars
    PROVE  \/ UNCHANGED vars
           \/ \E h \in Handles, state \in DOMAIN KindOf : TcpOpen(h, state)
           \/ \E h \in Handles, len \in 1..SendCap : TcpSend(h, len)
           \/ \E h \in Handles, len \in 1..RecvCap : TcpRecv(h, len)
           \/ \E op \in {"close", "abort", "reset"}, S \in SUBSET Handles : ClosingCommand(op, S)
           \/ CloseSlot
           \/ CloseHandedOver \/ Arm \/ ArmFin \/ ArmDrop \/ Select
           \/ Handle \/ Connected \/ Accept \/ Take \/ Flush \/ Recv \/ Store
           \/ PeerClosed \/ Drop
           \/ Network
           \/ \E h \in Handles : TimePasses(h)
  BY DEF Next, Emulation, SocketLoop

LEMMA TypesKept ==
    ASSUME NetTypes, OwnInv, WatchInv, [Next]_vars
    PROVE  NetTypes'
  <1>. DEFINE Own == /\ slot' \in [Handles -> Slot]
                     /\ fds' \in [Fds -> HostSocket \cup {None}]
                     /\ toClose' \in Seq(Fds) /\ made' \in Nat
                     /\ cmd' \in Closing \cup {None}
  <1>1. Own /\ ThreadTypes => NetTypes'
    BY DEF NetTypes, ThreadTypes
  <1>2. /\ UNCHANGED socketThread => ThreadTypes
        /\ UNCHANGED slot => slot' \in [Handles -> Slot]
        /\ UNCHANGED fds => fds' \in [Fds -> HostSocket \cup {None}]
        /\ UNCHANGED toClose => toClose' \in Seq(Fds)
        /\ UNCHANGED made => made' \in Nat
        /\ UNCHANGED cmd => cmd' \in Closing \cup {None}
        /\ made + 1 \in Nat
    BY ThreadTypesKept DEF NetTypes
  <1>3. \A h \in Handles, clear \in BOOLEAN : RequestClose(h, clear) =>
          slot' \in [Handles -> Slot] /\ toClose' \in Seq(Fds)
    BY Requested
  <1>. HIDE DEF NetTypes, ThreadTypes, OwnInv, WatchInv
  <1>4. CASE UNCHANGED vars
    BY <1>1, <1>2, <1>4 DEF vars
  <1>5. ASSUME NEW h \in Handles, NEW state \in DOMAIN KindOf, TcpOpen(h, state)
        PROVE  NetTypes'
    BY <1>1, <1>2, <1>5, TcpOpenEffect
  <1>6. ASSUME NEW h \in Handles, NEW len \in 1..SendCap, TcpSend(h, len)
        PROVE  NetTypes'
    <2>1. /\ UNCHANGED <<cmd, made, socketThread>> /\ slot' \in [Handles -> Slot]
          /\ Open(h) /\ ((RequestClose(h, FALSE) /\ fds' = fds) \/ SentBy(h, len))
      BY <1>6, TcpSendEffect
    <2>2. CASE RequestClose(h, FALSE) /\ fds' = fds
      BY <1>1, <1>2, <1>3, <2>1, <2>2
    <2>3. CASE SentBy(h, len)
      <3>1. slot[h].sock \in Fds /\ fds[slot[h].sock] # None /\ slot[h].conn \in Nat
            /\ slot[h].accepted \in Nat /\ len \in Nat
        BY <2>1, <2>3, OpenSocket, ConstantsAssumption DEF OwnInv, Peer, Slot, SentBy
      <3>. DEFINE data == Bytes(slot[h].conn, slot[h].accepted, len)
      <3>2. data \in Seq(Byte) /\ Len(data) = len
        BY <3>1, BytesLen
      <3>. HIDE DEF data
      <3>3. \E k \in 0..len : fds' = fds \/ fds' = Sent(slot[h].sock, data, k)
        BY <2>3 DEF SentBy, data
      <3>4. fds' \in [Fds -> HostSocket \cup {None}]
        BY <1>2, <3>1, <3>2, <3>3, SentEffect
      <3>. QED  BY <1>1, <1>2, <2>1, <2>3, <3>4 DEF SentBy
    <2>. QED  BY <2>1, <2>2, <2>3
  <1>7. ASSUME NEW h \in Handles, NEW len \in 1..RecvCap, TcpRecv(h, len)
        PROVE  NetTypes'
    BY <1>1, <1>2, <1>7, TcpRecvEffect
  <1>8. ASSUME NEW op \in {"close", "abort", "reset"}, NEW S \in SUBSET Handles,
               ClosingCommand(op, S)
        PROVE  NetTypes'
    BY <1>1, <1>2, <1>8, ClosingCommandEffect
  <1>9. CASE CloseSlot
    <2>. DEFINE h == CurrentSlot
    <2>1. /\ h \in Handles /\ UNCHANGED <<made, socketThread>>
          /\ slot' \in [Handles -> Slot] /\ cmd' \in Closing \cup {None}
          /\ \/ UNCHANGED <<slot, toClose, fds>>
             \/ \E clear \in BOOLEAN : RequestClose(h, clear) /\ fds' = fds
             \/ HalfClosed(h)
      BY <1>9, CloseSlotEffect
    <2>. HIDE DEF h
    <2>2. CASE UNCHANGED <<slot, toClose, fds>>
      BY <1>1, <1>2, <2>1, <2>2
    <2>3. CASE \E clear \in BOOLEAN : RequestClose(h, clear) /\ fds' = fds
      BY <1>1, <1>2, <1>3, <2>1, <2>3
    <2>4. CASE HalfClosed(h)
      <3>1. /\ slot[h].sock \in Fds /\ fds[slot[h].sock] # None
            /\ fds' = [fds EXCEPT ![slot[h].sock].shut = Drained(h)]
            /\ toClose' = toClose /\ Drained(h) \in BOOLEAN
        BY <2>1, <2>4, OpenSocket DEF HalfClosed, OwnInv, Peer, Drained
      <3>2. fds' \in [Fds -> HostSocket \cup {None}]
        BY <3>1, ShutEffect
      <3>. QED  BY <1>1, <1>2, <2>1, <3>1, <3>2
    <2>. QED  BY <2>1, <2>2, <2>3, <2>4
  <1>10. CASE CloseHandedOver
    BY <1>1, <1>2, <1>10, CloseHandedOverEffect, EmptySeq
  <1>11. CASE Arm
    BY <1>1, <1>2, <1>11, ArmEffect
  <1>12. CASE ArmFin
    <2>1. fds' \in [Fds -> HostSocket \cup {None}]
      BY <1>12, ArmFinEffect, ShutEffect
    <2>. QED  BY <1>1, <1>2, <1>12, <2>1, ArmFinEffect DEF SameSlot
  <1>13. CASE ArmDrop
    BY <1>1, <1>2, <1>13, ArmDropEffect
  <1>14. CASE Select
    BY <1>1, <1>2, <1>14, SelectEffect
  <1>15. CASE Handle
    BY <1>1, <1>2, <1>15, HandleEffect
  <1>16. CASE Connected
    BY <1>1, <1>2, <1>16, ConnectedEffect
  <1>17. CASE Accept
    BY <1>1, <1>2, <1>17, AcceptEffect
  <1>18. CASE Take
    BY <1>1, <1>2, <1>18, TakeEffect
  <1>19. CASE Flush
    BY <1>1, <1>2, <1>19, FlushEffect
  <1>20. CASE Recv
    BY <1>1, <1>2, <1>20, RecvEffect
  <1>21. CASE Store
    BY <1>1, <1>2, <1>21, StoreEffect
  <1>22. CASE PeerClosed
    BY <1>1, <1>2, <1>22, PeerClosedEffect
  <1>23. CASE Drop
    BY <1>1, <1>2, <1>23, DropEffect
  <1>24. CASE Network
    BY <1>1, <1>2, <1>24, NetworkEffect
  <1>25. ASSUME NEW h \in Handles, TimePasses(h)
         PROVE  NetTypes'
    BY <1>1, <1>2, <1>25, TimePassesEffect DEF SameSlot
  <1>. QED  BY EachStep, <1>4, <1>5, <1>6, <1>7, <1>8, <1>9, <1>10, <1>11, <1>12, <1>13, <1>14,
               <1>15, <1>16, <1>17, <1>18, <1>19, <1>20, <1>21, <1>22, <1>23, <1>24, <1>25

LEMMA KeptOwn ==
    ASSUME NetTypes, OwnInv, SocketsKept
    PROVE  OwnInv'
  <1>1. /\ \A h \in Handles : Open(h) => slot[h].sock \in Fds
        /\ Deferred \subseteq Fds /\ Deferred' = Deferred /\ new \in Fds \cup {None}
    BY OpenSocket DEF Deferred, SocketsKept, NetTypes
  <1>2. \A h \in Handles : slot'[h].sock = slot[h].sock /\ Open(h)' = Open(h)
    BY DEF SocketsKept, Open
  <1>3. toClose' = toClose /\ new' = new /\ \A f \in Fds : fds'[f] = None <=> fds[f] = None
    BY DEF SocketsKept
  <1>. QED  BY <1>1, <1>2, <1>3 DEF OwnInv, Peer

LEMMA GivenUpOwn ==
    ASSUME NetTypes, OwnInv, NEW h \in Handles, GivenUp(h)
    PROVE  OwnInv'
  <1>1. \A g \in Handles : /\ g # h => slot'[g].sock = slot[g].sock /\ Open(g)' = Open(g)
                           /\ ~Open(h)'
                           /\ Open(g) => slot[g].sock \in Fds
    BY OpenSocket DEF GivenUp, Open
  <1>2. new' = new /\ fds' = fds /\ Deferred \subseteq Fds
    BY OpenSocket DEF GivenUp
  <1>3. CASE Open(h)
    <2>1. toClose \in Seq(Fds) /\ slot[h].sock \in Fds /\ toClose' = Append(toClose, slot[h].sock)
      BY <1>1, <1>3 DEF GivenUp, NetTypes
    <2>2. Deferred' = Deferred \cup {slot[h].sock} /\ slot[h].sock \notin Deferred
      BY <1>3, <2>1, OneMoreDeferred DEF Deferred, OwnInv
    <2>3. \A i, j \in DOMAIN toClose' : toClose'[i] = toClose'[j] => i = j
      BY <2>1, <2>2, OneMoreDeferred DEF Deferred, OwnInv
    <2>4. fds[slot[h].sock] # None /\ slot[h].sock # new
          /\ \A g \in Handles \ {h} : Open(g) => slot[g].sock # slot[h].sock
      BY <1>3 DEF OwnInv, Peer
    <2>. HIDE DEF Open
    <2>5. \A g \in Handles : Open(g)' => /\ fds[slot'[g].sock] # None
                                         /\ slot'[g].sock \notin Deferred' /\ slot'[g].sock # new
      BY <1>1, <2>2, <2>4 DEF OwnInv, Peer
    <2>6. \A g, k \in Handles : slot'[g].sock = slot'[k].sock /\ Open(g)' => g = k
      <3>1. SUFFICES ASSUME NEW g \in Handles, NEW k \in Handles, slot'[g].sock = slot'[k].sock,
                            Open(g)'
                     PROVE  g = k
        OBVIOUS
      <3>2. g # h /\ k # h
        BY <1>1, <3>1 DEF Open
      <3>. QED  BY <1>1, <3>1, <3>2 DEF OwnInv
    <2>7. \A f \in Deferred' : fds[f] # None /\ f # new
      BY <2>2, <2>4 DEF OwnInv
    <2>8. \A f \in Fds : fds[f] # None =>
            f = new \/ f \in Deferred' \/ \E g \in Handles : slot'[g].sock = f
      BY <1>1, <2>2 DEF OwnInv
    <2>9. new # None => fds[new] # None
      BY DEF OwnInv
    <2>. QED  BY <1>2, <2>3, <2>5, <2>6, <2>7, <2>8, <2>9 DEF OwnInv, Peer
  <1>4. CASE ~Open(h)
    <2>1. toClose' = toClose /\ Deferred' = Deferred
      BY <1>4 DEF GivenUp, Deferred
    <2>2. \A g \in Handles : slot'[g].sock = slot[g].sock /\ Open(g)' = Open(g)
      BY <1>1, <1>4 DEF Open, GivenUp
    <2>. QED  BY <1>1, <1>2, <2>1, <2>2 DEF OwnInv, Peer
  <1>. QED  BY <1>3, <1>4

\* A new socket is the slot's that asked for it, or waits to be taken.
LEMMA MadeOwn ==
    ASSUME NetTypes, OwnInv, NEW f \in Fds, SocketMade(f)
    PROVE  /\ \A h \in Handles : /\ ~Open(h) /\ slot'[h].sock = f /\ new' = new
                                 /\ \A g \in Handles \ {h} : slot'[g].sock = slot[g].sock
                                 => OwnInv'
           /\ slot' = slot /\ new = None /\ new' = f => OwnInv'
  <1>1. /\ fds[f] = None /\ fds'[f] # None /\ Deferred' = Deferred /\ toClose' = toClose
        /\ \A e \in Fds \ {f} : fds'[e] = None <=> fds[e] = None
        /\ f # None
    BY ConstantsAssumption DEF SocketMade, Deferred
  <1>2. /\ \A h \in Handles : Open(h) => slot[h].sock \in Fds /\ slot[h].sock # f
        /\ f \notin Deferred /\ Deferred \subseteq Fds /\ f # new /\ new \in Fds \cup {None}
    BY <1>1, OpenSocket DEF OwnInv, Peer, NetTypes
  <1>3. ASSUME NEW h \in Handles, ~Open(h), slot'[h].sock = f, new' = new,
               \A g \in Handles \ {h} : slot'[g].sock = slot[g].sock
        PROVE  OwnInv'
    <2>1. Open(h)' /\ \A g \in Handles \ {h} : Open(g)' = Open(g)
      BY <1>1, <1>3 DEF Open
    <2>2. \A e \in Fds : fds'[e] # None => e = f \/ fds[e] # None
      BY <1>1
    <2>3. \A g, k \in Handles : slot'[g].sock = slot'[k].sock /\ Open(g)' => g = k
      BY <1>2, <1>3, <2>1 DEF OwnInv, Open
    <2>. HIDE DEF Open
    <2>4. \A g \in Handles : Open(g)' => /\ fds'[slot'[g].sock] # None
                                         /\ slot'[g].sock \notin Deferred /\ slot'[g].sock # new
      BY <1>1, <1>2, <1>3, <2>1 DEF OwnInv, Peer
    <2>5. \A e \in Fds : fds'[e] # None =>
            e = new \/ e \in Deferred \/ \E g \in Handles : slot'[g].sock = e
      <3>1. SUFFICES ASSUME NEW e \in Fds, fds'[e] # None
                     PROVE  e = new \/ e \in Deferred \/ \E g \in Handles : slot'[g].sock = e
        OBVIOUS
      <3>2. CASE e = f
        BY <1>3, <3>2
      <3>3. CASE e # f
        <4>1. e = new \/ e \in Deferred \/ \E g \in Handles : slot[g].sock = e
          BY <2>2, <3>1, <3>3 DEF OwnInv
        <4>2. slot[h].sock # e
          BY <1>3, ConstantsAssumption DEF Open
        <4>. QED  BY <1>3, <4>1, <4>2
      <3>. QED  BY <3>2, <3>3
    <2>6. /\ \A i, j \in DOMAIN toClose : toClose[i] = toClose[j] => i = j
          /\ \A e \in Deferred : fds'[e] # None /\ e # new
          /\ new # None => fds'[new] # None
      BY <1>1, <1>2 DEF OwnInv
    <2>. QED  BY <1>1, <1>3, <2>3, <2>4, <2>5, <2>6 DEF OwnInv, Peer
  <1>4. ASSUME slot' = slot, new = None, new' = f
        PROVE  OwnInv'
    <2>1. \A h \in Handles : slot'[h].sock = slot[h].sock /\ Open(h)' = Open(h)
      BY <1>4 DEF Open
    <2>2. \A h \in Handles : Open(h)' =>
            fds'[slot[h].sock] # None /\ slot[h].sock \notin Deferred /\ slot[h].sock # f
      BY <1>1, <1>2, <2>1 DEF OwnInv, Peer
    <2>3. \A e \in Deferred : fds'[e] # None /\ e # f
      BY <1>1, <1>2 DEF OwnInv
    <2>4. \A e \in Fds : fds'[e] # None =>
            e = f \/ e \in Deferred \/ \E h \in Handles : slot[h].sock = e
      BY <1>1, <1>4, ConstantsAssumption DEF OwnInv
    <2>. HIDE DEF Open
    <2>. QED  BY <1>1, <1>4, <2>1, <2>2, <2>3, <2>4 DEF OwnInv, Peer
  <1>. QED  BY <1>3, <1>4

LEMMA TakenOwn ==
    ASSUME NetTypes, OwnInv, sd \in Fds, new \in Fds, new' = None, fds[new] # None,
           \/ TakenOver
           \/ /\ UNCHANGED <<slot, toClose>> /\ fds'[new] = None
              /\ \A e \in Fds \ {new} : fds'[e] = fds[e]
    PROVE  OwnInv'
  <1>1. cur \in Handles /\ toClose \in Seq(Fds) /\ Deferred \subseteq Fds /\ None \notin Fds
    BY OpenSocket DEF NetTypes
  <1>2. \A h \in Handles : Open(h) => slot[h].sock \in Fds
    BY OpenSocket
  <1>3. CASE TakenOver
    <2>1. /\ slot[cur].sock = sd /\ slot'[cur].sock = new /\ fds' = fds
          /\ \A g \in Handles \ {cur} : slot'[g].sock = slot[g].sock
          /\ toClose' = Append(toClose, sd)
      BY <1>3 DEF TakenOver, StillOurs
    <2>2. Open(cur) /\ \A g \in Handles : Open(g)' = Open(g)
      BY <1>1, <2>1 DEF Open
    <2>. HIDE DEF Open
    <2>3. /\ fds[sd] # None /\ sd \notin Deferred /\ sd # new
          /\ \A g \in Handles \ {cur} : Open(g) => slot[g].sock # sd /\ slot[g].sock # new
      BY <1>1, <2>1, <2>2 DEF OwnInv, Peer
    <2>4. /\ Deferred' = Deferred \cup {sd}
          /\ \A i, j \in DOMAIN toClose' : toClose'[i] = toClose'[j] => i = j
      BY <1>1, <2>1, <2>3, OneMoreDeferred DEF OwnInv, Deferred
    <2>5. \A g \in Handles : Open(g)' => fds[slot'[g].sock] # None /\ slot'[g].sock \notin Deferred'
      <3>1. new \notin Deferred /\ new # sd
        BY <2>3 DEF OwnInv
      <3>2. ASSUME NEW g \in Handles \ {cur}, Open(g)'
            PROVE  fds[slot'[g].sock] # None /\ slot'[g].sock \notin Deferred'
        BY <2>1, <2>2, <2>3, <2>4, <3>2 DEF OwnInv, Peer
      <3>. QED  BY <2>1, <2>4, <3>1, <3>2
    <2>6. \A g, k \in Handles : slot'[g].sock = slot'[k].sock /\ Open(g)' => g = k
      <3>1. SUFFICES ASSUME NEW g \in Handles, NEW k \in Handles, slot'[g].sock = slot'[k].sock,
                            Open(g)'
                     PROVE  g = k
        OBVIOUS
      <3>2. Open(k)'
        BY <3>1 DEF Open
      <3>3. g = cur => k = cur
        BY <2>1, <2>2, <2>3, <3>1, <3>2
      <3>4. k = cur => g = cur
        BY <2>1, <2>2, <2>3, <3>1
      <3>. QED  BY <2>1, <2>2, <3>1, <3>2, <3>3, <3>4 DEF OwnInv
    <2>7. \A f \in Deferred' : fds[f] # None
      BY <2>3, <2>4 DEF OwnInv
    <2>8. \A f \in Fds : fds[f] # None => f \in Deferred' \/ \E g \in Handles : slot'[g].sock = f
      BY <1>1, <2>1, <2>4 DEF OwnInv
    <2>9. None \notin Deferred' /\ \A g \in Handles : Open(g)' => slot'[g].sock # None
      BY <1>1, <2>4 DEF Open
    <2>10. \A f \in Deferred' : f # None
      BY <2>9
    <2>. QED  BY <2>1, <2>4, <2>5, <2>6, <2>7, <2>8, <2>9, <2>10 DEF OwnInv, Peer
  <1>4. CASE /\ UNCHANGED <<slot, toClose>> /\ fds'[new] = None
             /\ \A e \in Fds \ {new} : fds'[e] = fds[e]
    <2>1. /\ Deferred' = Deferred
          /\ \A g \in Handles : Open(g)' = Open(g)
      BY <1>4 DEF Open, Deferred
    <2>2. \A g \in Handles : Open(g) => fds'[slot[g].sock] # None /\ slot[g].sock \notin Deferred
      BY <1>2, <1>4 DEF OwnInv, Peer
    <2>3. \A g \in Handles : Open(g) => slot[g].sock # None
      BY DEF Open
    <2>4. \A f \in Deferred : fds'[f] # None /\ f # None
      BY <1>1, <1>4 DEF OwnInv
    <2>5. \A f \in Fds : fds'[f] # None => f \in Deferred \/ \E g \in Handles : slot[g].sock = f
      BY <1>1, <1>4 DEF OwnInv
    <2>. HIDE DEF Open
    <2>. QED  BY <1>4, <2>1, <2>2, <2>3, <2>4, <2>5 DEF OwnInv, Peer
  <1>. QED  BY <1>3, <1>4

LEMMA ClosedOwn ==
    ASSUME NetTypes, OwnInv, new' = new, toClose' = <<>>, slot' = slot,
           \A f \in Fds : fds'[f] = IF f \in Deferred THEN None ELSE fds[f]
    PROVE  OwnInv'
  <1>1. Deferred' = {} /\ \A i, j \in DOMAIN toClose' : toClose'[i] = toClose'[j] => i = j
    BY DEF Deferred, ToSet
  <1>2. /\ \A h \in Handles : Open(h)' = Open(h) /\ (Open(h) => slot[h].sock \in Fds)
        /\ Deferred \subseteq Fds /\ new \in Fds \cup {None}
    BY OpenSocket DEF Open, NetTypes
  <1>3. \A h \in Handles : Open(h) => fds'[slot[h].sock] # None /\ slot[h].sock # new
    BY <1>2 DEF OwnInv, Peer
  <1>4. new # None => fds'[new] # None
    BY <1>2 DEF OwnInv
  <1>5. \A f \in Fds : fds'[f] # None => f = new \/ \E h \in Handles : slot[h].sock = f
    BY DEF OwnInv
  <1>. HIDE DEF Open
  <1>. QED  BY <1>1, <1>2, <1>3, <1>4, <1>5 DEF OwnInv, Peer

LEMMA KeptSockets ==
    ASSUME NetTypes, toClose' = toClose, new' = new,
           \A h \in Handles : slot'[h].sock = slot[h].sock
    PROVE  /\ fds' = fds => SocketsKept
           /\ \A f \in Fds : /\ fds[f] # None /\ fds'[f] # None /\ fds'[f].id = fds[f].id
                             /\ \A e \in Fds \ {f} : fds'[e] = fds[e]
                             => SocketsKept
  BY DEF SocketsKept

\* What each step is for the sockets and their owners.
LEMMA Shape ==
    ASSUME NetTypes, OwnInv, WatchInv, [Next]_vars
    PROVE  \/ SocketsKept
           \/ \E h \in Handles : GivenUp(h)
           \/ \E f \in Fds, h \in Handles :
                /\ SocketMade(f) /\ ~Open(h) /\ slot'[h].sock = f /\ new' = new
                /\ \A g \in Handles \ {h} : slot'[g].sock = slot[g].sock
           \/ \E f \in Fds : SocketMade(f) /\ slot' = slot /\ new = None /\ new' = f
           \/ /\ sd \in Fds /\ new \in Fds /\ new' = None /\ fds[new] # None
              /\ Take
              /\ \/ TakenOver
                 \/ /\ UNCHANGED <<slot, toClose>> /\ fds'[new] = None
                    /\ \A e \in Fds \ {new} : fds'[e] = fds[e]
           \/ /\ CloseHandedOver /\ new' = new /\ toClose' = <<>> /\ slot' = slot
              /\ \A f \in Fds : fds'[f] = IF f \in Deferred THEN None ELSE fds[f]
  <1>1. /\ UNCHANGED socketThread => new' = new
        /\ \A pc : Goto(pc) => new' = new
        /\ NextToArm => new' = None
        /\ NextToHandle => new' = None
        /\ \A f : Watch(f) => new' = None
    BY DEF socketThread, Goto, NextToArm, NextToHandle, NextSlot, Watch
  <1>2. /\ spc # "take" => new = None
        /\ cur \in Handles
    BY DEF WatchInv, NetTypes
  <1>3. ASSUME NEW h \in Handles, SameSlot(h)
        PROVE  \A g \in Handles : slot'[g].sock = slot[g].sock
    BY <1>3 DEF SameSlot
  <1>4. CASE UNCHANGED vars
    BY <1>4 DEF vars, SocketsKept, socketThread
  <1>5. ASSUME NEW h \in Handles, NEW state \in DOMAIN KindOf, TcpOpen(h, state)
        PROVE  \E f \in Fds, g \in Handles :
                 /\ SocketMade(f) /\ ~Open(g) /\ slot'[g].sock = f /\ new' = new
                 /\ \A k \in Handles \ {g} : slot'[k].sock = slot[k].sock
    BY <1>1, <1>5, TcpOpenEffect
  <1>6. ASSUME NEW h \in Handles, NEW len \in 1..SendCap, TcpSend(h, len)
        PROVE  SocketsKept \/ GivenUp(h)
    <2>1. /\ UNCHANGED <<cmd, made, socketThread>> /\ slot' \in [Handles -> Slot]
          /\ Open(h) /\ ((RequestClose(h, FALSE) /\ fds' = fds) \/ SentBy(h, len))
      BY <1>6, TcpSendEffect
    <2>2. CASE RequestClose(h, FALSE) /\ fds' = fds
      BY <1>1, <2>1, <2>2, Requested
    <2>3. CASE SentBy(h, len)
      <3>1. /\ slot[h].sock \in Fds /\ fds[slot[h].sock] # None /\ slot[h].conn \in Nat
            /\ slot[h].accepted \in Nat /\ len \in Nat
        BY <2>1, OpenSocket, ConstantsAssumption DEF OwnInv, Peer, Slot
      <3>. DEFINE data == Bytes(slot[h].conn, slot[h].accepted, len)
      <3>2. data \in Seq(Byte) /\ Len(data) = len
        BY <3>1, BytesLen
      <3>. HIDE DEF data
      <3>3. \E k \in 0..len : fds' = fds \/ fds' = Sent(slot[h].sock, data, k)
        BY <2>3 DEF SentBy, data
      <3>4. toClose' = toClose /\ \A g \in Handles : slot'[g].sock = slot[g].sock
        BY <2>3 DEF SentBy
      <3>5. fds' = fds \/ (/\ fds'[slot[h].sock] # None
                           /\ fds'[slot[h].sock].id = fds[slot[h].sock].id
                           /\ \A e \in Fds \ {slot[h].sock} : fds'[e] = fds[e])
        BY <3>1, <3>2, <3>3, SentEffect
      <3>. QED  BY <1>1, <2>1, <3>1, <3>4, <3>5, KeptSockets
    <2>. QED  BY <2>1, <2>2, <2>3
  <1>7. ASSUME NEW h \in Handles, NEW len \in 1..RecvCap, TcpRecv(h, len)
        PROVE  SocketsKept
    <2>1. /\ UNCHANGED <<toClose, fds, socketThread>>
          /\ \A g \in Handles : slot'[g].sock = slot[g].sock
      BY <1>7, TcpRecvEffect
    <2>. QED  BY <1>1, <2>1, KeptSockets
  <1>8. ASSUME NEW op \in {"close", "abort", "reset"}, NEW S \in SUBSET Handles,
               ClosingCommand(op, S)
        PROVE  SocketsKept
    BY <1>1, <1>8, ClosingCommandEffect, KeptSockets
  <1>9. CASE CloseSlot
    <2>. DEFINE h == CurrentSlot
    <2>1. /\ h \in Handles /\ UNCHANGED <<made, socketThread>>
          /\ \/ UNCHANGED <<slot, toClose, fds>>
             \/ \E clear \in BOOLEAN : RequestClose(h, clear) /\ fds' = fds
             \/ HalfClosed(h)
      BY <1>9, CloseSlotEffect
    <2>. HIDE DEF h
    <2>2. CASE UNCHANGED <<slot, toClose, fds>>
      BY <1>1, <2>1, <2>2, KeptSockets
    <2>3. CASE \E clear \in BOOLEAN : RequestClose(h, clear) /\ fds' = fds
      BY <1>1, <2>1, <2>3, Requested
    <2>4. CASE HalfClosed(h)
      <3>1. /\ slot[h].sock \in Fds /\ fds[slot[h].sock] # None
            /\ fds' = [fds EXCEPT ![slot[h].sock].shut = Drained(h)]
            /\ toClose' = toClose /\ Drained(h) \in BOOLEAN
            /\ \A g \in Handles : slot'[g].sock = slot[g].sock
        BY <2>1, <2>4, OpenSocket DEF HalfClosed, OwnInv, Peer, Drained
      <3>2. /\ fds'[slot[h].sock] # None /\ fds'[slot[h].sock].id = fds[slot[h].sock].id
            /\ \A e \in Fds \ {slot[h].sock} : fds'[e] = fds[e]
        BY <3>1, ShutEffect
      <3>. QED  BY <1>1, <2>1, <3>1, <3>2, KeptSockets
    <2>. QED  BY <2>1, <2>2, <2>3, <2>4
  <1>10. CASE CloseHandedOver
    BY <1>10, CloseHandedOverEffect
  <1>11. CASE Arm
    BY <1>1, <1>2, <1>11, ArmEffect, KeptSockets
  <1>12. CASE ArmFin
    <2>1. /\ sd \in Fds /\ fds[sd] # None /\ toClose' = toClose /\ SameSlot(cur) /\ new' = new
          /\ fds' = [fds EXCEPT ![sd].shut = fds[sd].shut \/ (~slot[cur].finSent /\ Drained(cur))]
          /\ (fds[sd].shut \/ (~slot[cur].finSent /\ Drained(cur))) \in BOOLEAN
      BY <1>1, <1>2, <1>12, ArmFinEffect
    <2>2. fds'[sd] # None /\ fds'[sd].id = fds[sd].id /\ \A e \in Fds \ {sd} : fds'[e] = fds[e]
      BY <2>1, ShutEffect
    <2>. QED  BY <1>2, <1>3, <2>1, <2>2, KeptSockets
  <1>13. CASE ArmDrop
    BY <1>2, <1>13, ArmDropEffect, Requested
  <1>14. CASE Select
    BY <1>14, SelectEffect, KeptSockets
  <1>15. CASE Handle
    BY <1>1, <1>2, <1>15, HandleEffect, KeptSockets
  <1>16. CASE Connected
    <2>1. \A g \in Handles : slot'[g].sock = slot[g].sock
      BY <1>2, <1>3, <1>16, ConnectedEffect DEF StateSet
    <2>. QED  BY <1>1, <1>2, <1>16, <2>1, ConnectedEffect, KeptSockets
  <1>17. CASE Accept
    <2>1. \/ /\ new' \in Fds /\ SocketMade(new') /\ slot' = slot /\ new = None
          \/ NextToHandle /\ UNCHANGED <<slot, toClose, fds>>
      BY <1>2, <1>17, AcceptEffect
    <2>. QED  BY <1>1, <1>2, <1>17, <2>1, AcceptEffect, KeptSockets
  <1>18. CASE Take
    BY <1>1, <1>18, TakeEffect
  <1>19. CASE Flush
    <2>1. /\ sd \in Fds /\ fds[sd] # None /\ toClose' = toClose /\ new' = new
          /\ \/ UNCHANGED <<slot, fds>>
             \/ \E k \in 0..Len(slot[cur].sendBuf) : Flushed(k)
             \/ slot' = slot /\ fds' = Sent(sd, <<>>, 0)
      BY <1>1, <1>2, <1>19, FlushEffect
    <2>2. slot[cur].sendBuf \in Seq(Byte)
      BY <1>2 DEF NetTypes, Slot
    <2>3. \/ fds' = fds
          \/ /\ fds'[sd] # None /\ fds'[sd].id = fds[sd].id
             /\ \A e \in Fds \ {sd} : fds'[e] = fds[e]
      <3>1. <<>> \in Seq(Byte) /\ 0 \in 0..Len(<<>>)
        OBVIOUS
      <3>. QED  BY <2>1, <2>2, <3>1, SentEffect DEF Flushed
    <2>4. \A g \in Handles : slot'[g].sock = slot[g].sock
      BY <1>2, <1>3, <2>1 DEF Flushed
    <2>. QED  BY <2>1, <2>3, <2>4, KeptSockets
  <1>20. CASE Recv
    <2>1. \/ fds' = fds
          \/ /\ fds'[sd] # None /\ fds'[sd].id = fds[sd].id
             /\ \A e \in Fds \ {sd} : fds'[e] = fds[e]
      BY <1>20, RecvEffect DEF Received
    <2>2. new' = new
      BY <1>1, <1>2, <1>20, RecvEffect DEF Received
    <2>. QED  BY <1>20, <2>1, <2>2, RecvEffect, KeptSockets
  <1>21. CASE Store
    <2>1. \A g \in Handles : slot'[g].sock = slot[g].sock
      BY <1>2, <1>3, <1>21, StoreEffect
    <2>. QED  BY <1>1, <1>2, <1>21, <2>1, StoreEffect, KeptSockets
  <1>22. CASE PeerClosed
    <2>1. \A g \in Handles : slot'[g].sock = slot[g].sock
      BY <1>2, <1>3, <1>22, PeerClosedEffect DEF StateSet
    <2>. QED  BY <1>1, <1>2, <1>22, <2>1, PeerClosedEffect, KeptSockets
  <1>23. CASE Drop
    BY <1>2, <1>23, DropEffect, Requested
  <1>24. CASE Network
    BY <1>1, <1>24, NetworkEffect, KeptSockets DEF NetworkAt
  <1>25. ASSUME NEW h \in Handles, TimePasses(h)
         PROVE  SocketsKept
    BY <1>1, <1>3, <1>25, TimePassesEffect, KeptSockets
  <1>. QED  BY EachStep, <1>4, <1>5, <1>6, <1>7, <1>8, <1>9, <1>10, <1>11, <1>12, <1>13, <1>14,
               <1>15, <1>16, <1>17, <1>18, <1>19, <1>20, <1>21, <1>22, <1>23, <1>24, <1>25

LEMMA OwnKept ==
    ASSUME NetTypes, OwnInv, WatchInv, [Next]_vars
    PROVE  OwnInv'
  BY Shape, KeptOwn, GivenUpOwn, MadeOwn, TakenOwn, ClosedOwn

---------------------------------------------------------------------------
\* What is watched, or in hand, stays open.

LEMMA StaysOpen ==
    ASSUME NetTypes, OwnInv, WatchInv, [Next]_vars, ~CloseHandedOver,
           NEW f \in Fds, fds[f] # None, f = new => ~Take
    PROVE  /\ fds'[f] # None /\ fds'[f].id = fds[f].id
           /\ f # new => f # new'
  <1>1. f # None
    BY ConstantsAssumption
  <1>2. CASE SocketsKept
    BY <1>2 DEF SocketsKept
  <1>3. CASE \E h \in Handles : GivenUp(h)
    BY <1>3 DEF GivenUp
  <1>4. ASSUME NEW e \in Fds, SocketMade(e), new' = new \/ new' = e
        PROVE  /\ fds'[f] # None /\ fds'[f].id = fds[f].id
               /\ f # new => f # new'
    <2>1. f # e
      BY <1>4 DEF SocketMade
    <2>. QED  BY <1>4, <2>1 DEF SocketMade
  <1>5. CASE /\ new' = None
             /\ Take
             /\ \/ TakenOver
                \/ /\ UNCHANGED <<slot, toClose>> /\ fds'[new] = None
                   /\ \A e \in Fds \ {new} : fds'[e] = fds[e]
    BY <1>1, <1>5 DEF TakenOver
  <1>. QED  BY Shape, <1>2, <1>3, <1>4, <1>5

\* Only the socket thread changes its variables.
LEMMA ThreadMoves ==
    ASSUME [Next]_vars
    PROVE  \/ UNCHANGED socketThread
           \/ CloseHandedOver \/ Arm \/ ArmFin \/ ArmDrop \/ Select
           \/ Handle \/ Connected \/ Accept \/ Take \/ Flush \/ Recv \/ Store
           \/ PeerClosed \/ Drop
  <1>1. \A h \in Handles, state \in DOMAIN KindOf : TcpOpen(h, state) => UNCHANGED socketThread
    BY DEF TcpOpen
  <1>2. \A h \in Handles, len \in 1..SendCap : TcpSend(h, len) => UNCHANGED socketThread
    BY DEF TcpSend, EmulationOnly
  <1>3. \A h \in Handles, len \in 1..RecvCap : TcpRecv(h, len) => UNCHANGED socketThread
    BY DEF TcpRecv, EmulationOnly
  <1>4. \A op \in {"close", "abort", "reset"}, S \in SUBSET Handles :
          ClosingCommand(op, S) => UNCHANGED socketThread
    BY DEF ClosingCommand, EmulationOnly
  <1>5. CloseSlot => UNCHANGED socketThread
    BY DEF CloseSlot, EmulationOnly
  <1>6. Network => UNCHANGED socketThread
    BY DEF Network, Changes
  <1>7. \A h \in Handles : TimePasses(h) => UNCHANGED socketThread
    BY DEF TimePasses
  <1>8. UNCHANGED vars => UNCHANGED socketThread
    BY DEF vars
  <1>. QED  BY EachStep, <1>1, <1>2, <1>3, <1>4, <1>5, <1>6, <1>7, <1>8

LEMMA WatchKept ==
    ASSUME NetTypes, OwnInv, WatchInv, [Next]_vars
    PROVE  WatchInv'
  <1>. DEFINE Safe(w) == fds'[w.fd] # None /\ fds'[w.fd].id = w.id /\ w.fd # new'
  <1>1. ASSUME ~CloseHandedOver, NEW h \in Handles, watched[h] # None
        PROVE  Safe(watched[h])
    <2>1. watched[h].fd \in Fds
      BY <1>1 DEF NetTypes, Watched
    <2>2. fds[watched[h].fd] # None /\ fds[watched[h].fd].id = watched[h].id /\ watched[h].fd # new
      BY <1>1 DEF WatchInv
    <2>. QED  BY <1>1, <2>1, <2>2, StaysOpen
  <1>2. ASSUME ~CloseHandedOver, ~Take, sd # None
        PROVE  fds'[sd] # None
    <2>1. sd \in Fds /\ fds[sd] # None
      BY <1>2 DEF NetTypes, WatchInv
    <2>. QED  BY <1>2, <2>1, StaysOpen
  <1>3. \A h \in Handles : Unwatched[h] = None
    BY DEF Unwatched
  <1>4. ASSUME \A h \in Handles : watched'[h] # None => Safe(watched'[h]),
               sd' # None => fds'[sd'] # None,
               spc' = "close" => watched' = Unwatched,
               spc' \in AtSocket <=> sd' # None,
               spc' = "take" <=> new' # None
        PROVE  WatchInv'
    BY <1>4 DEF WatchInv
  <1>. HIDE DEF Safe
  <1>5. ASSUME ~CloseHandedOver, ~Take, UNCHANGED socketThread
        PROVE  WatchInv'
    BY <1>1, <1>2, <1>4, <1>5 DEF WatchInv, socketThread
  <1>6. /\ {"close", "arm", "select", "handle"} \cap AtSocket = {} /\ "take" \in AtSocket
        /\ {"armFin", "armDrop", "drop", "up", "accept", "flush", "recv", "store", "closeWait"}
             \subseteq AtSocket
    BY DEF AtSocket, Handling
  <1>7. ASSUME ~CloseHandedOver, NextToHandle
        PROVE  WatchInv'
    <2>1. /\ sd' = None /\ new' = None
          /\ \/ spc' = "close" /\ watched' = Unwatched
             \/ spc' = "handle" /\ watched' = watched
      BY <1>7, OnToTheNext
    <2>. QED  BY <1>1, <1>3, <1>4, <1>6, <1>7, <2>1
  <1>8. ASSUME ~CloseHandedOver, NextToArm,
               \A h \in Handles : watched'[h] # None => Safe(watched'[h])
        PROVE  WatchInv'
    <2>1. sd' = None /\ new' = None /\ spc' \in {"select", "arm"}
      BY <1>8, OnToTheNext
    <2>. QED  BY <1>4, <1>6, <1>8, <2>1
  <1>9. ASSUME ~CloseHandedOver, ~Take, NEW f \in Fds, fds[f] # None, f # new, Watch(f)
        PROVE  WatchInv'
    <2>1. /\ NextToArm
          /\ \A h \in Handles \ {cur} : watched'[h] = watched[h]
          /\ watched'[cur].fd = f /\ watched'[cur].id = fds[f].id
      BY <1>9, WatchEffect
    <2>2. Safe(watched'[cur])
      BY <1>9, <2>1, StaysOpen DEF Safe
    <2>. QED  BY <1>1, <1>8, <1>9, <2>1, <2>2
  <1>10. ASSUME ~CloseHandedOver, ~Take, NEW pc \in AtSocket, pc # "take", spc \in AtSocket,
                spc # "take", Goto(pc)
         PROVE  WatchInv'
    <2>1. spc' = pc /\ UNCHANGED <<cur, sd, new, chunk, watched>> /\ new = None /\ sd # None
      BY <1>10 DEF Goto, WatchInv
    <2>2. pc # "close"
      BY <1>6
    <2>. QED  BY <1>1, <1>2, <1>4, <1>10, <2>1, <2>2
  <1>11. spc # "take" => new = None
    BY DEF WatchInv
  <1>12. /\ spc # "close" => ~CloseHandedOver
         /\ spc # "take" => ~Take
    BY DEF CloseHandedOver, Take
  <1>13. UNCHANGED socketThread => ~CloseHandedOver /\ ~Take
    BY DEF CloseHandedOver, Take, socketThread, Goto, NextToHandle, NextSlot
  <1>14. CASE UNCHANGED socketThread
    BY <1>5, <1>13, <1>14
  <1>15. CASE CloseHandedOver
    <2>1. /\ spc = "close" /\ spc' = "arm" /\ UNCHANGED <<cur, sd, new, chunk, watched>>
      BY <1>15, CloseHandedOverEffect
    <2>2. watched = Unwatched /\ sd = None /\ new = None
      BY <1>6, <2>1 DEF WatchInv
    <2>. QED  BY <1>3, <1>4, <1>6, <2>1, <2>2
  <1>16. CASE Arm
    <2>1. ~CloseHandedOver /\ ~Take /\ new = None
      BY <1>11, <1>12, <1>16, ArmEffect
    <2>2. CASE NextToArm /\ watched' = watched
      BY <1>1, <1>8, <2>1, <2>2
    <2>3. CASE Open(cur) /\ Watch(slot[cur].sock) /\ slot[cur].sock \in Fds /\ Peer(cur) # None
      BY <1>9, <2>1, <2>3 DEF Peer, Open
    <2>4. CASE /\ Open(cur) /\ slot[cur].state = "FinWait1" /\ spc' = "armFin"
               /\ sd' = slot[cur].sock /\ UNCHANGED <<cur, new, chunk, watched>>
      <3>1. /\ fds' = fds /\ fds[slot[cur].sock] # None /\ sd' # None
        BY <1>16, <2>4, ArmEffect DEF OwnInv, Open, Peer, NetTypes
      <3>. QED  BY <1>1, <1>4, <1>6, <2>1, <2>4, <3>1
    <2>. QED  BY <1>16, <2>2, <2>3, <2>4, ArmEffect
  <1>17. CASE ArmFin
    <2>1. /\ ~CloseHandedOver /\ ~Take /\ new = None /\ spc = "armFin"
          /\ sd \in Fds /\ fds[sd] # None /\ sd # new
      BY <1>11, <1>12, <1>17, ArmFinEffect, ConstantsAssumption
    <2>2. Goto("armDrop") \/ Watch(sd)
      BY <1>17, ArmFinEffect DEF Goto
    <2>. QED  BY <1>6, <1>9, <1>10, <2>1, <2>2
  <1>18. CASE ArmDrop
    BY <1>1, <1>8, <1>12, <1>18, ArmDropEffect
  <1>19. CASE Select
    <2>1. /\ ~CloseHandedOver /\ UNCHANGED <<fds, sd, new>> /\ spc = "select"
          /\ sd = None /\ new = None
      BY <1>6, <1>11, <1>12, <1>19, SelectEffect DEF WatchInv
    <2>2. \/ spc' = "close" /\ watched' = Unwatched
          \/ /\ spc' = "handle"
             /\ \A h \in Handles : watched'[h] # None =>
                  watched[h] # None /\ watched'[h].fd = watched[h].fd /\ watched'[h].id = watched[h].id
      BY <1>19, SelectEffect
    <2>. QED  BY <1>1, <1>3, <1>4, <1>6, <2>1, <2>2 DEF Safe
  <1>20. CASE Handle
    <2>1. ~CloseHandedOver /\ ~Take /\ new = None /\ fds' = fds
      BY <1>11, <1>12, <1>20, HandleEffect
    <2>2. CASE NextToHandle
      BY <1>7, <2>1, <2>2
    <2>3. CASE /\ Watches(cur) /\ sd' = watched[cur].fd /\ UNCHANGED <<cur, new, chunk, watched>>
               /\ watched[cur].fd \in Fds
               /\ spc' \in {"drop", "up", "accept", "flush", "recv"}
      <3>1. sd' # None /\ fds'[sd'] # None
        BY <2>1, <2>3, ConstantsAssumption DEF Watches, WatchInv, NetTypes
      <3>. QED  BY <1>1, <1>4, <1>6, <2>1, <2>3, <3>1
    <2>. QED  BY <1>20, <2>2, <2>3, HandleEffect
  <1>21. CASE Connected
    BY <1>7, <1>12, <1>21, ConnectedEffect
  <1>22. CASE Accept
    <2>1. spc = "accept" /\ ~CloseHandedOver /\ ~Take
      BY <1>12, <1>22, AcceptEffect
    <2>2. CASE NextToHandle
      BY <1>7, <2>1, <2>2
    <2>3. CASE new' \in Fds /\ spc' = "take" /\ UNCHANGED <<cur, sd, chunk, watched>>
      <3>1. sd # None /\ new' # None
        BY <1>6, <2>1, <2>3, ConstantsAssumption DEF WatchInv
      <3>. QED  BY <1>1, <1>2, <1>4, <1>6, <2>1, <2>3, <3>1
    <2>. QED  BY <1>22, <2>2, <2>3, AcceptEffect
  <1>23. CASE Take
    BY <1>7, <1>12, <1>23, TakeEffect
  <1>24. CASE Flush
    <2>1. spc = "flush" /\ ~CloseHandedOver /\ ~Take
      BY <1>12, <1>24, FlushEffect
    <2>2. Goto("drop") \/ Goto("recv") \/ NextToHandle
      BY <1>24, FlushEffect
    <2>. QED  BY <1>6, <1>7, <1>10, <2>1, <2>2
  <1>25. CASE Recv
    <2>1. spc = "recv" /\ ~CloseHandedOver /\ ~Take
      BY <1>12, <1>25, RecvEffect
    <2>2. Goto("drop") \/ Goto("closeWait") \/ NextToHandle
          \/ (spc' = "store" /\ UNCHANGED <<cur, sd, new, watched>>)
      BY <1>25, RecvEffect DEF Received
    <2>3. CASE spc' = "store" /\ UNCHANGED <<cur, sd, new, watched>>
      BY <1>1, <1>2, <1>4, <1>6, <1>11, <2>1, <2>3 DEF WatchInv
    <2>. QED  BY <1>6, <1>7, <1>10, <2>1, <2>2, <2>3
  <1>26. CASE Store
    BY <1>7, <1>12, <1>26, StoreEffect
  <1>27. CASE PeerClosed
    BY <1>7, <1>12, <1>27, PeerClosedEffect
  <1>28. CASE Drop
    BY <1>7, <1>12, <1>28, DropEffect
  <1>29. \/ UNCHANGED socketThread
         \/ CloseHandedOver \/ Arm \/ ArmFin \/ ArmDrop \/ Select
         \/ Handle \/ Connected \/ Accept \/ Take \/ Flush \/ Recv \/ Store
         \/ PeerClosed \/ Drop
    BY ThreadMoves
  <1>. QED  BY <1>14, <1>15, <1>16, <1>17, <1>18, <1>19, <1>20, <1>21, <1>22, <1>23, <1>24,
               <1>25, <1>26, <1>27, <1>28, <1>29

---------------------------------------------------------------------------
\* A slot has a socket exactly when it is not closed.

LEMMA StateKept ==
    ASSUME NetTypes, OwnInv, WatchInv, StateInv, [Next]_vars
    PROVE  StateInv'
  <1>. DEFINE Fine(h) == (slot'[h].sock = None) = (slot'[h].state = "Closed")
  <1>1. /\ (\A h \in Handles : Fine(h)) => StateInv'
        /\ \A h \in Handles : (slot[h].sock = None) = (slot[h].state = "Closed")
        /\ cur \in Handles /\ None \notin Fds
    BY ConstantsAssumption DEF StateInv, NetTypes
  <1>2. ASSUME NEW h \in Handles, \A g \in Handles \ {h} : slot'[g] = slot[g],
               \/ slot'[h].sock = slot[h].sock /\ slot'[h].state = slot[h].state
               \/ slot'[h].sock = None /\ slot'[h].state = "Closed"
               \/ slot'[h].sock # None /\ slot'[h].state # "Closed"
        PROVE  StateInv'
    BY <1>1, <1>2
  <1>3. UNCHANGED slot => StateInv'
    BY <1>1
  <1>. HIDE DEF Fine
  <1>4. ASSUME NEW h \in Handles, NEW clear \in BOOLEAN, RequestClose(h, clear)
        PROVE  StateInv'
    BY <1>2, <1>4, Requested
  <1>5. ASSUME NEW h \in Handles, SameSlot(h), slot'[h].state = slot[h].state
        PROVE  StateInv'
    BY <1>2, <1>5 DEF SameSlot
  <1>6. CASE UNCHANGED vars
    BY <1>3, <1>6 DEF vars
  <1>7. ASSUME NEW h \in Handles, NEW state \in DOMAIN KindOf, TcpOpen(h, state)
        PROVE  StateInv'
    <2>1. /\ slot'[h].sock = LowestFd /\ LowestFd \in Fds /\ slot'[h].state = state
          /\ \A g \in Handles \ {h} : slot'[g] = slot[g]
          /\ state \in {"Established", "SynSent", "Listen"}
      BY <1>7, TcpOpenEffect
    <2>. QED  BY <1>1, <1>2, <2>1
  <1>8. ASSUME NEW h \in Handles, NEW len \in 1..SendCap, TcpSend(h, len)
        PROVE  StateInv'
    <2>1. SentBy(h, len) =>
            /\ \A g \in Handles \ {h} : slot'[g] = slot[g]
            /\ slot'[h].sock = slot[h].sock /\ slot'[h].state = slot[h].state
      BY DEF SentBy
    <2>. QED  BY <1>2, <1>4, <1>8, <2>1, TcpSendEffect
  <1>9. ASSUME NEW h \in Handles, NEW len \in 1..RecvCap, TcpRecv(h, len)
        PROVE  StateInv'
    BY <1>2, <1>9, TcpRecvEffect
  <1>10. CASE CloseSlot
    <2>. DEFINE h == CurrentSlot
    <2>1. /\ h \in Handles
          /\ \/ UNCHANGED <<slot, toClose, fds>>
             \/ \E clear \in BOOLEAN : RequestClose(h, clear) /\ fds' = fds
             \/ HalfClosed(h)
      BY <1>10, CloseSlotEffect
    <2>. HIDE DEF h
    <2>2. HalfClosed(h) =>
            /\ \A g \in Handles \ {h} : slot'[g] = slot[g]
            /\ slot'[h].sock # None /\ slot'[h].state # "Closed"
      BY DEF HalfClosed, Open
    <2>. QED  BY <1>2, <1>3, <1>4, <2>1, <2>2
  <1>11. CASE ArmFin
    BY <1>1, <1>5, <1>11, ArmFinEffect
  <1>12. CASE ArmDrop \/ Drop
    BY <1>1, <1>4, <1>12, ArmDropEffect, DropEffect
  <1>13. ASSUME NEW state \in {"Established", "CloseWait"}, spc \in AtSocket,
                StateSet(state) \/ slot' = slot
         PROVE  StateInv'
    <2>1. sd # None
      BY <1>13 DEF WatchInv
    <2>2. StateSet(state) =>
            /\ \A g \in Handles \ {cur} : slot'[g] = slot[g]
            /\ slot'[cur].sock # None /\ slot'[cur].state # "Closed"
      BY <2>1 DEF StateSet, SameSlot, StillOurs
    <2>. QED  BY <1>1, <1>2, <1>3, <1>13, <2>2
  <1>14. CASE Connected \/ PeerClosed
    BY <1>13, <1>14, ConnectedEffect, PeerClosedEffect DEF AtSocket, Handling
  <1>15. CASE Take
    <2>1. /\ new # None
          /\ TakenOver \/ slot' = slot
      BY <1>1, <1>15, TakeEffect
    <2>2. TakenOver =>
            /\ \A g \in Handles \ {cur} : slot'[g] = slot[g]
            /\ slot'[cur].sock # None /\ slot'[cur].state # "Closed"
      BY <2>1 DEF TakenOver
    <2>. QED  BY <1>1, <1>2, <1>3, <2>1, <2>2
  <1>16. CASE Flush
    <2>1. slot' = slot \/ \E k \in 0..Len(slot[cur].sendBuf) : Flushed(k)
      BY <1>16, FlushEffect
    <2>. QED  BY <1>1, <1>3, <1>5, <2>1 DEF Flushed
  <1>17. CASE Store
    BY <1>1, <1>3, <1>5, <1>17, StoreEffect
  <1>18. ASSUME NEW h \in Handles, TimePasses(h)
         PROVE  StateInv'
    BY <1>5, <1>18, TimePassesEffect
  <1>19. ASSUME \/ CloseHandedOver \/ Arm \/ Select \/ Handle \/ Accept \/ Recv \/ Network
                \/ \E op \in {"close", "abort", "reset"}, S \in SUBSET Handles : ClosingCommand(op, S)
         PROVE  StateInv'
    BY <1>3, <1>19, CloseHandedOverEffect, ArmEffect, SelectEffect, HandleEffect, AcceptEffect,
       RecvEffect, NetworkEffect, ClosingCommandEffect
  <1>. QED  BY EachStep, <1>6, <1>7, <1>8, <1>9, <1>10, <1>11, <1>12, <1>14, <1>15, <1>16, <1>17,
               <1>18, <1>19

---------------------------------------------------------------------------
\* As many sockets are open as there are slots that have one, sockets that are
\* handed over, and one that was accepted.

LEMMA UniqueElements ==
    ASSUME NEW q \in Seq(Fds), \A i, j \in DOMAIN q : q[i] = q[j] => i = j
    PROVE  IsFiniteSet(ToSet(q)) /\ Cardinality(ToSet(q)) = Len(q)
  <1>1. DOMAIN q = 1..Len(q) /\ Len(q) \in Nat
    OBVIOUS
  <1>2. IsFiniteSet(1..Len(q)) /\ Cardinality(1..Len(q)) = Len(q)
    BY <1>1, FS_Interval
  <1>3. q \in Bijection(1..Len(q), ToSet(q))
    <2>1. q \in [1..Len(q) -> ToSet(q)]
      <3>1. q = [i \in 1..Len(q) |-> q[i]]
        OBVIOUS
      <3>2. \A i \in 1..Len(q) : q[i] \in ToSet(q)
        BY <1>1 DEF ToSet
      <3>. QED  BY <3>1, <3>2
    <2>2. \A f \in ToSet(q) : \E i \in 1..Len(q) : q[i] = f
      BY <1>1 DEF ToSet
    <2>. QED  BY <1>1, <2>1, <2>2 DEF Bijection, Injection, Surjection, IsInjective
  <1>4. ExistsBijection(1..Len(q), ToSet(q))
    BY <1>3 DEF ExistsBijection
  <1>. QED  BY <1>2, <1>4, FS_Bijection

LEMMA SocketsCounted ==
    ASSUME NetTypes, OwnInv
    PROVE  LET mine == {h \in Handles : slot[h].sock # None}
               inUse == {f \in Fds : fds[f] # None}
               owned == {slot[h].sock : h \in mine} \cup Deferred \cup ({new} \ {None})
           IN  /\ owned = inUse
               /\ Cardinality(inUse) = Cardinality(mine) + Len(toClose)
                                       + (IF new = None THEN 0 ELSE 1)
  <1>. DEFINE mine == {h \in Handles : slot[h].sock # None}
              inUse == {f \in Fds : fds[f] # None}
              socks == {slot[h].sock : h \in mine}
              one == {new} \ {None}
  <1>1. /\ \A h \in mine : slot[h].sock \in Fds /\ fds[slot[h].sock] # None
                           /\ slot[h].sock \notin Deferred /\ slot[h].sock # new
        /\ \A f \in Deferred : fds[f] # None /\ f # new
        /\ Deferred \subseteq Fds /\ new \in Fds \cup {None} /\ None \notin Fds
        /\ new # None => fds[new] # None
    BY OpenSocket DEF OwnInv, Peer, Open, NetTypes
  <1>2. inUse = socks \cup Deferred \cup one
    <2>1. inUse \subseteq socks \cup Deferred \cup one
      <3>1. \A f \in inUse : f = new \/ f \in Deferred \/ \E h \in Handles : slot[h].sock = f
        BY DEF OwnInv
      <3>2. \A f \in inUse : f # None
        BY <1>1
      <3>. QED  BY <3>1, <3>2
    <2>2. socks \subseteq inUse /\ Deferred \subseteq inUse /\ one \subseteq inUse
      BY <1>1
    <2>. QED  BY <2>1, <2>2
  <1>3. IsFiniteSet(mine) /\ IsFiniteSet(socks) /\ Cardinality(socks) = Cardinality(mine)
    <2>1. IsFiniteSet(Handles)
      <3>1. 1 \in Int /\ NumHandles \in Int
        BY ConstantsAssumption
      <3>. QED  BY <3>1, FS_Interval DEF Handles
    <2>2. IsFiniteSet(mine)
      BY <2>1, FS_Subset
    <2>. DEFINE f == [h \in mine |-> slot[h].sock]
    <2>3. \A h, g \in mine : slot[h].sock = slot[g].sock => h = g
      BY DEF OwnInv, Open
    <2>4. f \in Bijection(mine, socks)
      BY <2>3 DEF Bijection, Injection, Surjection, IsInjective
    <2>5. ExistsBijection(mine, socks)
      BY <2>4 DEF ExistsBijection
    <2>. QED  BY <2>2, <2>5, FS_Bijection
  <1>4. IsFiniteSet(Deferred) /\ Cardinality(Deferred) = Len(toClose)
    BY UniqueElements DEF OwnInv, NetTypes, Deferred
  <1>5. IsFiniteSet(one) /\ Cardinality(one) = IF new = None THEN 0 ELSE 1
    <2>1. CASE new = None
      <3>1. one = {}
        BY <2>1
      <3>. QED  BY <2>1, <3>1, FS_EmptySet
    <2>2. CASE new # None
      <3>1. one = {new}
        BY <2>2
      <3>. QED  BY <2>2, <3>1, FS_Singleton
    <2>. QED  BY <2>1, <2>2
  <1>6. socks \cap Deferred = {} /\ (socks \cup Deferred) \cap one = {}
    BY <1>1
  <1>7. Cardinality(mine) \in Nat /\ Cardinality(Deferred) \in Nat /\ Cardinality(one) \in Nat
    BY <1>3, <1>4, <1>5, FS_CardinalityType
  <1>. HIDE DEF mine, inUse, socks, one
  <1>8. /\ IsFiniteSet(socks \cup Deferred)
        /\ Cardinality(socks \cup Deferred) = Cardinality(mine) + Cardinality(Deferred)
    <2>1. Cardinality(socks \cup Deferred) =
            Cardinality(socks) + Cardinality(Deferred) - Cardinality(socks \cap Deferred)
          /\ IsFiniteSet(socks \cup Deferred)
      BY <1>3, <1>4, FS_Union
    <2>. QED  BY <1>3, <1>6, <1>7, <2>1, FS_EmptySet
  <1>9. Cardinality(inUse) = Cardinality(mine) + Cardinality(Deferred) + Cardinality(one)
    <2>1. Cardinality((socks \cup Deferred) \cup one) =
            Cardinality(socks \cup Deferred) + Cardinality(one)
              - Cardinality((socks \cup Deferred) \cap one)
      BY <1>5, <1>8, FS_Union
    <2>. QED  BY <1>2, <1>6, <1>7, <1>8, <2>1, FS_EmptySet
  <1>. QED  BY <1>2, <1>4, <1>5, <1>9 DEF mine, inUse, socks, one

---------------------------------------------------------------------------
\* The invariant: types, owners, what is watched and the states.
NetInv == NetTypes /\ OwnInv /\ WatchInv /\ StateInv

LEMMA NetInit ==
    ASSUME Init
    PROVE  NetInv
  <1>1. /\ 1 \in Handles /\ <<>> \in Seq(Byte) /\ <<>> \in Seq(Fds) /\ None \notin Fds
        /\ "Closed" \in TcpStates /\ "close" \in Threads /\ "close" \notin AtSocket
    BY ConstantsAssumption DEF Handles, TcpStates, Threads, AtSocket, Handling
  <1>2. \A h \in Handles : slot[h].sock = None /\ slot[h].state = "Closed" /\ watched[h] = None
    BY DEF Init, Unwatched
  <1>3. slot \in [Handles -> Slot]
    <2>1. [sock |-> None, state |-> "Closed", finSent |-> FALSE,
           due |-> FALSE, recvBuf |-> <<>>, sendBuf |-> <<>>,
           conn |-> 0, seen |-> 0, accepted |-> 0] \in Slot
      BY <1>1 DEF Slot
    <2>. QED  BY <2>1 DEF Init
  <1>4. NetTypes
    <2>1. watched \in [Handles -> Watched \cup {None}] /\ fds \in [Fds -> HostSocket \cup {None}]
      BY DEF Init, Unwatched
    <2>. QED  BY <1>1, <1>3, <2>1 DEF Init, NetTypes
  <1>5. Deferred = {} /\ DOMAIN toClose = {}
    BY DEF Init, Deferred, ToSet
  <1>6. \A f \in Fds : fds[f] = None
    BY DEF Init
  <1>7. OwnInv
    BY <1>1, <1>2, <1>5, <1>6 DEF Init, OwnInv, Open
  <1>8. WatchInv
    BY <1>1, <1>2 DEF Init, WatchInv
  <1>9. StateInv
    BY <1>2 DEF StateInv
  <1>. QED  BY <1>4, <1>7, <1>8, <1>9 DEF NetInv

LEMMA NetStep ==
    ASSUME NetInv, [Next]_vars
    PROVE  NetInv'
  BY TypesKept, OwnKept, WatchKept, StateKept DEF NetInv

\* A socket that is watched stays the one it was, each socket has one owner that
\* will close it, none is lost, and no slot is (SocketsOwned), whatever the MSX
\* does while the socket thread is between a test and what it does about it.
THEOREM SocketsAreOwned == Spec => []SocketsOwned
  <1>. DEFINE Inv == NetInv
  <1>1. Init => Inv
    BY NetInit
  <1>2. Inv /\ [Next]_vars => Inv'
    BY NetStep
  <1>3. Inv => SocketsOwned
    <2>1. SUFFICES ASSUME NetInv PROVE SocketsOwned
      OBVIOUS
    <2>2. \A h \in Handles : watched[h] # None =>
            fds[watched[h].fd] # None /\ fds[watched[h].fd].id = watched[h].id
      BY <2>1 DEF NetInv, WatchInv
    <2>3. \A h \in Handles : (slot[h].sock = None) = (slot[h].state = "Closed")
      BY <2>1 DEF NetInv, StateInv
    <2>4. NetTypes /\ OwnInv
      BY <2>1 DEF NetInv
    <2>. QED  BY <2>2, <2>3, <2>4, SocketsCounted DEF SocketsOwned
  <1>. HIDE DEF Inv
  <1>. QED  BY <1>1, <1>2, <1>3, PTL DEF Spec

---------------------------------------------------------------------------
\* The slot that is dropped, or whose close is looked at, still has the socket.

\* A slot without a socket has nothing to send.
Clean(h) == ~slot[h].finSent /\ slot[h].sendBuf = <<>> /\ slot[h].accepted = 0

LEMMA CleanKept ==
    ASSUME NetInv, SafeInv, [Next]_vars
    PROVE  (\A h \in Handles : ~Open(h) => Clean(h))'
  <1>. DEFINE Fine(h) == slot'[h].sock = None => /\ ~slot'[h].finSent /\ slot'[h].sendBuf = <<>>
                                                 /\ slot'[h].accepted = 0
  <1>1. NetTypes /\ OwnInv /\ WatchInv /\ StateInv
    BY DEF NetInv
  <1>2. /\ (\A h \in Handles : Fine(h)) => (\A h \in Handles : ~Open(h) => Clean(h))'
        /\ \A h \in Handles : slot'[h] = slot[h] => Fine(h)
        /\ cur \in Handles
    BY <1>1 DEF Open, Clean, SafeInv, NetTypes
  <1>3. ASSUME NEW h \in Handles, \A g \in Handles \ {h} : slot'[g] = slot[g], Fine(h)
        PROVE  \A g \in Handles : Fine(g)
    BY <1>2, <1>3
  <1>4. UNCHANGED slot => \A h \in Handles : Fine(h)
    BY <1>2
  <1>5. ASSUME NEW h \in Handles, NEW clear \in BOOLEAN, RequestClose(h, clear)
        PROVE  \A g \in Handles : Fine(g)
    BY <1>1, <1>3, <1>5, Requested
  <1>6. ASSUME NEW h \in Handles, \A g \in Handles \ {h} : slot'[g] = slot[g], slot'[h].sock # None
        PROVE  \A g \in Handles : Fine(g)
    BY <1>3, <1>6
  <1>7. ASSUME SameSlot(cur), StillOurs, sd # None
         PROVE  \A g \in Handles : Fine(g)
    BY <1>2, <1>6, <1>7 DEF SameSlot, StillOurs
  <1>. HIDE DEF Fine
  <1>. SUFFICES \A h \in Handles : Fine(h)
    BY <1>2
  <1>8. CASE UNCHANGED vars
    BY <1>2, <1>4, <1>8 DEF vars
  <1>9. ASSUME NEW h \in Handles, NEW state \in DOMAIN KindOf, TcpOpen(h, state)
        PROVE  \A g \in Handles : Fine(g)
    BY <1>1, <1>6, <1>9, TcpOpenEffect, ConstantsAssumption
  <1>10. ASSUME NEW h \in Handles, NEW len \in 1..SendCap, TcpSend(h, len)
        PROVE  \A g \in Handles : Fine(g)
    <2>1. Open(h) /\ ((RequestClose(h, FALSE) /\ fds' = fds) \/ SentBy(h, len))
      BY <1>1, <1>10, TcpSendEffect
    <2>2. SentBy(h, len) =>
            /\ \A g \in Handles \ {h} : slot'[g] = slot[g]
            /\ slot'[h].sock # None
      BY <2>1 DEF SentBy, Open
    <2>. QED  BY <1>5, <1>6, <2>1, <2>2
  <1>11. ASSUME NEW h \in Handles, NEW len \in 1..RecvCap, TcpRecv(h, len)
        PROVE  \A g \in Handles : Fine(g)
    <2>1. /\ \A g \in Handles \ {h} : slot'[g] = slot[g]
          /\ slot'[h].sock = slot[h].sock /\ slot'[h].finSent = slot[h].finSent
          /\ slot'[h].sendBuf = slot[h].sendBuf /\ slot'[h].accepted = slot[h].accepted
      BY <1>1, <1>11, TcpRecvEffect
    <2>2. Fine(h)
      BY <2>1 DEF SafeInv, Open, Fine
    <2>. QED  BY <1>3, <2>1, <2>2
  <1>12. CASE CloseSlot
    <2>. DEFINE h == CurrentSlot
    <2>1. /\ h \in Handles
          /\ \/ UNCHANGED <<slot, toClose, fds>>
             \/ \E clear \in BOOLEAN : RequestClose(h, clear) /\ fds' = fds
             \/ HalfClosed(h)
      BY <1>1, <1>12, CloseSlotEffect
    <2>. HIDE DEF h
    <2>2. HalfClosed(h) =>
            /\ \A g \in Handles \ {h} : slot'[g] = slot[g]
            /\ slot'[h].sock # None
      BY DEF HalfClosed, Open
    <2>. QED  BY <1>4, <1>5, <1>6, <2>1, <2>2
  <1>13. CASE ArmFin
    <2>1. SameSlot(cur) /\ sd # None /\ spc = "armFin"
      BY <1>1, <1>13, ArmFinEffect, ConstantsAssumption
    <2>2. StillOurs
      BY <2>1 DEF SafeInv, StillOurs
    <2>. QED  BY <1>7, <2>1, <2>2
  <1>14. CASE ArmDrop \/ Drop
    BY <1>1, <1>2, <1>5, <1>14, ArmDropEffect, DropEffect
  <1>15. CASE Connected \/ PeerClosed
    <2>1. sd # None
      BY <1>1, <1>15, ConnectedEffect, PeerClosedEffect DEF AtSocket, Handling, WatchInv
    <2>. QED  BY <1>1, <1>4, <1>7, <1>15, <2>1, ConnectedEffect, PeerClosedEffect DEF StateSet
  <1>16. CASE Take
    <2>1. /\ new # None
          /\ TakenOver \/ slot' = slot
      BY <1>1, <1>2, <1>16, TakeEffect, ConstantsAssumption
    <2>2. TakenOver =>
            /\ \A g \in Handles \ {cur} : slot'[g] = slot[g]
            /\ slot'[cur].sock # None
      BY <2>1 DEF TakenOver
    <2>. QED  BY <1>2, <1>4, <1>6, <2>1, <2>2
  <1>17. CASE Flush
    <2>1. /\ slot' = slot \/ \E k \in 0..Len(slot[cur].sendBuf) : Flushed(k)
          /\ sd # None
      BY <1>1, <1>17, FlushEffect, ConstantsAssumption
    <2>. QED  BY <1>4, <1>7, <2>1 DEF Flushed
  <1>18. CASE Store
    <2>1. sd # None
      BY <1>1, <1>18, StoreEffect DEF AtSocket, Handling, WatchInv
    <2>. QED  BY <1>1, <1>4, <1>7, <1>18, <2>1, StoreEffect
  <1>19. ASSUME NEW h \in Handles, TimePasses(h)
         PROVE  \A g \in Handles : Fine(g)
    <2>1. Open(h)
      BY <1>1, <1>19, TimePassesEffect DEF StateInv, Open
    <2>2. /\ \A g \in Handles \ {h} : slot'[g] = slot[g]
          /\ slot'[h].sock # None
      BY <1>1, <1>19, <2>1, TimePassesEffect DEF SameSlot, Open
    <2>. QED  BY <1>6, <2>2
  <1>20. ASSUME \/ CloseHandedOver \/ Arm \/ Select \/ Handle \/ Accept \/ Recv \/ Network
                \/ \E op \in {"close", "abort", "reset"}, S \in SUBSET Handles : ClosingCommand(op, S)
         PROVE  \A h \in Handles : Fine(h)
    BY <1>1, <1>4, <1>20, CloseHandedOverEffect, ArmEffect, SelectEffect, HandleEffect, AcceptEffect,
       RecvEffect, NetworkEffect, ClosingCommandEffect
  <1>. QED  BY EachStep, <1>2, <1>8, <1>9, <1>10, <1>11, <1>12, <1>13, <1>14, <1>15, <1>16, <1>17,
               <1>18, <1>19, <1>20

\* A step that leaves the variables of the socket thread as they are is none of
\* its steps.
NotTheThread ==
    \/ UNCHANGED vars
    \/ \E h \in Handles, state \in DOMAIN KindOf : TcpOpen(h, state)
    \/ \E h \in Handles, len \in 1..SendCap : TcpSend(h, len)
    \/ \E h \in Handles, len \in 1..RecvCap : TcpRecv(h, len)
    \/ \E op \in {"close", "abort", "reset"}, S \in SUBSET Handles : ClosingCommand(op, S)
    \/ CloseSlot \/ Network \/ \E h \in Handles : TimePasses(h)

LEMMA OfOthers ==
    ASSUME NetTypes, OwnInv, WatchInv, [Next]_vars, UNCHANGED socketThread
    PROVE  NotTheThread
  <1>1. spc' = spc /\ cur' = cur /\ cur \in Nat
    BY DEF socketThread, NetTypes, Handles
  <1>2. cur + 1 # cur
    BY <1>1
  <1>3. /\ NextToArm => spc \in {"arm", "select"}
        /\ NextToHandle => spc \in {"handle", "close"}
        /\ spc = "arm" => ~NextToArm
        /\ spc = "handle" => ~NextToHandle
    BY <1>1, <1>2, OnToTheNext
  <1>4. ~(CloseHandedOver \/ Select)
    BY <1>1, CloseHandedOverEffect, SelectEffect
  <1>5. \A f : Watch(f) => NextToArm
    BY DEF Watch
  <1>6. ~(Arm \/ ArmFin \/ ArmDrop)
    BY <1>1, <1>3, <1>5, ArmEffect, ArmFinEffect, ArmDropEffect
  <1>7. ~(Handle \/ Connected \/ Accept \/ Take)
    BY <1>1, <1>3, HandleEffect, ConnectedEffect, AcceptEffect, TakeEffect
  <1>8. ~(Flush \/ Recv \/ Store \/ PeerClosed \/ Drop)
    BY <1>1, <1>3, FlushEffect, RecvEffect, StoreEffect, PeerClosedEffect, DropEffect DEF Goto, Received
  <1>. QED  BY EachStep, <1>4, <1>6, <1>7, <1>8 DEF NotTheThread

\* What the emulation thread, the network and time do to a slot that the socket
\* thread is at, between its test and what it does about it.
LEMMA LeftAlone ==
    ASSUME ~Underneath, NetInv, SafeInv, [Next]_vars, UNCHANGED socketThread,
           spc \in {"armFin", "armDrop", "drop", "closeWait"}
    PROVE  \/ slot'[cur].sock = slot[cur].sock /\ slot'[cur].state = slot[cur].state
           \/ spc \in {"drop", "closeWait"} /\ slot'[cur].sock = None
  <1>. DEFINE Goal == \/ slot'[cur].sock = slot[cur].sock /\ slot'[cur].state = slot[cur].state
                      \/ spc \in {"drop", "closeWait"} /\ slot'[cur].sock = None
  <1>0. NetTypes /\ OwnInv /\ WatchInv /\ StateInv /\ cur \in Handles
    BY DEF NetInv, NetTypes
  <1>1. \A h \in Handles : MayAct(h) => h # cur
    BY DEF MayAct, BetweenTestAndAct
  <1>2. ASSUME NEW h \in Handles, \A g \in Handles \ {h} : slot'[g] = slot[g],
               h # cur \/ (slot'[h].sock = slot[h].sock /\ slot'[h].state = slot[h].state)
        PROVE  Goal
    BY <1>0, <1>2
  <1>3. UNCHANGED slot => Goal
    OBVIOUS
  <1>. SUFFICES Goal
    OBVIOUS
  <1>. HIDE DEF Goal
  <1>4. CASE UNCHANGED vars
    BY <1>3, <1>4 DEF vars
  <1>5. ASSUME NEW h \in Handles, NEW state \in DOMAIN KindOf, TcpOpen(h, state)
        PROVE  Goal
    <2>1. MayAct(h)
      BY <1>5 DEF TcpOpen
    <2>. QED  BY <1>0, <1>1, <1>2, <1>5, <2>1, TcpOpenEffect
  <1>6. ASSUME NEW h \in Handles, NEW len \in 1..SendCap, TcpSend(h, len)
        PROVE  Goal
    <2>1. /\ slot[h].state \in {"Established", "CloseWait"}
          /\ (RequestClose(h, FALSE) /\ fds' = fds) \/ SentBy(h, len)
      BY <1>0, <1>6, TcpSendEffect
    <2>2. CASE SentBy(h, len)
      BY <1>2, <2>2 DEF SentBy
    <2>3. CASE RequestClose(h, FALSE) /\ h = cur
      <3>1. spc \in {"drop", "closeWait"}
        BY <2>1, <2>3 DEF SafeInv
      <3>. QED  BY <1>0, <2>3, <3>1, Requested DEF Goal
    <2>4. CASE RequestClose(h, FALSE) /\ h # cur
      BY <1>0, <1>2, <2>4, Requested
    <2>. QED  BY <2>1, <2>2, <2>3, <2>4
  <1>7. ASSUME NEW h \in Handles, NEW len \in 1..RecvCap, TcpRecv(h, len)
        PROVE  Goal
    BY <1>0, <1>2, <1>7, TcpRecvEffect
  <1>8. ASSUME NEW op \in {"close", "abort", "reset"}, NEW S \in SUBSET Handles,
               ClosingCommand(op, S)
        PROVE  Goal
    BY <1>0, <1>3, <1>8, ClosingCommandEffect
  <1>9. CASE CloseSlot
    <2>. DEFINE h == CurrentSlot
    <2>1. /\ h \in Handles /\ h # cur
          /\ \/ UNCHANGED <<slot, toClose, fds>>
             \/ \E clear \in BOOLEAN : RequestClose(h, clear) /\ fds' = fds
             \/ HalfClosed(h)
      BY <1>0, <1>1, <1>9, CloseSlotEffect
    <2>. HIDE DEF h
    <2>2. CASE UNCHANGED slot
      BY <1>3, <2>2
    <2>3. CASE \E clear \in BOOLEAN : RequestClose(h, clear)
      BY <1>0, <1>2, <2>1, <2>3, Requested
    <2>4. CASE HalfClosed(h)
      BY <1>2, <2>1, <2>4 DEF HalfClosed
    <2>. QED  BY <2>1, <2>2, <2>3, <2>4
  <1>10. CASE Network
    BY <1>0, <1>3, <1>10, NetworkEffect
  <1>11. ASSUME NEW h \in Handles, TimePasses(h)
         PROVE  Goal
    BY <1>0, <1>2, <1>11, TimePassesEffect DEF SameSlot
  <1>12. NotTheThread
    BY <1>0, OfOthers
  <1>. QED  BY <1>4, <1>5, <1>6, <1>7, <1>8, <1>9, <1>10, <1>11, <1>12 DEF NotTheThread

LEMMA PlaceKept ==
    ASSUME ~Underneath, NetInv, SafeInv, [Next]_vars
    PROVE  /\ (spc \in {"armFin", "armDrop"} => slot[cur].sock = sd /\ slot[cur].state = "FinWait1")'
           /\ (spc \in {"drop", "closeWait"} => slot[cur].sock \in {sd, None})'
  <1>. DEFINE Goal == /\ spc' \in {"armFin", "armDrop"} =>
                           slot'[cur'].sock = sd' /\ slot'[cur'].state = "FinWait1"
                      /\ spc' \in {"drop", "closeWait"} => slot'[cur'].sock \in {sd', None}
  <1>. SUFFICES Goal
    OBVIOUS
  <1>0. NetTypes /\ OwnInv /\ WatchInv /\ StateInv /\ cur \in Handles
    BY DEF NetInv, NetTypes
  <1>1. /\ spc \in {"armFin", "armDrop"} => slot[cur].sock = sd /\ slot[cur].state = "FinWait1"
        /\ spc \in {"drop", "closeWait"} => slot[cur].sock \in {sd, None}
    BY DEF SafeInv
  <1>2. CASE UNCHANGED socketThread
    <2>1. UNCHANGED <<spc, cur, sd>>
      BY <1>2 DEF socketThread
    <2>2. CASE spc \in {"armFin", "armDrop", "drop", "closeWait"}
      BY <1>1, <1>2, <2>1, <2>2, LeftAlone
    <2>. QED  BY <2>1, <2>2
  <1>3. spc' \in {"close", "select", "arm", "handle", "up", "accept", "take", "flush", "recv",
                  "store"} => Goal
    OBVIOUS
  <1>4. NextToHandle \/ NextToArm => Goal
    BY <1>0, <1>3, OnToTheNext
  <1>5. CASE CloseHandedOver \/ Select
    BY <1>0, <1>3, <1>5, CloseHandedOverEffect, SelectEffect
  <1>6. CASE Arm
    <2>1. CASE spc' = "armFin" /\ sd' = slot[cur].sock /\ cur' = cur /\ slot[cur].state = "FinWait1"
      <3>1. slot' = slot
        BY <1>0, <1>6, ArmEffect
      <3>. QED  BY <2>1, <3>1
    <2>2. CASE \E f \in Fds : fds[f] # None /\ Watch(f)
      BY <1>0, <1>4, <2>2, WatchEffect
    <2>. QED  BY <1>0, <1>4, <1>6, <2>1, <2>2, ArmEffect DEF Peer
  <1>7. CASE ArmFin
    <2>1. CASE spc' = "armDrop" /\ UNCHANGED <<cur, sd, new, chunk, watched>>
      <3>1. slot'[cur].sock = slot[cur].sock /\ slot'[cur].state = slot[cur].state /\ spc = "armFin"
        BY <1>0, <1>7, ArmFinEffect DEF SameSlot
      <3>. QED  BY <1>1, <2>1, <3>1
    <2>. QED  BY <1>0, <1>4, <1>7, <2>1, ArmFinEffect, WatchEffect
  <1>8. CASE Handle
    <2>1. CASE spc' = "drop" /\ Watches(cur) /\ sd' = watched[cur].fd /\ cur' = cur
      <3>1. slot' = slot
        BY <1>0, <1>8, HandleEffect
      <3>. QED  BY <2>1, <3>1 DEF Watches
    <2>. QED  BY <1>0, <1>3, <1>4, <1>8, <2>1, HandleEffect
  <1>9. CASE Accept
    BY <1>0, <1>3, <1>4, <1>9, AcceptEffect
  <1>10. CASE Flush
    <2>1. CASE StillOurs /\ Goto("drop") /\ slot' = slot
      BY <2>1 DEF StillOurs, Goto
    <2>2. CASE Goto("recv")
      BY <1>3, <2>2 DEF Goto
    <2>. QED  BY <1>0, <1>4, <1>10, <2>1, <2>2, FlushEffect
  <1>11. CASE Recv
    <2>1. CASE StillOurs /\ (Goto("drop") \/ Goto("closeWait")) /\ slot' = slot
      BY <2>1 DEF StillOurs, Goto
    <2>2. CASE spc' = "store"
      BY <1>3, <2>2
    <2>. QED  BY <1>0, <1>4, <1>11, <2>1, <2>2, RecvEffect DEF Received
  <1>12. CASE Connected \/ Take \/ Store \/ PeerClosed \/ ArmDrop \/ Drop
    BY <1>0, <1>4, <1>12, ConnectedEffect, TakeEffect, StoreEffect, PeerClosedEffect, ArmDropEffect,
       DropEffect
  <1>. QED  BY ThreadMoves, <1>2, <1>5, <1>6, <1>7, <1>8, <1>9, <1>10, <1>11, <1>12

LEMMA SafeKept ==
    ASSUME ~Underneath, NetInv, SafeInv, [Next]_vars
    PROVE  SafeInv'
  BY CleanKept, PlaceKept DEF SafeInv, Clean

\* A step of the socket thread changes at most the slot it is at, and that only
\* when the slot still has the socket in its hand.
LEMMA OnlyAtSocket ==
    ASSUME NetInv, SafeInv, SocketLoop, NEW h \in Handles, slot'[h] # slot[h]
    PROVE  h = cur /\ slot[h].sock = sd
  <1>0. NetTypes /\ OwnInv /\ WatchInv /\ StateInv /\ cur \in Handles
    BY DEF NetInv, NetTypes
  <1>1. ASSUME SameSlot(cur), StillOurs
        PROVE  h = cur /\ slot[h].sock = sd
    BY <1>1 DEF SameSlot, StillOurs
  <1>2. CASE \/ CloseHandedOver \/ Arm \/ Select \/ Handle \/ Accept \/ Recv
    BY <1>0, <1>2, CloseHandedOverEffect, ArmEffect, SelectEffect, HandleEffect, AcceptEffect, RecvEffect
  <1>3. CASE ArmFin
    BY <1>0, <1>1, <1>3, ArmFinEffect DEF SafeInv, StillOurs
  <1>4. CASE ArmDrop
    <2>1. /\ slot[cur].sock = sd
          /\ \A g \in Handles \ {cur} : slot'[g] = slot[g]
      BY <1>0, <1>4, ArmDropEffect, Requested DEF SafeInv
    <2>. QED  BY <2>1
  <1>5. CASE Connected \/ PeerClosed
    BY <1>0, <1>1, <1>5, ConnectedEffect, PeerClosedEffect DEF StateSet
  <1>6. CASE Take
    BY <1>0, <1>6, TakeEffect DEF TakenOver, StillOurs
  <1>7. CASE Flush
    BY <1>0, <1>1, <1>7, FlushEffect DEF Flushed
  <1>8. CASE Store
    BY <1>0, <1>1, <1>8, StoreEffect
  <1>9. CASE Drop
    <2>1. /\ slot[cur].sock \in {sd, None} /\ RequestClose(cur, FALSE)
          /\ slot' \in [Handles -> Slot] /\ slot \in [Handles -> Slot]
      BY <1>0, <1>9, DropEffect DEF SafeInv, NetTypes
    <2>2. /\ \A g \in Handles \ {cur} : slot'[g] = slot[g]
          /\ LET s == slot'[cur]
             IN  /\ s.sock = None /\ s.state = "Closed" /\ ~s.finSent /\ s.sendBuf = <<>>
                 /\ s.accepted = 0 /\ s.recvBuf = slot[cur].recvBuf
                 /\ s.conn = slot[cur].conn /\ s.seen = slot[cur].seen /\ s.due = slot[cur].due
      BY <1>0, <2>1, Requested
    <2>3. CASE slot[cur].sock = None
      <3>1. /\ slot[cur].state = "Closed" /\ ~slot[cur].finSent /\ slot[cur].sendBuf = <<>>
            /\ slot[cur].accepted = 0
        BY <1>0, <2>3 DEF StateInv, SafeInv, Open
      <3>2. slot'[cur] \in Slot /\ slot[cur] \in Slot
        BY <1>0, <2>1
      <3>3. slot'[cur] = slot[cur]
        BY <2>2, <2>3, <3>1, <3>2 DEF Slot
      <3>. QED  BY <2>2, <3>3
    <2>. QED  BY <2>1, <2>2, <2>3
  <1>. QED  BY <1>2, <1>3, <1>4, <1>5, <1>6, <1>7, <1>8, <1>9 DEF SocketLoop

LEMMA SafeInit ==
    ASSUME Init
    PROVE  SafeInv
  <1>1. \A h \in Handles : ~slot[h].finSent /\ slot[h].sendBuf = <<>> /\ slot[h].accepted = 0
    BY DEF Init
  <1>. QED  BY <1>1 DEF Init, SafeInv

\* The socket thread never acts on a connection "the MSX has closed and reopened
\* underneath it" (UnapiNet.hh), when no command comes between a test it makes
\* without the mutex and what it does about it (socketLoop()).
THEOREM OnlyTheWatchedChanges ==
    ASSUME ~Underneath
    PROVE  Spec => OnlyWhatItWatched
  <1>. DEFINE Inv == NetInv /\ SafeInv
              Only == SocketLoop => \A h \in Handles : slot'[h] # slot[h] =>
                        h = cur /\ slot[h].sock = sd
  <1>1. Init => Inv
    BY NetInit, SafeInit
  <1>2. Inv /\ [Next]_vars => Inv'
    BY NetStep, SafeKept
  <1>3. Inv /\ [Next]_vars => [Only]_vars
    BY OnlyAtSocket
  <1>4. OnlyWhatItWatched <=> [][Only]_vars
    BY DEF OnlyWhatItWatched
  <1>. HIDE DEF Inv, Only
  <1>. QED  BY <1>1, <1>2, <1>3, <1>4, PTL DEF Spec

---------------------------------------------------------------------------
\* A slot that still has the socket in hand was not given away in between.

LEMMA StillWas ==
    ASSUME NetInv, [Next]_vars, UNCHANGED socketThread, sd # None, slot'[cur].sock = sd
    PROVE  /\ StillOurs
           /\ slot'[cur].state = slot[cur].state \/ HalfClosed(cur)
  <1>. DEFINE Goal == /\ StillOurs
                      /\ slot'[cur].state = slot[cur].state \/ HalfClosed(cur)
  <1>0. NetTypes /\ OwnInv /\ WatchInv /\ StateInv /\ cur \in Handles
    BY DEF NetInv, NetTypes
  <1>1. slot'[cur] = slot[cur] => Goal
    BY DEF StillOurs
  <1>2. slot'[cur].sock = slot[cur].sock /\ slot'[cur].state = slot[cur].state => Goal
    BY DEF StillOurs
  <1>3. sd \in Fds /\ fds[sd] # None
    BY <1>0 DEF NetTypes, WatchInv
  <1>. SUFFICES Goal
    OBVIOUS
  <1>4. CASE HalfClosed(cur)
    BY <1>4 DEF HalfClosed, StillOurs
  <1>. HIDE DEF Goal
  <1>5. ASSUME NEW h \in Handles, \A g \in Handles \ {h} : slot'[g] = slot[g],
               h = cur => slot'[h].sock = slot[h].sock /\ slot'[h].state = slot[h].state
        PROVE  Goal
    BY <1>0, <1>1, <1>2, <1>5
  <1>6. ASSUME NEW h \in Handles, NEW clear \in BOOLEAN, RequestClose(h, clear)
        PROVE  Goal
    <2>1. slot'[h].sock = None /\ \A g \in Handles \ {h} : slot'[g] = slot[g]
      BY <1>0, <1>6, Requested
    <2>. QED  BY <1>5, <2>1
  <1>7. CASE UNCHANGED vars
    BY <1>1, <1>7 DEF vars
  <1>8. ASSUME NEW h \in Handles, NEW state \in DOMAIN KindOf, TcpOpen(h, state)
        PROVE  Goal
    <2>1. /\ slot'[h].sock = LowestFd /\ fds[LowestFd] = None
          /\ \A g \in Handles \ {h} : slot'[g] = slot[g]
      BY <1>0, <1>8, TcpOpenEffect
    <2>2. h # cur
      BY <1>3, <2>1
    <2>. QED  BY <1>5, <2>1, <2>2
  <1>9. ASSUME NEW h \in Handles, NEW len \in 1..SendCap, TcpSend(h, len)
        PROVE  Goal
    <2>1. (RequestClose(h, FALSE) /\ fds' = fds) \/ SentBy(h, len)
      BY <1>0, <1>9, TcpSendEffect
    <2>2. CASE SentBy(h, len)
      BY <1>5, <2>2 DEF SentBy
    <2>. QED  BY <1>6, <2>1, <2>2
  <1>10. ASSUME NEW h \in Handles, NEW len \in 1..RecvCap, TcpRecv(h, len)
         PROVE  Goal
    BY <1>0, <1>5, <1>10, TcpRecvEffect
  <1>11. ASSUME NEW op \in {"close", "abort", "reset"}, NEW S \in SUBSET Handles,
                ClosingCommand(op, S)
         PROVE  Goal
    BY <1>0, <1>1, <1>11, ClosingCommandEffect
  <1>12. CASE CloseSlot
    <2>. DEFINE h == CurrentSlot
    <2>1. /\ h \in Handles
          /\ \/ UNCHANGED <<slot, toClose, fds>>
             \/ \E clear \in BOOLEAN : RequestClose(h, clear) /\ fds' = fds
             \/ HalfClosed(h)
      BY <1>0, <1>12, CloseSlotEffect
    <2>. HIDE DEF h
    <2>2. CASE HalfClosed(h) /\ h # cur
      BY <1>5, <2>1, <2>2 DEF HalfClosed
    <2>. QED  BY <1>1, <1>4, <1>6, <2>1, <2>2
  <1>13. CASE Network
    BY <1>0, <1>1, <1>13, NetworkEffect
  <1>14. ASSUME NEW h \in Handles, TimePasses(h)
         PROVE  Goal
    BY <1>0, <1>5, <1>14, TimePassesEffect DEF SameSlot
  <1>15. NotTheThread
    BY <1>0, OfOthers
  <1>. QED  BY <1>7, <1>8, <1>9, <1>10, <1>11, <1>12, <1>13, <1>14, <1>15 DEF NotTheThread

\* Commands only move bytes of sockets that slots have.
LEMMA NoSlotHas ==
    ASSUME NetInv, NotTheThread, NEW f \in Fds, fds[f] # None,
           \A h \in Handles : slot[h].sock # f
    PROVE  fds'[f] = fds[f] \/ NetworkAt(f)
  <1>0. NetTypes /\ OwnInv /\ WatchInv /\ StateInv /\ cur \in Handles
    BY DEF NetInv, NetTypes
  <1>1. CASE UNCHANGED fds
    BY <1>1
  <1>2. ASSUME NEW h \in Handles, NEW state \in DOMAIN KindOf, TcpOpen(h, state)
        PROVE  fds'[f] = fds[f]
    <2>1. /\ LowestFd \in Fds /\ fds[LowestFd] = None
          /\ \A e \in Fds \ {LowestFd} : fds'[e] = fds[e]
      BY <1>0, <1>2, TcpOpenEffect
    <2>. QED  BY <2>1
  <1>3. ASSUME NEW h \in Handles, NEW len \in 1..SendCap, TcpSend(h, len)
        PROVE  fds'[f] = fds[f]
    <2>1. Open(h) /\ ((RequestClose(h, FALSE) /\ fds' = fds) \/ SentBy(h, len))
      BY <1>0, <1>3, TcpSendEffect
    <2>2. CASE SentBy(h, len)
      <3>1. /\ slot[h].sock \in Fds /\ slot[h].sock # f /\ fds[slot[h].sock] # None
            /\ slot[h].conn \in Nat /\ slot[h].accepted \in Nat /\ len \in Nat
        BY <1>0, <2>1, OpenSocket, ConstantsAssumption DEF OwnInv, Peer, Slot
      <3>. DEFINE data == Bytes(slot[h].conn, slot[h].accepted, len)
      <3>2. data \in Seq(Byte) /\ Len(data) = len
        BY <3>1, BytesLen
      <3>. HIDE DEF data
      <3>3. \E k \in 0..len : fds' = fds \/ fds' = Sent(slot[h].sock, data, k)
        BY <2>2 DEF SentBy, data
      <3>. QED  BY <1>0, <3>1, <3>2, <3>3, SentEffect
    <2>. QED  BY <2>1, <2>2
  <1>4. CASE CloseSlot
    <2>. DEFINE h == CurrentSlot
    <2>1. /\ h \in Handles
          /\ \/ UNCHANGED <<slot, toClose, fds>>
             \/ \E clear \in BOOLEAN : RequestClose(h, clear) /\ fds' = fds
             \/ HalfClosed(h)
      BY <1>0, <1>4, CloseSlotEffect
    <2>. HIDE DEF h
    <2>2. CASE HalfClosed(h)
      <3>1. /\ slot[h].sock \in Fds /\ fds[slot[h].sock] # None /\ slot[h].sock # f
            /\ fds' = [fds EXCEPT ![slot[h].sock].shut = Drained(h)] /\ Drained(h) \in BOOLEAN
        BY <1>0, <2>1, <2>2, OpenSocket DEF HalfClosed, OwnInv, Peer, Drained
      <3>. QED  BY <1>0, <3>1, ShutEffect
    <2>. QED  BY <2>1, <2>2
  <1>5. CASE Network
    BY <1>0, <1>5, NetworkEffect DEF NetworkAt
  <1>6. UNCHANGED vars => UNCHANGED fds
    BY DEF vars
  <1>. QED  BY <1>0, <1>1, <1>2, <1>3, <1>4, <1>5, <1>6, TcpRecvEffect, ClosingCommandEffect,
               TimePassesEffect DEF NotTheThread

LEMMA AcceptKept ==
    ASSUME NetInv, AcceptInv, [Next]_vars
    PROVE  AcceptInv'
  <1>. DEFINE Fresh(p) == p.kind = "stream" /\ ~p.shut /\ p.wire = <<>> /\ p.got = 0
              Goal == /\ spc' \in {"accept", "take"} /\ slot'[cur'].sock = sd' =>
                           slot'[cur'].state = "Listen"
                      /\ new' # None => Fresh(fds'[new'])
  <1>. SUFFICES Goal
    BY DEF AcceptInv, StillOurs
  <1>0. NetTypes /\ OwnInv /\ WatchInv /\ StateInv /\ cur \in Handles
    BY DEF NetInv, NetTypes
  <1>1. /\ spc \in {"accept", "take"} /\ StillOurs => slot[cur].state = "Listen"
        /\ new # None => Fresh(fds[new])
    BY DEF AcceptInv
  <1>. HIDE DEF Fresh
  <1>2. CASE UNCHANGED socketThread
    <2>1. UNCHANGED <<spc, cur, sd, new>>
      BY <1>2 DEF socketThread
    <2>2. ASSUME spc \in {"accept", "take"}, slot'[cur].sock = sd
          PROVE  slot'[cur].state = "Listen"
      <3>1. sd # None
        BY <1>0, <2>2 DEF WatchInv, AtSocket, Handling
      <3>2. StillOurs /\ (slot'[cur].state = slot[cur].state \/ HalfClosed(cur))
        BY <1>2, <2>2, <3>1, StillWas
      <3>. QED  BY <1>1, <2>2, <3>2 DEF HalfClosed
    <2>3. ASSUME new # None
          PROVE  Fresh(fds'[new])
      <3>1. new \in Fds /\ fds[new] # None /\ \A h \in Handles : slot[h].sock # new
        BY <1>0, <2>3 DEF NetTypes, OwnInv, Open
      <3>2. fds'[new] = fds[new] \/ NetworkAt(new)
        BY <1>0, <1>2, <3>1, OfOthers, NoSlotHas
      <3>. QED  BY <1>1, <2>3, <3>2 DEF Fresh, NetworkAt
    <2>. QED  BY <2>1, <2>2, <2>3
  <1>3. spc' \notin {"accept", "take"} /\ new' = None => Goal
    OBVIOUS
  <1>4. NextToHandle \/ NextToArm => Goal
    BY <1>0, <1>3, OnToTheNext
  <1>5. spc # "take" => new = None
    BY <1>0 DEF WatchInv
  <1>6. \A pc \in {"drop", "recv", "closeWait"} : Goto(pc) /\ spc # "take" => Goal
    BY <1>3, <1>5 DEF Goto
  <1>7. CASE CloseHandedOver \/ Select
    BY <1>0, <1>3, <1>5, <1>7, CloseHandedOverEffect, SelectEffect
  <1>8. CASE Arm \/ ArmFin
    <2>1. \A f : Watch(f) => NextToArm
      BY DEF Watch
    <2>. QED  BY <1>0, <1>3, <1>4, <1>5, <1>8, <2>1, ArmEffect, ArmFinEffect
  <1>9. CASE Handle
    <2>1. /\ slot' = slot /\ spc = "handle"
          /\ \/ NextToHandle
             \/ /\ cur' = cur /\ new' = new
                /\ spc' = "accept" => slot[cur].state = "Listen"
                /\ spc' # "take"
      BY <1>0, <1>9, HandleEffect
    <2>. QED  BY <1>4, <1>5, <2>1
  <1>10. CASE Accept
    <2>1. /\ slot' = slot /\ spc = "accept"
          /\ \/ NextToHandle
             \/ cur' = cur /\ sd' = sd /\ fds'[new'] = NewSocket("stream")
      BY <1>0, <1>10, AcceptEffect
    <2>2. Fresh(NewSocket("stream"))
      BY <1>0, NewSocketIs DEF Fresh
    <2>. QED  BY <1>1, <1>4, <2>1, <2>2 DEF StillOurs
  <1>11. CASE Flush \/ Recv
    <2>1. /\ spc # "take"
          /\ \/ NextToHandle \/ Goto("drop") \/ Goto("recv") \/ Goto("closeWait")
             \/ spc' = "store" /\ new' = new
      BY <1>0, <1>11, FlushEffect, RecvEffect DEF Received
    <2>. QED  BY <1>3, <1>4, <1>5, <1>6, <2>1
  <1>12. CASE Connected \/ Take \/ Store \/ PeerClosed \/ ArmDrop \/ Drop
    BY <1>0, <1>4, <1>12, ConnectedEffect, TakeEffect, StoreEffect, PeerClosedEffect, ArmDropEffect,
       DropEffect
  <1>. QED  BY ThreadMoves, <1>2, <1>7, <1>8, <1>9, <1>10, <1>11, <1>12

---------------------------------------------------------------------------
\* What is queued follows what is out.

LEMMA SendsSame ==
    ASSUME NEW s, NEW p, NEW t, NEW q, Sends(s, p),
           t.conn = s.conn, t.sendBuf = s.sendBuf, t.accepted = s.accepted,
           t.state = s.state \/ t.state \notin {"Listen", "SynSent"},
           q.id = p.id, q.wire = p.wire,
           q.shut = p.shut \/ (t.state \notin {"Listen", "SynSent"} /\ (q.shut => s.sendBuf = <<>>))
    PROVE  Sends(t, q)
  BY DEF Sends

\* The first k of len bytes that follow what is out go out.
LEMMA SendsMoved ==
    ASSUME NEW s, NEW p, NEW t, NEW q, Sends(s, p), p.id \in Nat, p.wire \in Seq(Byte), Wired(p),
           NEW len \in Nat, NEW k \in 0..len,
           t.conn = s.conn, t.state = s.state, t.accepted = Len(p.wire) + len,
           q.id = p.id, ~q.shut, s.state \in {"Listen", "SynSent"} => t.accepted = 0,
           NEW bytes, bytes = Bytes(s.conn, Len(p.wire), len),
           t.sendBuf = After(bytes, k), q.wire = p.wire \o SubSeq(bytes, 1, k)
    PROVE  Sends(t, q) /\ Wired(q)
  <1>0. PICK v, b : v = q.wire /\ b = t.sendBuf
    OBVIOUS
  <1>1. PICK c \in Nat, n \in Nat, j \in Nat, r \in Nat :
          /\ c = p.id /\ n = Len(p.wire) /\ j = n + k /\ r = len - k
          /\ v = q.wire /\ b = t.sendBuf
    <2>. WITNESS p.id \in Nat, Len(p.wire) \in Nat, Len(p.wire) + k \in Nat, len - k \in Nat
    <2>. QED  BY <1>0
  <1>2. s.conn = c /\ p.wire = Bytes(c, 0, n)
    BY <1>1 DEF Sends, Wired
  <1>3. b = After(Bytes(c, n, len), k) /\ v = Bytes(c, 0, n) \o SubSeq(Bytes(c, n, len), 1, k)
    BY <1>1, <1>2
  <1>4. v = Bytes(c, 0, j) /\ Len(v) = j /\ b = Bytes(c, j, r) /\ Len(b) = r
    <2>1. j = n + k /\ r = len - k
      BY <1>1
    <2>2. /\ SubSeq(Bytes(c, n, len), 1, k) = Bytes(c, n, k)
          /\ After(Bytes(c, n, len), k) = Bytes(c, j, r)
      BY <2>1 DEF Bytes, Byte, After
    <2>3. Bytes(c, 0, n) \o Bytes(c, n, k) = Bytes(c, 0, j)
      BY <2>1 DEF Bytes, Byte
    <2>4. Len(Bytes(c, 0, j)) = j /\ Len(Bytes(c, j, r)) = r
      BY DEF Bytes, Byte
    <2>. QED  BY <1>3, <2>2, <2>3, <2>4
  <1>5. t.accepted = j + r
    BY <1>1
  <1>. QED  BY <1>1, <1>2, <1>4, <1>5 DEF Sends, Wired

LEMMA SendsQueued ==
    ASSUME NEW s, NEW p, NEW t, Sends(s, p), p.id \in Nat, p.wire \in Seq(Byte),
           s.sendBuf \in Seq(Byte), s.sendBuf # <<>>, NEW len \in Nat,
           t.conn = s.conn, t.state = s.state, t.state \notin {"Listen", "SynSent"},
           t.accepted = s.accepted + len, t.sendBuf = s.sendBuf \o Bytes(s.conn, s.accepted, len)
    PROVE  Sends(t, p)
  <1>1. PICK c \in Nat, n \in Nat, m \in Nat, j \in Nat, r \in Nat :
          c = p.id /\ n = Len(p.wire) /\ m = Len(s.sendBuf) /\ j = n + m /\ r = m + len
    OBVIOUS
  <1>2. s.conn = c /\ s.sendBuf = Bytes(c, n, m) /\ s.accepted = j /\ ~p.shut
    BY <1>1 DEF Sends
  <1>3. t.sendBuf = Bytes(c, n, m) \o Bytes(c, j, len)
    BY <1>2
  <1>4. t.sendBuf = Bytes(c, n, r) /\ Len(t.sendBuf) = r
    <2>1. j = n + m /\ r = m + len
      BY <1>1
    <2>2. Bytes(c, n, m) \o Bytes(c, j, len) = Bytes(c, n, r)
      BY <2>1 DEF Bytes, Byte
    <2>3. Len(Bytes(c, n, r)) = r
      BY BytesLen
    <2>. QED  BY <1>3, <2>2, <2>3
  <1>5. t.accepted = n + r
    <2>1. t.accepted = j + len /\ j = n + m /\ r = m + len
      BY <1>1, <1>2
    <2>. QED  BY <2>1
  <1>. QED  BY <1>1, <1>2, <1>4, <1>5 DEF Sends

\* Nothing that concerns what is sent happens to a socket, or to a slot.
SameWire(f) == /\ fds[f] # None
               /\ fds'[f].id = fds[f].id /\ fds'[f].wire = fds[f].wire /\ fds'[f].shut = fds[f].shut
SameQueue(h) == LET s == slot[h]
                    t == slot'[h]
                IN  /\ t.sock = s.sock /\ t.conn = s.conn
                    /\ t.sendBuf = s.sendBuf /\ t.accepted = s.accepted
                    /\ t.state = s.state \/ t.state \notin {"Listen", "SynSent"}

LEMMA SendFrame ==
    ASSUME SendInv,
           \A h \in Handles : slot'[h].sock # None =>
             \/ SameQueue(h) /\ SameWire(slot[h].sock)
             \/ Sends(slot'[h], fds'[slot'[h].sock]),
           \A f \in Fds : fds'[f] # None => SameWire(f) \/ Wired(fds'[f])
    PROVE  SendInv'
  <1>1. \A f \in Fds : SameWire(f) => Wired(fds'[f])
    BY DEF SendInv, SameWire, Wired
  <1>2. ASSUME NEW h \in Handles, slot'[h].sock # None, SameQueue(h), SameWire(slot[h].sock)
        PROVE  Sends(slot'[h], fds'[slot'[h].sock])
    <2>1. Sends(slot[h], fds[slot[h].sock])
      BY <1>2 DEF SendInv, Open, Peer, SameQueue
    <2>. QED  BY <1>2, <2>1, SendsSame DEF SameWire, SameQueue
  <1>. QED  BY <1>1, <1>2 DEF SendInv, Open, Peer

LEMMA SendQuiet ==
    ASSUME NetInv', SendInv, \A h \in Handles : slot'[h].sock # None => SameQueue(h),
           \A f \in Fds : fds'[f] # None => SameWire(f)
    PROVE  SendInv'
  <1>1. ASSUME NEW h \in Handles, slot'[h].sock # None
        PROVE  SameQueue(h) /\ SameWire(slot[h].sock)
    <2>1. slot'[h].sock \in Fds /\ fds'[slot'[h].sock] # None
      BY <1>1 DEF NetInv, NetTypes, OwnInv, Open, Peer, Slot
    <2>. QED  BY <1>1, <2>1 DEF SameQueue
  <1>. QED  BY <1>1, SendFrame

LEMMA SendAt ==
    ASSUME NetInv', SendInv, NEW h \in Handles, NEW f \in Fds, slot'[h].sock = f,
           Sends(slot'[h], fds'[f]), Wired(fds'[f]),
           \A g \in Handles \ {h} : slot'[g] = slot[g],
           \A e \in Fds \ {f} : fds'[e] = fds[e]
    PROVE  SendInv'
  <1>1. \A e \in Fds \ {f} : fds'[e] # None => SameWire(e)
    BY DEF SameWire
  <1>2. ASSUME NEW g \in Handles \ {h}, slot'[g].sock # None
        PROVE  SameQueue(g) /\ SameWire(slot[g].sock)
    <2>1. slot'[g].sock \in Fds \ {f} /\ fds'[slot'[g].sock] # None
      BY <1>2 DEF NetInv, NetTypes, OwnInv, Open, Peer, Slot
    <2>. QED  BY <1>1, <1>2, <2>1 DEF SameQueue
  <1>. QED  BY <1>1, <1>2, SendFrame

\* A socket that was just made.
LEMMA SendsNothing ==
    ASSUME NEW s, NEW p, p.id \in Nat, p.wire = <<>>, ~p.shut, s.conn = p.id,
           s.sendBuf = <<>>, s.accepted = 0
    PROVE  Sends(s, p) /\ Wired(p)
  <1>1. Len(<<>>) = 0 /\ Bytes(p.id, 0, 0) = <<>>
    BY DEF Bytes
  <1>. QED  BY <1>1 DEF Sends, Wired

LEMMA SendOpened ==
    ASSUME NetInv, NetInv', SendInv, NEW h \in Handles, NEW state \in DOMAIN KindOf,
           TcpOpen(h, state)
    PROVE  SendInv'
  <1>1. NetTypes /\ LowestFd \in Fds /\ slot'[h].sock = LowestFd /\ made + 1 \in Nat
        /\ (\A g \in Handles \ {h} : slot'[g] = slot[g])
        /\ (\A e \in Fds \ {LowestFd} : fds'[e] = fds[e])
    BY TcpOpenEffect DEF NetInv, NetTypes
  <1>2. KindOf[state] \in {"connecting", "listen", "stream"}
    BY <1>1, TcpOpenEffect
  <1>3. Sends(slot'[h], fds'[LowestFd]) /\ Wired(fds'[LowestFd])
    <2>1. PICK s, p : s = slot'[h] /\ p = fds'[LowestFd]
      OBVIOUS
    <2>2. /\ p = NewSocket(KindOf[state])
          /\ s.conn = made + 1 /\ s.sendBuf = <<>> /\ s.accepted = 0
      BY <1>1, <2>1, TcpOpenEffect
    <2>3. p.id = made + 1 /\ p.wire = <<>> /\ ~p.shut
      BY <1>1, <1>2, <2>2, NewSocketIs
    <2>4. Sends(s, p) /\ Wired(p)
      BY <1>1, <2>2, <2>3, SendsNothing
    <2>. QED  BY <2>1, <2>4
  <1>. QED  BY <1>1, <1>3, SendAt

\* The first k of len bytes that a slot has to send go out.
LEMMA SendOut ==
    ASSUME NetInv, NetInv', SendInv, NEW h \in Handles, Open(h), ~Peer(h).shut,
           NEW len \in Nat, NEW k \in 0..len, NEW data,
           data = Bytes(slot[h].conn, Len(Peer(h).wire), len),
           fds' = Sent(slot[h].sock, data, k), slot'[h].sendBuf = After(data, k),
           \A g \in Handles \ {h} : slot'[g] = slot[g],
           slot'[h].sock = slot[h].sock, slot'[h].conn = slot[h].conn,
           slot'[h].state = slot[h].state, slot'[h].accepted = Len(Peer(h).wire) + len,
           slot[h].state \in {"Listen", "SynSent"} => slot'[h].accepted = 0
    PROVE  SendInv'
  <1>1. PICK s, p, t, q, f : /\ s = slot[h] /\ p = fds[f] /\ t = slot'[h] /\ q = fds'[f]
                             /\ f = slot[h].sock /\ p = Peer(h)
    BY DEF Peer
  <1>2. /\ NetTypes /\ s \in Slot /\ f \in Fds /\ p # None /\ p \in HostSocket
        /\ Sends(s, p) /\ Wired(p)
    BY <1>1, OpenSocket DEF NetInv, OwnInv, NetTypes, Open, Peer, SendInv
  <1>3. s.conn \in Nat /\ p.id \in Nat /\ p.wire \in Seq(Byte)
    BY <1>2 DEF Slot, HostSocket
  <1>4. data \in Seq(Byte) /\ Len(data) = len
    <2>1. Len(p.wire) \in Nat
      BY <1>3
    <2>2. PICK n \in Nat, c \in Nat : n = Len(p.wire) /\ c = s.conn
      BY <1>3, <2>1
    <2>3. data = Bytes(c, n, len)
      BY <1>1, <2>2
    <2>4. Len(Bytes(c, n, len)) = len /\ Bytes(c, n, len) \in Seq(Byte)
      BY BytesLen
    <2>. QED  BY <2>3, <2>4
  <1>5. /\ q.wire = p.wire \o SubSeq(data, 1, k) /\ q.id = p.id /\ q.shut = p.shut
        /\ \A e \in Fds \ {f} : fds'[e] = fds[e]
    <2>1. fds' = Sent(f, data, k) /\ fds[f] # None /\ k \in 0..Len(data)
      BY <1>1, <1>2, <1>4
    <2>2. /\ fds'[f].wire = fds[f].wire \o SubSeq(data, 1, k) /\ fds'[f].id = fds[f].id
          /\ fds'[f].shut = fds[f].shut /\ \A e \in Fds \ {f} : fds'[e] = fds[e]
      BY <1>2, <1>4, <2>1, SentEffect, ZenonT(60)
    <2>. QED  BY <1>1, <2>2
  <1>6. /\ t.conn = s.conn /\ t.state = s.state /\ t.accepted = Len(p.wire) + len
        /\ ~q.shut /\ (s.state \in {"Listen", "SynSent"} => t.accepted = 0)
        /\ data = Bytes(s.conn, Len(p.wire), len) /\ t.sendBuf = After(data, k)
    <2>1. ~q.shut
      BY <1>1, <1>5
    <2>2. data = Bytes(s.conn, Len(p.wire), len) /\ t.sendBuf = After(data, k)
      BY <1>1
    <2>3. /\ t.conn = s.conn /\ t.state = s.state /\ t.accepted = Len(p.wire) + len
          /\ (s.state \in {"Listen", "SynSent"} => t.accepted = 0)
      BY <1>1
    <2>. QED  BY <2>1, <2>2, <2>3
  <1>7. Sends(t, q) /\ Wired(q)
    <2>1. Sends(s, p) /\ Wired(p) /\ q.wire = p.wire \o SubSeq(data, 1, k) /\ q.id = p.id
      BY <1>2, <1>5
    <2>. QED  BY <1>3, <1>6, <2>1, SendsMoved, ZenonT(60)
  <1>. QED  BY <1>1, <1>2, <1>5, <1>7, SendAt, ZenonT(60)

LEMMA SendSent ==
    ASSUME NetInv, NetInv', SendInv, NEW h \in Handles, NEW len \in 1..SendCap, Open(h),
           slot[h].state \in {"Established", "CloseWait"}, SentBy(h, len)
    PROVE  SendInv'
  <1>. DEFINE s == slot[h]
              f == s.sock
              data == Bytes(s.conn, s.accepted, len)
  <1>1. /\ NetTypes /\ s \in Slot /\ f \in Fds /\ fds[f] # None /\ fds[f] \in HostSocket
    BY OpenSocket DEF NetInv, OwnInv, NetTypes, Open, Peer
  <1>2. /\ s.sendBuf \in Seq(Byte) /\ s.accepted \in Nat /\ len \in Nat
        /\ fds[f].id \in Nat /\ fds[f].wire \in Seq(Byte)
    BY <1>1 DEF Slot, HostSocket
  <1>3. Sends(s, fds[f]) /\ Wired(fds[f])
    BY <1>1 DEF SendInv, Peer
  <1>4. PICK k \in 0..len :
          /\ \A g \in Handles \ {h} : slot'[g] = slot[g]
          /\ slot'[h].sock = f /\ slot'[h].state = s.state /\ slot'[h].conn = s.conn
          /\ slot'[h].accepted = s.accepted + len
          /\ \/ s.sendBuf # <<>> /\ slot'[h].sendBuf = s.sendBuf \o data /\ fds' = fds
             \/ /\ s.sendBuf = <<>> /\ slot'[h].sendBuf = After(data, k)
                /\ ~SendFails(f) /\ fds' = Sent(f, data, k)
    BY DEF SentBy
  <1>. HIDE DEF data
  <1>5. CASE s.sendBuf # <<>>
    <2>1. slot'[h].sendBuf = s.sendBuf \o Bytes(s.conn, s.accepted, len) /\ fds' = fds
      BY <1>4, <1>5 DEF data
    <2>2. Sends(slot'[h], fds[f])
      BY <1>2, <1>3, <1>4, <1>5, <2>1, SendsQueued
    <2>. QED  BY <1>1, <1>3, <1>4, <2>1, <2>2, SendAt
  <1>6. CASE s.sendBuf = <<>>
    <2>1. /\ slot'[h].sendBuf = After(data, k) /\ ~Peer(h).shut /\ fds' = Sent(f, data, k)
      BY <1>4, <1>6 DEF SendFails, Peer
    <2>2. s.accepted = Len(Peer(h).wire)
      BY <1>2, <1>3, <1>6 DEF Sends, Peer
    <2>3. data = Bytes(slot[h].conn, Len(Peer(h).wire), len)
      BY <2>2 DEF data
    <2>4. slot[h].state \notin {"Listen", "SynSent"}
          /\ slot'[h].accepted = Len(Peer(h).wire) + len
      BY <1>4, <2>2
    <2>. QED  BY <1>2, <1>4, <2>1, <2>3, <2>4, SendOut
  <1>. QED  BY <1>5, <1>6

\* Our side of a connection is closed, or not yet.
LEMMA SendShut ==
    ASSUME NetInv, NetInv', SendInv, NEW h \in Handles, Open(h), NEW b \in BOOLEAN,
           b => slot[h].sendBuf = <<>>, fds' = [fds EXCEPT ![slot[h].sock].shut = b],
           \A g \in Handles \ {h} : slot'[g] = slot[g],
           slot'[h].sock = slot[h].sock, slot'[h].conn = slot[h].conn,
           slot'[h].sendBuf = slot[h].sendBuf, slot'[h].accepted = slot[h].accepted,
           slot'[h].state \notin {"Listen", "SynSent"}
    PROVE  SendInv'
  <1>1. PICK s, p, t, q, f : /\ s = slot[h] /\ p = fds[f] /\ t = slot'[h] /\ q = fds'[f]
                             /\ f = slot[h].sock /\ p = Peer(h)
    BY DEF Peer
  <1>2. /\ NetTypes /\ f \in Fds /\ p # None /\ Sends(s, p) /\ Wired(p)
    BY <1>1, OpenSocket DEF NetInv, OwnInv, NetTypes, Open, Peer, SendInv
  <1>3. /\ q.wire = p.wire /\ q.id = p.id /\ q.shut = b
        /\ \A e \in Fds \ {f} : fds'[e] = fds[e]
    <2>1. fds' = [fds EXCEPT ![f].shut = b] /\ fds[f] # None
      BY <1>1, <1>2
    <2>2. /\ fds'[f].wire = fds[f].wire /\ fds'[f].id = fds[f].id /\ fds'[f].shut = b
          /\ \A e \in Fds \ {f} : fds'[e] = fds[e]
      BY <1>2, <2>1, ShutEffect
    <2>. QED  BY <1>1, <2>2
  <1>4. /\ t.conn = s.conn /\ t.sendBuf = s.sendBuf /\ t.accepted = s.accepted
        /\ t.state \notin {"Listen", "SynSent"}
    BY <1>1
  <1>5. q.shut => s.sendBuf = <<>>
    BY <1>1, <1>3
  <1>6. Sends(t, q)
    BY <1>2, <1>3, <1>4, <1>5, SendsSame
  <1>7. Wired(q)
    BY <1>2, <1>3 DEF Wired
  <1>. QED  BY <1>1, <1>2, <1>3, <1>6, <1>7, SendAt

LEMMA SendArmFin ==
    ASSUME NetInv, NetInv', SafeInv, SendInv, ArmFin
    PROVE  SendInv'
  <1>. DEFINE b == fds[sd].shut \/ (~slot[cur].finSent /\ Drained(cur))
  <1>1. /\ NetTypes /\ WatchInv /\ OwnInv /\ cur \in Handles
    BY DEF NetInv, NetTypes
  <1>2. /\ spc = "armFin" /\ sd \in Fds /\ SameSlot(cur) /\ slot'[cur].state = slot[cur].state
        /\ slot'[cur].sendBuf = slot[cur].sendBuf /\ b \in BOOLEAN
        /\ fds' = [fds EXCEPT ![sd].shut = b]
    BY <1>1, ArmFinEffect
  <1>3. slot[cur].sock = sd /\ slot[cur].state = "FinWait1" /\ Open(cur)
    BY <1>1, <1>2 DEF SafeInv, Open, NetTypes, WatchInv, AtSocket
  <1>4. b => slot[cur].sendBuf = <<>>
    <2>1. Sends(slot[cur], fds[sd])
      BY <1>1, <1>3 DEF SendInv, Peer
    <2>. QED  BY <2>1 DEF Sends, Drained
  <1>. HIDE DEF b
  <1>. QED  BY <1>1, <1>2, <1>3, <1>4, SendShut DEF SameSlot

\* What was accepted has sent nothing yet, nor had the listener.
LEMMA SendTaken ==
    ASSUME NetInv, NetInv', AcceptInv, SendInv, Take
    PROVE  SendInv'
  <1>1. /\ NetTypes /\ WatchInv /\ OwnInv /\ cur \in Handles
    BY DEF NetInv, NetTypes
  <1>2. /\ spc = "take" /\ new \in Fds /\ fds[new] # None
        /\ \/ TakenOver
           \/ slot' = slot /\ fds'[new] = None /\ \A e \in Fds \ {new} : fds'[e] = fds[e]
    BY <1>1, TakeEffect
  <1>3. CASE TakenOver
    <2>1. /\ slot[cur].state = "Listen" /\ Open(cur) /\ fds[new].wire = <<>> /\ ~fds[new].shut
          /\ fds' = fds
      BY <1>1, <1>2, <1>3 DEF AcceptInv, TakenOver, WatchInv, AtSocket, Handling, StillOurs, Open
    <2>2. Sends(slot[cur], Peer(cur)) /\ Peer(cur) # None
      BY <1>1, <2>1 DEF SendInv, OwnInv
    <2>3. /\ slot[cur].accepted = 0 /\ slot[cur].sendBuf \in Seq(Byte) /\ fds[new].id \in Nat
          /\ Peer(cur).wire \in Seq(Byte)
      <3>1. slot[cur] \in Slot /\ fds[new] \in HostSocket /\ Peer(cur) \in HostSocket
        BY <1>1, <1>2, <2>1, <2>2, OpenSocket DEF Peer
      <3>. QED  BY <2>1, <2>2, <3>1 DEF Slot, HostSocket, Sends
    <2>4. slot[cur].sendBuf = <<>>
      <3>1. slot[cur].accepted = Len(Peer(cur).wire) + Len(slot[cur].sendBuf)
        BY <2>2 DEF Sends
      <3>2. Len(Peer(cur).wire) \in Nat /\ Len(slot[cur].sendBuf) \in Nat
        BY <2>3
      <3>3. Len(slot[cur].sendBuf) = 0
        <4>1. PICK n \in Nat, m \in Nat : n = Len(Peer(cur).wire) /\ m = Len(slot[cur].sendBuf)
          BY <3>2
        <4>2. 0 = n + m
          BY <2>3, <3>1, <4>1
        <4>3. m = 0
          BY <4>2
        <4>. QED  BY <4>1, <4>3
      <3>4. \A b \in Seq(Byte) : Len(b) = 0 => b = <<>>
        OBVIOUS
      <3>. QED  BY <2>3, <3>3, <3>4
    <2>5. /\ slot'[cur].sock = new /\ slot'[cur].conn = fds[new].id
          /\ slot'[cur].sendBuf = <<>> /\ slot'[cur].accepted = 0
          /\ \A g \in Handles \ {cur} : slot'[g] = slot[g]
      BY <1>3, <2>3, <2>4 DEF TakenOver
    <2>6. Sends(slot'[cur], fds'[new]) /\ Wired(fds'[new])
      BY <2>1, <2>3, <2>5, SendsNothing
    <2>. QED  BY <1>1, <1>2, <2>1, <2>5, <2>6, SendAt
  <1>4. CASE slot' = slot /\ fds'[new] = None /\ \A e \in Fds \ {new} : fds'[e] = fds[e]
    BY <1>4, SendQuiet DEF SameQueue, SameWire
  <1>. QED  BY <1>2, <1>3, <1>4

LEMMA SendFlushed ==
    ASSUME NetInv, NetInv', SendInv, Flush
    PROVE  SendInv'
  <1>1. /\ NetTypes /\ WatchInv /\ OwnInv /\ cur \in Handles
    BY DEF NetInv, NetTypes
  <1>2. /\ sd \in Fds /\ fds[sd] # None
        /\ \/ UNCHANGED <<slot, fds>>
           \/ \E k \in 0..Len(slot[cur].sendBuf) : Flushed(k)
           \/ slot' = slot /\ fds' = Sent(sd, <<>>, 0)
    BY <1>1, FlushEffect
  <1>3. CASE UNCHANGED <<slot, fds>>
    BY <1>3, SendQuiet DEF SameQueue, SameWire
  <1>4. \A e \in Fds : fds[e] # None => fds[e].wire \in Seq(Byte)
    BY <1>1, OpenSocket DEF HostSocket
  <1>5. fds' = Sent(sd, <<>>, 0) => \A e \in Fds : fds'[e] # None => SameWire(e)
    <2>1. <<>> \in Seq(Byte) /\ 0 \in 0..Len(<<>>) /\ SubSeq(<<>>, 1, 0) = <<>>
      OBVIOUS
    <2>2. \A w \in Seq(Byte) : w \o <<>> = w
      OBVIOUS
    <2>3. fds' = Sent(sd, <<>>, 0) =>
            /\ fds'[sd].wire = fds[sd].wire \o <<>> /\ fds'[sd].id = fds[sd].id
            /\ fds'[sd].shut = fds[sd].shut /\ \A e \in Fds \ {sd} : fds'[e] = fds[e]
      <3>1. PICK b \in Seq(Byte), k \in Nat : b = <<>> /\ k = 0 /\ k \in 0..Len(b)
        BY <2>1
      <3>2. SUFFICES ASSUME fds' = Sent(sd, b, k)
                     PROVE  /\ fds'[sd].wire = fds[sd].wire \o <<>> /\ fds'[sd].id = fds[sd].id
                            /\ fds'[sd].shut = fds[sd].shut
                            /\ \A e \in Fds \ {sd} : fds'[e] = fds[e]
        BY <3>1
      <3>3. /\ fds'[sd].wire = fds[sd].wire \o SubSeq(b, 1, k) /\ fds'[sd].id = fds[sd].id
            /\ fds'[sd].shut = fds[sd].shut /\ \A e \in Fds \ {sd} : fds'[e] = fds[e]
        <4>1. NetTypes /\ sd \in Fds /\ fds[sd] # None /\ b \in Seq(Byte) /\ k \in 0..Len(b)
          BY <1>1, <1>2, <3>1
        <4>. QED  BY <3>2, <4>1, SentEffect
      <3>. QED  BY <2>1, <3>1, <3>3
    <2>. QED  BY <1>2, <1>4, <2>2, <2>3 DEF SameWire
  <1>6. CASE slot' = slot /\ fds' = Sent(sd, <<>>, 0)
    BY <1>5, <1>6, SendQuiet DEF SameQueue
  <1>7. ASSUME NEW k \in 0..Len(slot[cur].sendBuf), Flushed(k)
        PROVE  SendInv'
    <2>1. /\ slot[cur].sock = sd /\ Open(cur) /\ Peer(cur) = fds[sd]
          /\ slot'[cur].sendBuf = After(slot[cur].sendBuf, k)
          /\ fds' = Sent(sd, slot[cur].sendBuf, k)
          /\ slot[cur].sendBuf = <<>> \/ ~fds[sd].shut
          /\ SameSlot(cur) /\ slot'[cur].state = slot[cur].state
      <3>1. sd # None
        BY <1>2, ConstantsAssumption
      <3>2. slot[cur].sock = sd /\ Open(cur) /\ Peer(cur) = fds[sd]
        BY <1>7, <3>1 DEF Flushed, StillOurs, Open, Peer
      <3>. QED  BY <1>7, <3>2 DEF Flushed, SendFails
    <2>2. Sends(slot[cur], Peer(cur)) /\ slot[cur].sendBuf \in Seq(Byte)
      BY <1>1, <2>1 DEF SendInv, NetTypes, Slot
    <2>3. CASE slot[cur].sendBuf = <<>>
      <3>1. k = 0 /\ After(<<>>, 0) = <<>>
        BY <2>3 DEF After
      <3>2. fds' = Sent(sd, <<>>, 0) /\ slot'[cur].sendBuf = slot[cur].sendBuf
        BY <2>1, <2>3, <3>1
      <3>3. \A h \in Handles : SameQueue(h)
        BY <2>1, <3>2 DEF SameQueue, SameSlot
      <3>. QED  BY <1>5, <3>2, <3>3, SendQuiet
    <2>4. CASE ~fds[sd].shut
      <3>1. PICK len \in Nat : len = Len(slot[cur].sendBuf) /\ k \in 0..len
        BY <2>2
      <3>2. /\ slot[cur].sendBuf = Bytes(slot[cur].conn, Len(Peer(cur).wire), len)
            /\ slot[cur].accepted = Len(Peer(cur).wire) + len
            /\ slot[cur].state \in {"Listen", "SynSent"} => slot[cur].accepted = 0
        BY <2>2, <3>1 DEF Sends
      <3>3. /\ ~Peer(cur).shut /\ \A g \in Handles \ {cur} : slot'[g] = slot[g]
            /\ slot'[cur].sock = slot[cur].sock /\ slot'[cur].conn = slot[cur].conn
            /\ slot'[cur].accepted = slot[cur].accepted
            /\ fds' = Sent(slot[cur].sock, slot[cur].sendBuf, k)
        BY <2>1, <2>4 DEF SameSlot
      <3>4. PICK data : data = slot[cur].sendBuf
        OBVIOUS
      <3>5. /\ data = Bytes(slot[cur].conn, Len(Peer(cur).wire), len)
            /\ fds' = Sent(slot[cur].sock, data, k) /\ slot'[cur].sendBuf = After(data, k)
            /\ slot'[cur].accepted = Len(Peer(cur).wire) + len
            /\ slot[cur].state \in {"Listen", "SynSent"} => slot'[cur].accepted = 0
        BY <2>1, <3>2, <3>3, <3>4
      <3>. QED  BY <1>1, <2>1, <3>1, <3>3, <3>5, SendOut
    <2>. QED  BY <2>1, <2>3, <2>4
  <1>. QED  BY <1>2, <1>3, <1>6, <1>7

LEMMA SendAccepted ==
    ASSUME NetInv, NetInv', SendInv, Accept
    PROVE  SendInv'
  <1>1. NetTypes /\ WatchInv /\ OwnInv
    BY DEF NetInv
  <1>2. /\ slot' = slot /\ sd \in Fds /\ fds[sd] # None
        /\ \/ fds' = fds
           \/ /\ new' \in Fds /\ fds[new'] = None /\ fds'[new'] = NewSocket("stream")
              /\ \A e \in Fds \ {new', sd} : fds'[e] = fds[e]
              /\ fds'[sd].wire = fds[sd].wire /\ fds'[sd].shut = fds[sd].shut
              /\ fds'[sd].id = fds[sd].id
    BY <1>1, AcceptEffect DEF SocketMade
  <1>3. CASE fds' = fds
    BY <1>2, <1>3, SendQuiet DEF SameQueue, SameWire
  <1>4. CASE fds' # fds
    <2>1. \A e \in Fds : fds'[e] # None => SameWire(e) \/ e = new'
      BY <1>2, <1>4 DEF SameWire
    <2>2. Wired(fds'[new'])
      <3>1. NewSocket("stream").wire = <<>>
        BY DEF NewSocket
      <3>2. Len(<<>>) = 0 /\ \A c : Bytes(c, 0, 0) = <<>>
        BY DEF Bytes
      <3>. QED  BY <1>2, <1>4, <3>1, <3>2 DEF Wired
    <2>3. ASSUME NEW h \in Handles, slot'[h].sock # None
          PROVE  SameQueue(h) /\ SameWire(slot[h].sock)
      <3>1. slot[h].sock \in Fds /\ Peer(h) # None
        BY <1>1, <1>2, <2>3, OpenSocket DEF OwnInv, Open
      <3>2. slot[h].sock # new' /\ fds'[slot[h].sock] # None
        <4>1. fds'[slot'[h].sock] # None
          BY <2>3 DEF NetInv, OwnInv, Open, Peer
        <4>. QED  BY <1>2, <1>4, <3>1, <4>1 DEF Peer
      <3>. QED  BY <1>2, <2>1, <3>1, <3>2 DEF SameQueue
    <2>. QED  BY <2>1, <2>2, <2>3, SendFrame
  <1>. QED  BY <1>3, <1>4

LEMMA SendKept ==
    ASSUME ~Underneath, NetInv, SafeInv, AcceptInv, SendInv, [Next]_vars
    PROVE  SendInv'
  <1>0. NetTypes /\ OwnInv /\ WatchInv /\ NetInv' /\ cur \in Handles
    BY NetStep DEF NetInv, NetTypes
  <1>1. (\A h \in Handles : slot'[h].sock # None => SameQueue(h)) /\ fds' = fds => SendInv'
    BY <1>0, SendQuiet DEF SameWire
  <1>2. \A h \in Handles : slot'[h] = slot[h] => SameQueue(h)
    BY DEF SameQueue
  <1>3. UNCHANGED <<slot, fds>> => SendInv'
    BY <1>1, <1>2
  <1>4. \A h \in Handles, clear \in BOOLEAN :
          RequestClose(h, clear) => \A g \in Handles : slot'[g].sock # None => SameQueue(g)
    BY <1>0, <1>2, Requested
  <1>5. \A h \in Handles : /\ SameSlot(h) /\ slot'[h].sendBuf = slot[h].sendBuf
                           /\ \/ slot'[h].state = slot[h].state
                              \/ slot'[h].state \notin {"Listen", "SynSent"}
                           => \A g \in Handles : SameQueue(g)
    BY <1>2 DEF SameSlot, SameQueue
  <1>6. CASE UNCHANGED vars
    BY <1>3, <1>6 DEF vars
  <1>7. CASE \E h \in Handles, state \in DOMAIN KindOf : TcpOpen(h, state)
    BY <1>0, <1>7, SendOpened
  <1>8. ASSUME NEW h \in Handles, NEW len \in 1..SendCap, TcpSend(h, len)
        PROVE  SendInv'
    <2>1. /\ Open(h) /\ slot[h].state \in {"Established", "CloseWait"}
          /\ (RequestClose(h, FALSE) /\ fds' = fds) \/ SentBy(h, len)
      BY <1>0, <1>8, TcpSendEffect
    <2>2. CASE RequestClose(h, FALSE) /\ fds' = fds
      BY <1>1, <1>4, <2>2
    <2>. QED  BY <1>0, <2>1, <2>2, SendSent
  <1>9. ASSUME NEW h \in Handles, NEW len \in 1..RecvCap, TcpRecv(h, len)
        PROVE  SendInv'
    <2>1. /\ \A g \in Handles \ {h} : slot'[g] = slot[g]
          /\ fds' = fds /\ SameQueue(h)
      BY <1>0, <1>9, TcpRecvEffect DEF SameQueue
    <2>. QED  BY <1>1, <1>2, <2>1
  <1>10. CASE \E op \in {"close", "abort", "reset"}, S \in SUBSET Handles : ClosingCommand(op, S)
    BY <1>0, <1>3, <1>10, ClosingCommandEffect
  <1>11. CASE CloseSlot
    <2>1. /\ CurrentSlot \in Handles
          /\ \/ UNCHANGED <<slot, toClose, fds>>
             \/ \E clear \in BOOLEAN : RequestClose(CurrentSlot, clear) /\ fds' = fds
             \/ HalfClosed(CurrentSlot)
      BY <1>0, <1>11, CloseSlotEffect
    <2>2. ASSUME HalfClosed(CurrentSlot) PROVE SendInv'
      <3>1. PICK h \in Handles : h = CurrentSlot
        BY <2>1
      <3>2. HalfClosed(h) /\ Drained(h) \in BOOLEAN /\ (Drained(h) => slot[h].sendBuf = <<>>)
        BY <2>2, <3>1 DEF Drained
      <3>. QED  BY <1>0, <3>2, SendShut DEF HalfClosed
    <2>. QED  BY <1>1, <1>3, <1>4, <2>1, <2>2
  <1>12. CASE CloseHandedOver
    <2>1. slot' = slot /\ \A f \in Fds : fds'[f] # None => fds'[f] = fds[f]
      BY <1>0, <1>12, CloseHandedOverEffect
    <2>. QED  BY <1>0, <1>2, <2>1, SendQuiet DEF SameWire
  <1>13. CASE Arm \/ Select \/ Handle
    BY <1>0, <1>3, <1>13, ArmEffect, SelectEffect, HandleEffect
  <1>14. CASE ArmFin
    BY <1>0, <1>14, SendArmFin
  <1>15. CASE ArmDrop \/ Drop
    BY <1>0, <1>1, <1>4, <1>15, ArmDropEffect, DropEffect
  <1>16. CASE Connected \/ PeerClosed
    <2>1. /\ fds' = fds
          /\ StateSet("Established") \/ StateSet("CloseWait") \/ slot' = slot
      BY <1>0, <1>16, ConnectedEffect, PeerClosedEffect
    <2>. QED  BY <1>0, <1>1, <1>3, <1>5, <2>1 DEF StateSet
  <1>17. CASE Accept
    BY <1>0, <1>17, SendAccepted
  <1>18. CASE Take
    BY <1>0, <1>18, SendTaken
  <1>19. CASE Flush
    BY <1>0, <1>19, SendFlushed
  <1>20. CASE Recv
    <2>1. /\ slot' = slot /\ sd \in Fds /\ fds[sd] # None
          /\ fds' = fds \/ \E n \in Nat \ {0} : Received(n)
      BY <1>0, <1>20, RecvEffect
    <2>2. \A f \in Fds : fds'[f] # None => SameWire(f)
      BY <2>1 DEF SameWire, Received
    <2>. QED  BY <1>0, <1>2, <2>1, <2>2, SendQuiet
  <1>21. CASE Store
    <2>1. /\ fds' = fds
          /\ \/ slot' = slot
             \/ /\ SameSlot(cur) /\ slot'[cur].state = slot[cur].state
                /\ slot'[cur].sendBuf = slot[cur].sendBuf
      BY <1>0, <1>21, StoreEffect
    <2>. QED  BY <1>0, <1>1, <1>3, <1>5, <2>1
  <1>22. CASE Network
    <2>1. slot' = slot /\ \E f \in Fds : NetworkAt(f)
      BY <1>0, <1>22, NetworkEffect
    <2>2. \A f \in Fds : fds'[f] # None => SameWire(f)
      BY <2>1 DEF SameWire, NetworkAt
    <2>. QED  BY <1>0, <1>2, <2>1, <2>2, SendQuiet
  <1>23. CASE \E h \in Handles : TimePasses(h)
    <2>1. fds' = fds /\ \A g \in Handles : SameQueue(g)
      BY <1>0, <1>5, <1>23, TimePassesEffect
    <2>. QED  BY <1>1, <2>1
  <1>. QED  BY EachStep, <1>6, <1>7, <1>8, <1>9, <1>10, <1>11, <1>12, <1>13, <1>14, <1>15, <1>16,
               <1>17, <1>18, <1>19, <1>20, <1>21, <1>22, <1>23

LEMMA SendInit ==
    ASSUME Init
    PROVE  AcceptInv /\ SendInv
  BY DEF Init, AcceptInv, SendInv, Open

\* What goes out on a connection is what TCP_SEND has accepted for it, in order,
\* and the FIN after the last of it (gracefulClose(), cmdTcpSend(), socketLoop()),
\* when no command comes between a test that the socket thread makes without the
\* mutex and what it does about it.
THEOREM TheFinIsLast ==
    ASSUME ~Underneath
    PROVE  Spec => []FinAfterData
  <1>. DEFINE Inv == NetInv /\ SafeInv /\ AcceptInv /\ SendInv
  <1>1. Init => Inv
    BY NetInit, SafeInit, SendInit
  <1>2. Inv /\ [Next]_vars => Inv'
    BY NetStep, SafeKept, AcceptKept, SendKept
  <1>3. Inv => FinAfterData
    <2>1. SUFFICES ASSUME Inv PROVE FinAfterData
      OBVIOUS
    <2>2. \A f \in Fds : fds[f] # None => fds[f].wire = Bytes(fds[f].id, 0, Len(fds[f].wire))
      BY <2>1 DEF SendInv, Wired
    <2>3. ASSUME NEW h \in Handles, slot[h].sock # None, Peer(h).shut
          PROVE  Len(Peer(h).wire) = slot[h].accepted
      <3>1. Sends(slot[h], Peer(h)) /\ Peer(h) \in HostSocket
        BY <2>1, <2>3, OpenSocket DEF SendInv, NetInv, OwnInv, Open, Peer
      <3>2. PICK n \in Nat : n = Len(Peer(h).wire)
        BY <3>1 DEF HostSocket
      <3>3. Len(slot[h].sendBuf) = 0 /\ slot[h].accepted = n + Len(slot[h].sendBuf)
        BY <2>3, <3>1, <3>2 DEF Sends
      <3>. QED  BY <3>2, <3>3
    <2>. QED  BY <2>2, <2>3 DEF FinAfterData, Peer
  <1>. HIDE DEF Inv
  <1>. QED  BY <1>1, <1>2, <1>3, PTL DEF Spec

---------------------------------------------------------------------------
\* What a connection received, whatever becomes of its slot.

LEMMA GetsSame ==
    ASSUME NEW s, NEW p, NEW t, NEW q, NEW hand, Gets(s, p, hand),
           t.conn = s.conn, t.seen = s.seen, t.recvBuf = s.recvBuf,
           t.state = s.state \/ (t.state = "FinWait1" /\ s.state \in Streams),
           q.id = p.id, q.got = p.got, q.kind = p.kind \/ p.kind = "connecting",
           p.fin => q.fin /\ q.sent = p.sent
    PROVE  Gets(t, q, hand)
  BY DEF Gets, Streams

LEMMA InOrderSame ==
    ASSUME NEW s, NEW t, InOrder(s), t.conn = s.conn, t.seen = s.seen, t.recvBuf = s.recvBuf,
           t.state = s.state \/ t.state \notin {"Listen", "SynSent"}
    PROVE  InOrder(t)
  BY DEF InOrder, Stretch

LEMMA InOrderEmpty ==
    ASSUME NEW s, s.recvBuf = <<>>, s.state \in {"Listen", "SynSent"} => s.seen = 0
    PROVE  InOrder(s)
  <1>1. Len(<<>>) = 0 /\ \A c, n : Bytes(c, n, 0) = <<>>
    BY DEF Bytes
  <1>. QED  BY <1>1 DEF InOrder, Stretch

\* The MSX reads some of it, ...
Read(s, t, k) ==
    /\ k \in 1..Len(s.recvBuf) /\ t.recvBuf = After(s.recvBuf, k) /\ t.seen = s.seen + k
    /\ t.conn = s.conn /\ t.state = s.state

LEMMA InOrderRead ==
    ASSUME NEW s, NEW t, NEW k, s.conn \in Nat, s.seen \in Nat, s.recvBuf \in Seq(Byte),
           InOrder(s), Read(s, t, k)
    PROVE  /\ InOrder(t) /\ t.seen + Len(t.recvBuf) = s.seen + Len(s.recvBuf)
           /\ Len(t.recvBuf) \in 0..Len(s.recvBuf)
           /\ s.state \notin {"Listen", "SynSent"}
  <1>1. PICK c \in Nat, n \in Nat, len \in Nat :
          c = s.conn /\ n = s.seen /\ len = Len(s.recvBuf) /\ k \in 1..len
    BY DEF Read
  <1>2. PICK j \in Nat, r \in Nat : j = n + k /\ r = len - k
    <2>1. n + k \in Nat /\ len - k \in Nat
      BY <1>1
    <2>. QED  BY <2>1
  <1>3. n + len = j + r /\ r \in 0..len /\ len # 0 /\ k \in 0..len
    <2>1. j = n + k /\ r = len - k /\ k \in 1..len
      BY <1>1, <1>2
    <2>. QED  BY <2>1
  <1>4. s.recvBuf = Bytes(c, n, len)
    BY <1>1 DEF InOrder, Stretch
  <1>5. t.recvBuf = Bytes(c, j, r)
    <2>1. After(Bytes(c, n, len), k) = Bytes(c, j, r)
      BY <1>2, <1>3, BytesCut
    <2>. QED  BY <1>4, <2>1 DEF Read
  <1>6. Len(t.recvBuf) = r
    <2>1. Len(Bytes(c, j, r)) = r
      BY BytesLen
    <2>. QED  BY <1>5, <2>1
  <1>7. s.state \notin {"Listen", "SynSent"}
    <2>1. s.recvBuf # <<>>
      BY <1>1, <1>3
    <2>. QED  BY <2>1 DEF InOrder
  <1>8. t.seen = j /\ t.conn = c /\ t.state = s.state
    BY <1>1, <1>2 DEF Read
  <1>. QED  BY <1>1, <1>3, <1>5, <1>6, <1>7, <1>8 DEF InOrder, Stretch

\* ... and what is in hand comes behind it.
Stored(s, t, b) ==
    /\ t.recvBuf = s.recvBuf \o b /\ t.seen = s.seen
    /\ t.conn = s.conn /\ t.state = s.state

LEMMA InOrderStored ==
    ASSUME NEW s, NEW t, NEW b \in Seq(Byte),
           s.conn \in Nat, s.seen \in Nat, s.recvBuf \in Seq(Byte),
           Stretch(b, s.conn, s.seen + Len(s.recvBuf)),
           InOrder(s), Stored(s, t, b), s.state \notin {"Listen", "SynSent"}
    PROVE  InOrder(t) /\ Len(t.recvBuf) = Len(s.recvBuf) + Len(b)
  <1>1. PICK c \in Nat, n \in Nat, k \in Nat, m \in Nat, r \in Nat, j \in Nat :
          /\ c = s.conn /\ n = s.seen /\ k = Len(s.recvBuf) /\ m = Len(b)
          /\ r = k + m /\ j = n + k
    OBVIOUS
  <1>2. s.recvBuf = Bytes(c, n, k) /\ b = Bytes(c, j, m)
    BY <1>1 DEF InOrder, Stretch
  <1>3. t.recvBuf = Bytes(c, n, k) \o Bytes(c, j, m)
    BY <1>2 DEF Stored
  <1>4. t.recvBuf = Bytes(c, n, r)
    <2>1. j = n + k /\ r = k + m
      BY <1>1
    <2>2. Bytes(c, n, k) \o Bytes(c, j, m) = Bytes(c, n, r)
      BY <2>1 DEF Bytes, Byte
    <2>. QED  BY <1>3, <2>2
  <1>5. Len(t.recvBuf) = r
    <2>1. Len(Bytes(c, n, r)) = r
      BY BytesLen
    <2>. QED  BY <1>4, <2>1
  <1>6. t.seen = n /\ t.conn = c /\ t.state = s.state
    BY <1>1 DEF Stored
  <1>. QED  BY <1>1, <1>4, <1>5, <1>6 DEF InOrder, Stretch

\* What a step may do to a socket that stays open.
Onward(f) ==
    LET p == fds[f]
        q == fds'[f]
    IN  /\ p # None /\ q # None /\ q.id = p.id /\ (q.kind = p.kind \/ p.kind = "connecting")
        /\ (p.fin => q.fin /\ q.sent = p.sent) /\ (p.reset => q.reset) /\ q.sent >= p.sent
SameGot(f) == Onward(f) /\ fds'[f].got = fds[f].got

LEMMA GoesOn ==
    ASSUME NetInv, [Next]_vars, NEW f \in Fds, fds'[f] # None
    PROVE  \/ fds[f] = None /\ fds'[f].got = 0 /\ fds'[f].sent = 0
           \/ SameGot(f)
           \/ /\ f = sd /\ Recv /\ Onward(f)
              /\ \E n \in Nat \ {0} : Received(n)
  <1>. DEFINE Goal == \/ fds[f] = None /\ fds'[f].got = 0 /\ fds'[f].sent = 0
                      \/ SameGot(f)
                      \/ /\ f = sd /\ Recv /\ Onward(f)
                         /\ \E n \in Nat \ {0} : Received(n)
  <1>. SUFFICES Goal
    OBVIOUS
  <1>0. NetTypes /\ OwnInv /\ WatchInv /\ (fds[f] # None => fds[f].sent \in Nat)
    BY OpenSocket DEF NetInv, HostSocket
  <1>1. fds'[f] = fds[f] => Goal
    BY <1>0 DEF SameGot, Onward
  <1>. DEFINE Same(e) == LET p == fds[e]
                             q == fds'[e]
                         IN  /\ q.kind = p.kind /\ q.id = p.id /\ q.sent = p.sent
                             /\ q.got = p.got /\ q.fin = p.fin /\ q.reset = p.reset
  <1>2. Same(f) /\ fds[f] # None => Goal
    BY <1>0 DEF SameGot, Onward
  <1>. HIDE DEF Same
  <1>3. UNCHANGED fds => Goal
    BY <1>1
  <1>4. CASE UNCHANGED vars
    BY <1>3, <1>4 DEF vars
  <1>5. CASE \E h \in Handles, state \in DOMAIN KindOf : TcpOpen(h, state)
    BY <1>0, <1>1, <1>5, TcpOpenEffect, NewSocketIs
  <1>6. ASSUME NEW h \in Handles, NEW len \in 1..SendCap, TcpSend(h, len)
        PROVE  Goal
    <2>1. Open(h) /\ ((RequestClose(h, FALSE) /\ fds' = fds) \/ SentBy(h, len))
      BY <1>0, <1>6, TcpSendEffect
    <2>2. CASE SentBy(h, len)
      <3>1. PICK k \in 0..len :
              \/ fds' = fds
              \/ fds' = Sent(slot[h].sock, Bytes(slot[h].conn, slot[h].accepted, len), k)
        BY <2>2 DEF SentBy
      <3>2. PICK data : data = Bytes(slot[h].conn, slot[h].accepted, len)
        OBVIOUS
      <3>3. data \in Seq(Byte) /\ k \in 0..Len(data)
        <4>1. slot[h].conn \in Nat /\ slot[h].accepted \in Nat
          BY <1>0 DEF NetTypes, Slot
        <4>2. PICK c \in Nat, n \in Nat : c = slot[h].conn /\ n = slot[h].accepted
          BY <4>1
        <4>3. len \in Nat
          BY ConstantsAssumption
        <4>4. Bytes(c, n, len) \in Seq(Byte) /\ Len(Bytes(c, n, len)) = len
          BY <4>3, BytesLen
        <4>. QED  BY <3>2, <4>2, <4>4
      <3>4. slot[h].sock \in Fds /\ fds[slot[h].sock] # None
        BY <1>0, <2>1, OpenSocket DEF OwnInv, Peer
      <3>5. PICK e \in Fds : e = slot[h].sock
        BY <3>4
      <3>6. ASSUME fds' = Sent(e, data, k)
            PROVE  Same(e) /\ \A g \in Fds \ {e} : fds'[g] = fds[g]
        BY <1>0, <3>3, <3>4, <3>5, <3>6, SentEffect DEF Same
      <3>. QED  BY <1>1, <1>2, <1>3, <3>1, <3>2, <3>4, <3>5, <3>6
    <2>. QED  BY <1>3, <2>1, <2>2
  <1>7. CASE \E h \in Handles, len \in 1..RecvCap : TcpRecv(h, len)
    BY <1>0, <1>3, <1>7, TcpRecvEffect
  <1>8. CASE \E op \in {"close", "abort", "reset"}, S \in SUBSET Handles : ClosingCommand(op, S)
    BY <1>0, <1>3, <1>8, ClosingCommandEffect
  <1>9. ASSUME NEW e \in Fds, fds[e] # None, NEW b \in BOOLEAN, fds' = [fds EXCEPT ![e].shut = b]
        PROVE  Goal
    <2>1. Same(e) /\ \A g \in Fds \ {e} : fds'[g] = fds[g]
      BY <1>0, <1>9, ShutEffect DEF Same
    <2>. QED  BY <1>1, <1>2, <1>9, <2>1
  <1>10. CASE CloseSlot
    <2>1. PICK h \in Handles : fds' = fds \/ HalfClosed(h)
      BY <1>0, <1>10, CloseSlotEffect
    <2>2. CASE HalfClosed(h)
      <3>1. /\ slot[h].sock \in Fds /\ fds[slot[h].sock] # None /\ Drained(h) \in BOOLEAN
            /\ fds' = [fds EXCEPT ![slot[h].sock].shut = Drained(h)]
        BY <1>0, <2>2, OpenSocket DEF HalfClosed, OwnInv, Peer, Drained
      <3>. QED  BY <1>9, <3>1
    <2>. QED  BY <1>3, <2>1, <2>2
  <1>11. CASE CloseHandedOver
    BY <1>0, <1>1, <1>11, CloseHandedOverEffect
  <1>12. CASE Arm \/ ArmDrop \/ Select \/ Handle \/ Connected \/ Store \/ PeerClosed \/ Drop
    BY <1>0, <1>3, <1>12, ArmEffect, ArmDropEffect, SelectEffect, HandleEffect, ConnectedEffect,
       StoreEffect, PeerClosedEffect, DropEffect
  <1>13. CASE ArmFin
    BY <1>0, <1>9, <1>13, ArmFinEffect
  <1>14. CASE Accept
    <2>1. \/ fds' = fds
          \/ /\ fds'[new'] = NewSocket("stream") /\ fds[new'] = None
             /\ Same(sd) /\ fds[sd] # None
             /\ \A e \in Fds \ {new', sd} : fds'[e] = fds[e]
      BY <1>0, <1>14, AcceptEffect DEF SocketMade, Same
    <2>2. NewSocket("stream").got = 0 /\ NewSocket("stream").sent = 0
      BY DEF NewSocket
    <2>. QED  BY <1>1, <1>2, <1>3, <2>1, <2>2
  <1>15. CASE Take
    BY <1>0, <1>1, <1>3, <1>15, TakeEffect DEF TakenOver
  <1>16. CASE Flush
    <2>1. /\ \/ fds' = fds
             \/ \E k \in 0..Len(slot[cur].sendBuf) : fds' = Sent(sd, slot[cur].sendBuf, k)
             \/ fds' = Sent(sd, <<>>, 0)
          /\ sd \in Fds /\ fds[sd] # None
      BY <1>0, <1>16, FlushEffect DEF Flushed
    <2>2. slot[cur].sendBuf \in Seq(Byte) /\ <<>> \in Seq(Byte) /\ 0 \in 0..Len(<<>>)
      BY <1>0 DEF NetTypes, Slot
    <2>3. ASSUME NEW data \in Seq(Byte), NEW k \in 0..Len(data), fds' = Sent(sd, data, k)
          PROVE  Goal
      <3>1. Same(sd) /\ \A g \in Fds \ {sd} : fds'[g] = fds[g]
        BY <1>0, <2>1, <2>3, SentEffect DEF Same
      <3>. QED  BY <1>1, <1>2, <2>1, <3>1
    <2>4. CASE fds' = Sent(sd, <<>>, 0)
      BY <2>2, <2>3, <2>4
    <2>5. CASE \E k \in 0..Len(slot[cur].sendBuf) : fds' = Sent(sd, slot[cur].sendBuf, k)
      BY <2>2, <2>3, <2>5
    <2>. QED  BY <1>3, <2>1, <2>4, <2>5
  <1>17. CASE Recv
    <2>1. fds' = fds \/ (sd \in Fds /\ \E n \in Nat \ {0} : Received(n))
      BY <1>0, <1>17, RecvEffect
    <2>2. ASSUME NEW n \in Nat \ {0}, Received(n)
          PROVE  fds'[f] = fds[f] \/ (f = sd /\ Onward(f))
      <3>1. fds[sd] # None => Onward(sd)
        <4>1. fds[sd] # None => fds[sd].sent \in Nat
          BY <1>0, <1>17, RecvEffect, OpenSocket DEF HostSocket
        <4>. QED  BY <2>2, <4>1 DEF Received, Onward
      <3>. QED  BY <1>0, <1>17, <2>2, <3>1, RecvEffect DEF Received
    <2>. QED  BY <1>1, <1>3, <1>17, <2>1, <2>2
  <1>18. CASE Network
    BY <1>0, <1>1, <1>18, NetworkEffect DEF NetworkAt, SameGot, Onward
  <1>19. CASE \E h \in Handles : TimePasses(h)
    BY <1>0, <1>3, <1>19, TimePassesEffect
  <1>. QED  BY EachStep, <1>4, <1>5, <1>6, <1>7, <1>8, <1>10, <1>11, <1>12, <1>13, <1>14, <1>15, <1>16,
               <1>17, <1>18, <1>19

LEMMA StageKept ==
    ASSUME NetInv, StageInv, ReadyInv, [Next]_vars
    PROVE  StageInv'
  <1>. DEFINE Reads == {"flush", "recv", "store", "closeWait"}
              Goal == /\ spc' \in Reads /\ slot'[cur'].sock = sd' => slot'[cur'].state \in Streams
                      /\ spc' = "up" => fds'[sd'].kind = "stream"
                      /\ spc' \in {"flush", "recv"} => watched'[cur'] # None /\ watched'[cur'].fd = sd'
                      /\ spc' = "recv" => watched'[cur'].r
  <1>. SUFFICES Goal
    BY DEF StageInv, StillOurs, Streams
  <1>0. NetTypes /\ OwnInv /\ WatchInv /\ cur \in Handles /\ WatchInv'
    BY NetStep DEF NetInv, NetTypes
  <1>1. /\ spc \in Reads /\ slot[cur].sock = sd => slot[cur].state \in Streams
        /\ spc = "up" => fds[sd].kind = "stream"
        /\ spc \in {"flush", "recv"} => watched[cur] # None /\ watched[cur].fd = sd
        /\ spc = "recv" => watched[cur].r
    BY DEF StageInv, StillOurs
  <1>2. spc' \notin Reads \cup {"up"} => Goal
    OBVIOUS
  <1>3. CASE UNCHANGED socketThread
    <2>1. UNCHANGED <<spc, cur, sd, watched>>
      BY <1>3 DEF socketThread
    <2>2. ASSUME spc \in Reads, slot'[cur].sock = sd
          PROVE  slot'[cur].state \in Streams
      <3>1. sd # None
        BY <1>0, <2>2 DEF WatchInv, AtSocket, Handling
      <3>2. StillOurs /\ (slot'[cur].state = slot[cur].state \/ HalfClosed(cur))
        BY <1>3, <2>2, <3>1, StillWas
      <3>. QED  BY <1>1, <2>2, <3>2 DEF HalfClosed, StillOurs, Streams
    <2>3. ASSUME spc = "up" PROVE fds'[sd].kind = "stream"
      <3>1. sd \in Fds /\ fds[sd] # None /\ fds'[sd] # None
        BY <1>0, <2>1, <2>3 DEF NetTypes, WatchInv, AtSocket, Handling
      <3>2. fds'[sd].kind = fds[sd].kind \/ fds[sd].kind = "connecting"
        BY <3>1, GoesOn DEF SameGot, Onward
      <3>. QED  BY <1>1, <2>3, <3>2
    <2>. QED  BY <1>1, <2>1, <2>2, <2>3
  <1>4. NextToHandle \/ NextToArm => Goal
    BY <1>0, <1>2, OnToTheNext
  <1>5. Goto("drop") => Goal
    BY <1>2 DEF Goto
  <1>6. CASE CloseHandedOver \/ Select
    BY <1>0, <1>2, <1>6, CloseHandedOverEffect, SelectEffect
  <1>7. CASE Arm \/ ArmFin
    <2>1. \A f : Watch(f) => NextToArm
      BY DEF Watch
    <2>. QED  BY <1>0, <1>2, <1>4, <1>7, <2>1, ArmEffect, ArmFinEffect
  <1>8. CASE Handle
    <2>1. /\ slot' = slot /\ fds' = fds /\ spc = "handle"
          /\ \/ NextToHandle
             \/ /\ Watches(cur) /\ sd' = watched[cur].fd /\ UNCHANGED <<cur, watched>>
                /\ \/ spc' \in {"drop", "accept"}
                   \/ watched[cur].w /\ spc' = "up" /\ fds[watched[cur].fd].kind # "refused"
                   \/ slot[cur].state \in Streams /\ spc' = "flush"
                   \/ slot[cur].state \in Streams /\ watched[cur].r /\ spc' = "recv"
      BY <1>0, <1>8, HandleEffect
    <2>2. watched[cur] # None /\ watched[cur].w => fds[watched[cur].fd].kind \in {"stream", "refused"}
      BY <1>0, <2>1 DEF ReadyInv, Handling
    <2>3. Watches(cur) => watched[cur] # None
      BY DEF Watches
    <2>. QED  BY <1>2, <1>4, <2>1, <2>2, <2>3
  <1>9. CASE Accept
    BY <1>0, <1>2, <1>4, <1>9, AcceptEffect
  <1>10. CASE Flush
    <2>1. /\ spc = "flush"
          /\ \/ Goto("drop") \/ NextToHandle
             \/ /\ Goto("recv") /\ watched[cur].r
                /\ slot'[cur].sock = slot[cur].sock /\ slot'[cur].state = slot[cur].state
      BY <1>0, <1>10, FlushEffect DEF Flushed, SameSlot
    <2>. QED  BY <1>1, <1>4, <1>5, <2>1 DEF Goto
  <1>11. CASE Recv
    <2>1. /\ spc = "recv" /\ slot' = slot
          /\ \/ NextToHandle \/ Goto("drop")
             \/ spc' \in {"store", "closeWait"} /\ UNCHANGED <<cur, sd>>
      BY <1>0, <1>11, RecvEffect DEF Received, Goto
    <2>. QED  BY <1>1, <1>4, <1>5, <2>1
  <1>12. CASE Connected \/ Take \/ Store \/ PeerClosed \/ ArmDrop \/ Drop
    BY <1>0, <1>4, <1>12, ConnectedEffect, TakeEffect, StoreEffect, PeerClosedEffect, ArmDropEffect,
       DropEffect
  <1>. QED  BY ThreadMoves, <1>3, <1>6, <1>7, <1>8, <1>9, <1>10, <1>11, <1>12

\* The slots that are left to be handled were left before.
LEMMA HandlingGoesOn ==
    ASSUME NetInv, [Next]_vars, spc' \in Handling
    PROVE  \/ Select
           \/ /\ spc \in Handling /\ watched' = watched
              /\ \/ cur' = cur + 1
                 \/ /\ cur' = cur
                    /\ spc' \in {"handle", "flush", "recv"} => spc \in {"handle", "flush", "recv"}
  <1>. DEFINE Before == {"handle", "flush", "recv"}
              On == /\ spc \in Handling /\ watched' = watched
                    /\ cur' = cur + 1 \/ (cur' = cur /\ (spc' \in Before => spc \in Before))
  <1>. SUFFICES Select \/ On
    OBVIOUS
  <1>0. NetTypes /\ OwnInv /\ WatchInv
    BY DEF NetInv
  <1>1. CASE UNCHANGED socketThread
    BY <1>1 DEF socketThread
  <1>2. NextToHandle /\ spc \in Handling => On
    BY <1>0, OnToTheNext DEF Handling
  <1>3. spc' \notin {"arm", "select", "armFin", "armDrop"}
    BY DEF Handling
  <1>4. CASE CloseHandedOver \/ ArmDrop
    BY <1>0, <1>3, <1>4, CloseHandedOverEffect, ArmDropEffect, OnToTheNext
  <1>5. CASE Arm \/ ArmFin
    <2>1. \A f : Watch(f) => NextToArm
      BY DEF Watch
    <2>. QED  BY <1>0, <1>3, <1>5, <2>1, ArmEffect, ArmFinEffect, OnToTheNext
  <1>6. CASE Handle
    <2>1. spc = "handle" /\ (NextToHandle \/ UNCHANGED <<cur, watched>>)
      BY <1>0, <1>6, HandleEffect
    <2>. QED  BY <1>2, <2>1 DEF Handling
  <1>7. CASE Accept
    <2>1. spc = "accept" /\ (NextToHandle \/ (spc' = "take" /\ UNCHANGED <<cur, watched>>))
      BY <1>0, <1>7, AcceptEffect
    <2>. QED  BY <1>2, <2>1 DEF Handling
  <1>8. CASE Flush \/ Recv
    <2>1. /\ spc \in {"flush", "recv"}
          /\ \/ NextToHandle
             \/ spc' \in {"drop", "recv", "store", "closeWait"} /\ UNCHANGED <<cur, watched>>
      BY <1>0, <1>8, FlushEffect, RecvEffect DEF Received, Goto
    <2>. QED  BY <1>2, <2>1 DEF Handling
  <1>9. CASE Connected \/ Take \/ Store \/ PeerClosed \/ Drop
    <2>1. NextToHandle /\ spc \in {"up", "take", "store", "closeWait", "drop"}
      BY <1>0, <1>9, ConnectedEffect, TakeEffect, StoreEffect, PeerClosedEffect, DropEffect
    <2>. QED  BY <1>2, <2>1 DEF Handling
  <1>. QED  BY ThreadMoves, <1>1, <1>4, <1>5, <1>6, <1>7, <1>8, <1>9

\* A slot that has a socket that was watched had it before.
LEMMA HadWatched ==
    ASSUME NetInv, [Next]_vars, NEW h \in Handles, watched[h] # None,
           slot'[h].sock = watched[h].fd
    PROVE  slot[h].sock = slot'[h].sock
  <1>0. /\ NetTypes /\ OwnInv /\ WatchInv /\ watched[h].fd \in Fds /\ fds[watched[h].fd] # None
        /\ watched[h].fd # new /\ watched[h].fd # None
    BY ConstantsAssumption DEF NetInv, WatchInv, NetTypes, Watched
  <1>1. slot'[h] = slot[h] => slot[h].sock = slot'[h].sock
    OBVIOUS
  <1>2. CASE NotTheThread
    <2>1. CASE \E g \in Handles, state \in DOMAIN KindOf : TcpOpen(g, state)
      BY <1>0, <2>1, TcpOpenEffect
    <2>2. ASSUME NEW g \in Handles, NEW clear \in BOOLEAN, RequestClose(g, clear)
          PROVE  slot[h].sock = slot'[h].sock
      BY <1>0, <2>2, Requested
    <2>3. CASE \E g \in Handles, len \in 1..SendCap : TcpSend(g, len)
      BY <1>0, <2>2, <2>3, TcpSendEffect DEF SentBy
    <2>4. CASE CloseSlot
      BY <1>0, <2>2, <2>4, CloseSlotEffect DEF HalfClosed
    <2>5. CASE \/ UNCHANGED vars \/ Network
               \/ \E op \in {"close", "abort", "reset"}, S \in SUBSET Handles : ClosingCommand(op, S)
      BY <1>0, <2>5, NetworkEffect, ClosingCommandEffect DEF vars
    <2>6. CASE \E g \in Handles, len \in 1..RecvCap : TcpRecv(g, len)
      BY <1>0, <2>6, TcpRecvEffect
    <2>7. CASE \E g \in Handles : TimePasses(g)
      BY <1>0, <2>7, TimePassesEffect DEF SameSlot
    <2>. QED  BY <1>2, <2>1, <2>3, <2>4, <2>5, <2>6, <2>7 DEF NotTheThread
  <1>3. CASE Arm \/ CloseHandedOver \/ Select \/ Handle \/ Accept \/ Recv
    BY <1>0, <1>3, ArmEffect, CloseHandedOverEffect, SelectEffect, HandleEffect, AcceptEffect,
       RecvEffect
  <1>4. CASE ArmFin \/ Connected \/ PeerClosed \/ Store \/ Flush
    BY <1>0, <1>4, ArmFinEffect, ConnectedEffect, PeerClosedEffect, StoreEffect, FlushEffect
       DEF SameSlot, StateSet, Flushed
  <1>5. CASE ArmDrop \/ Drop
    BY <1>0, <1>5, ArmDropEffect, DropEffect, Requested DEF NetTypes
  <1>6. CASE Take
    BY <1>0, <1>6, TakeEffect DEF TakenOver
  <1>. QED  BY EachStep, <1>2, <1>3, <1>4, <1>5, <1>6 DEF NotTheThread

LEMMA ReadyKept ==
    ASSUME NetInv, ReadyInv, [Next]_vars
    PROVE  ReadyInv'
  <1>. DEFINE Fine(h) == /\ Due(h)' => Answers(fds'[slot'[h].sock])
                         /\ watched'[h] # None /\ watched'[h].w =>
                              fds'[watched'[h].fd].kind \in {"stream", "refused"}
  <1>0. NetTypes /\ OwnInv /\ WatchInv /\ WatchInv' /\ cur \in Handles
    BY NetStep DEF NetInv, NetTypes
  <1>1. SUFFICES ASSUME spc' \in Handling, NEW h \in Handles PROVE Fine(h)
    BY DEF ReadyInv, Peer
  <1>2. CASE Select
    <2>1. /\ fds' = fds /\ slot' = slot
          /\ watched'[h] # None =>
              /\ watched'[h].fd = watched[h].fd /\ watched[h] # None
              /\ watched'[h].r => Readable(watched[h].fd)
              /\ watched'[h].w => Writable(watched[h].fd)
      BY <1>0, <1>1, <1>2, SelectEffect DEF Unwatched
    <2>2. \A f \in Fds : Readable(f) => Answers(fds[f])
      BY DEF Readable, Answers, HasData
    <2>3. watched'[h] # None => watched[h].fd \in Fds
      BY <1>0, <2>1 DEF NetTypes, Watched
    <2>. QED  BY <2>1, <2>2, <2>3 DEF Due, Writable
  <1>3. CASE ~Select
    <2>0. /\ spc \in Handling /\ watched' = watched
          /\ \/ cur' = cur + 1
             \/ /\ cur' = cur
                /\ spc' \in {"handle", "flush", "recv"} => spc \in {"handle", "flush", "recv"}
      BY <1>1, <1>3, HandlingGoesOn
    <2>1. SUFFICES ASSUME watched[h] # None PROVE Fine(h)
      BY <2>0 DEF Due
    <2>2. PICK f \in Fds : f = watched[h].fd /\ fds[f] # None /\ fds'[f] # None
      BY <1>0, <2>0, <2>1 DEF WatchInv, NetTypes, Watched
    <2>3. /\ SameGot(f) \/ (f = sd /\ Onward(f) /\ spc' = "store" /\ slot[cur].sock = sd /\ cur' = cur)
      BY <2>2, GoesOn DEF Received, StillOurs
    <2>4. watched[h].w => fds[f].kind \in {"stream", "refused"}
      BY <2>0, <2>1, <2>2 DEF ReadyInv
    <2>5. watched'[h].w => fds'[f].kind \in {"stream", "refused"}
      BY <2>0, <2>3, <2>4 DEF SameGot, Onward
    <2>6. ASSUME Due(h)' PROVE Answers(fds'[f])
      <3>1. /\ watched[h].r /\ slot'[h].sock = f
            /\ h > cur' \/ (h = cur' /\ spc' \in {"handle", "flush", "recv"})
        BY <2>0, <2>2, <2>6 DEF Due
      <3>2. slot[h].sock = f
        BY <2>1, <2>2, <3>1, HadWatched
      <3>3. h > cur \/ (h = cur /\ spc \in {"handle", "flush", "recv"})
        BY <1>0, <2>0, <3>1 DEF Handles
      <3>4. Answers(fds[f])
        BY <2>0, <2>1, <2>2, <3>1, <3>2, <3>3 DEF ReadyInv, Due, Answers, Peer
      <3>5. SameGot(f)
        <4>1. f # None
          BY ConstantsAssumption
        <4>2. f = sd /\ slot[cur].sock = sd => h = cur
          BY <1>0, <3>2, <4>1 DEF OwnInv, Open
        <4>. QED  BY <1>0, <2>3, <3>1, <4>2 DEF Handles
      <3>6. fds[f].sent \in Nat /\ fds[f].got \in Nat /\ fds'[f].sent \in Nat
        <4>1. fds[f] \in HostSocket
          BY <1>0, <2>2, OpenSocket
        <4>2. fds'[f] \in HostSocket
          BY <2>2, NetStep DEF NetInv, NetTypes
        <4>. QED  BY <4>1, <4>2 DEF HostSocket
      <3>7. CASE fds'[f].kind = "stream"
        <4>1. fds[f].kind = "stream"
          BY <3>4, <3>5, <3>7 DEF SameGot, Onward, Answers
        <4>2. fds[f].got < fds[f].sent => fds'[f].got < fds'[f].sent
          BY <3>5, <3>6 DEF SameGot, Onward
        <4>3. fds[f].fin \/ fds[f].reset => fds'[f].fin \/ fds'[f].reset
          BY <3>5 DEF SameGot, Onward
        <4>. QED  BY <3>4, <3>7, <4>1, <4>2, <4>3 DEF Answers
      <3>. QED  BY <3>4, <3>5, <3>7 DEF SameGot, Onward, Answers
    <2>. QED  BY <2>0, <2>2, <2>5, <2>6 DEF Due
  <1>. QED  BY <1>2, <1>3

\* The peer of a connection of which there is nothing to receive has closed.
LEMMA PeerIsGone ==
    ASSUME NetInv, StageInv, ReceiveInv, ChunkInv, ReadyInv, Recv,
           StillOurs, ~fds[sd].reset, fds[sd].sent <= fds[sd].got \/ Room < 0
    PROVE  fds[sd].fin /\ fds[sd].got = fds[sd].sent
  <1>0. NetTypes /\ OwnInv /\ WatchInv /\ cur \in Handles
    BY DEF NetInv, NetTypes
  <1>1. spc = "recv" /\ sd \in Fds /\ fds[sd] # None /\ sd # None
    BY <1>0, RecvEffect, ConstantsAssumption
  <1>2. slot[cur].sock = sd /\ Open(cur) /\ Peer(cur) = fds[sd] /\ slot[cur] \in Slot
        /\ fds[sd] \in HostSocket
    BY <1>0, <1>1, OpenSocket DEF StillOurs, Open, Peer
  <1>3. fds[sd].kind = "stream"
    BY <1>0, <1>1, <1>2 DEF StageInv, ReceiveInv, Gets
  <1>4. Due(cur)
    BY <1>1, <1>2 DEF StageInv, Due
  <1>5. fds[sd].got < fds[sd].sent \/ fds[sd].fin
    BY <1>0, <1>1, <1>2, <1>3, <1>4 DEF ReadyInv, Answers, Handling
  <1>6. ~(Room < 0)
    <2>1. Len(slot[cur].recvBuf) + InHand(cur) <= RecvCap
      BY <1>0, <1>2 DEF ReceiveInv, Gets
    <2>2. InHand(cur) \in Nat /\ Len(slot[cur].recvBuf) \in Nat /\ RecvCap \in Nat
      BY <1>0, <1>2, ConstantsAssumption DEF InHand, NetTypes, Slot
    <2>. QED  BY <2>1, <2>2 DEF Room
  <1>7. fds[sd].got <= fds[sd].sent /\ fds[sd].got \in Nat /\ fds[sd].sent \in Nat
    BY <1>1, <1>2 DEF ChunkInv, HostSocket
  <1>8. fds[sd].got = fds[sd].sent
    BY <1>6, <1>7
  <1>. QED  BY <1>5, <1>7, <1>8

LEMMA ChunkKept ==
    ASSUME NetInv, StageInv, ReceiveInv, ChunkInv, ReadyInv, [Next]_vars
    PROVE  ChunkInv'
  <1>. DEFINE Holds == /\ spc' # "store" => chunk' = <<>>
                       /\ spc' = "store" => \E n \in Nat : /\ Stretch(chunk', fds'[sd'].id, n)
                                                           /\ fds'[sd'].got = n + Len(chunk')
                       /\ spc' = "closeWait" => fds'[sd'].fin /\ fds'[sd'].got = fds'[sd'].sent
  <1>0. NetTypes /\ OwnInv /\ WatchInv /\ cur \in Handles /\ WatchInv' /\ NetTypes'
    BY NetStep DEF NetInv, NetTypes
  <1>1. ASSUME NEW f \in Fds, fds'[f] # None
        PROVE  fds'[f].got <= fds'[f].sent
    <2>1. fds'[f].got \in Nat /\ fds'[f].sent \in Nat
      BY <1>0, <1>1 DEF NetTypes, HostSocket
    <2>2. fds[f] # None => /\ fds[f].got \in Nat /\ fds[f].sent \in Nat
                           /\ fds[f].got <= fds[f].sent
      BY <1>0, OpenSocket DEF ChunkInv, HostSocket
    <2>3. CASE SameGot(f)
      BY <2>1, <2>2, <2>3 DEF SameGot, Onward
    <2>4. ASSUME NEW n \in Nat \ {0}, Received(n), f = sd, fds[f] # None
          PROVE  fds'[f].got <= fds'[f].sent
      <3>1. /\ n <= fds[f].sent - fds[f].got /\ fds'[f].got = fds[f].got + n
            /\ fds'[f].sent = fds[f].sent
        BY <2>4 DEF Received
      <3>. QED  BY <2>2, <2>4, <3>1
    <2>. QED  BY <1>1, <2>1, <2>3, <2>4, GoesOn DEF Onward
  <1>2. SUFFICES Holds
    BY <1>1 DEF ChunkInv
  <1>3. /\ spc # "store" => chunk = <<>>
        /\ spc = "store" => \E n \in Nat : /\ Stretch(chunk, fds[sd].id, n)
                                           /\ fds[sd].got = n + Len(chunk)
        /\ spc = "closeWait" => fds[sd].fin /\ fds[sd].got = fds[sd].sent
    BY DEF ChunkInv
  <1>4. chunk' = <<>> /\ spc' \notin {"store", "closeWait"} => Holds
    OBVIOUS
  <1>5. CASE UNCHANGED socketThread
    <2>1. UNCHANGED <<spc, cur, sd, chunk>>
      BY <1>5 DEF socketThread
    <2>2. ASSUME spc \in {"store", "closeWait"} PROVE SameGot(sd)
      <3>1. sd \in Fds /\ fds[sd] # None /\ fds'[sd] # None
        BY <1>0, <2>1, <2>2 DEF NetTypes, WatchInv, AtSocket, Handling
      <3>2. ~Recv
        BY <2>2 DEF Recv
      <3>. QED  BY <3>1, <3>2, GoesOn
    <2>. QED  BY <1>3, <2>1, <2>2 DEF SameGot, Onward
  <1>6. NextToHandle \/ NextToArm => Holds
    BY <1>0, <1>4, OnToTheNext
  <1>7. \A pc \in {"drop", "recv"} : Goto(pc) /\ spc # "store" => Holds
    BY <1>3, <1>4 DEF Goto
  <1>8. CASE CloseHandedOver \/ Select
    BY <1>0, <1>3, <1>4, <1>8, CloseHandedOverEffect, SelectEffect
  <1>9. CASE Arm \/ ArmFin
    <2>1. \A f : Watch(f) => NextToArm
      BY DEF Watch
    <2>. QED  BY <1>0, <1>3, <1>4, <1>6, <1>9, <2>1, ArmEffect, ArmFinEffect
  <1>10. CASE Handle
    <2>1. /\ spc = "handle"
          /\ NextToHandle \/ (chunk' = chunk /\ spc' \notin {"store", "closeWait"})
      BY <1>0, <1>10, HandleEffect
    <2>. QED  BY <1>3, <1>4, <1>6, <2>1
  <1>11. CASE Accept
    <2>1. spc = "accept" /\ (NextToHandle \/ (chunk' = chunk /\ spc' = "take"))
      BY <1>0, <1>11, AcceptEffect
    <2>. QED  BY <1>3, <1>4, <1>6, <2>1
  <1>12. CASE Flush
    BY <1>0, <1>6, <1>7, <1>12, FlushEffect
  <1>13. CASE Recv
    <2>1. spc = "recv" /\ sd \in Fds /\ fds[sd] # None /\ fds[sd] \in HostSocket
      BY <1>0, <1>13, RecvEffect, OpenSocket
    <2>2. ASSUME NEW n \in Nat \ {0}, Received(n) PROVE Holds
      <3>1. PICK c \in Nat, g \in Nat : c = fds[sd].id /\ g = fds[sd].got
        BY <2>1 DEF HostSocket
      <3>2. /\ chunk' = Bytes(c, g, n) /\ spc' = "store" /\ sd' = sd /\ fds'[sd].id = c
            /\ fds'[sd].got = g + n
        BY <2>2, <3>1 DEF Received
      <3>3. Len(Bytes(c, g, n)) = n
        BY BytesLen
      <3>. QED  BY <3>2, <3>3 DEF Stretch
    <2>3. ASSUME StillOurs, Goto("closeWait"), fds' = fds, ~fds[sd].reset,
                 fds[sd].sent <= fds[sd].got \/ Room < 0
          PROVE  Holds
      <3>1. fds[sd].fin /\ fds[sd].got = fds[sd].sent
        BY <1>13, <2>3, PeerIsGone
      <3>. QED  BY <1>3, <2>1, <2>3, <3>1 DEF Goto
    <2>. QED  BY <1>0, <1>6, <1>7, <1>13, <2>1, <2>2, <2>3, RecvEffect
  <1>14. CASE Connected \/ Take \/ Store \/ PeerClosed \/ ArmDrop \/ Drop
    BY <1>0, <1>6, <1>14, ConnectedEffect, TakeEffect, StoreEffect, PeerClosedEffect, ArmDropEffect,
       DropEffect
  <1>. QED  BY ThreadMoves, <1>5, <1>8, <1>9, <1>10, <1>11, <1>12, <1>13, <1>14

\* Nothing that concerns what is received happens to a slot.
KeepsIn(h) == LET s == slot[h]
                  t == slot'[h]
              IN  /\ t.sock = s.sock /\ t.conn = s.conn /\ t.seen = s.seen /\ t.recvBuf = s.recvBuf
                  /\ t.state = s.state \/ (t.state = "FinWait1" /\ s.state \in Streams)
Receives(h) == /\ InOrder(slot'[h])
               /\ slot'[h].sock # None => Gets(slot'[h], fds'[slot'[h].sock], InHand(h)')

LEMMA NothingInHand ==
    ASSUME NetInv, ChunkInv, [Next]_vars, ~Recv, ~Store
    PROVE  UNCHANGED socketThread \/ (chunk = <<>> /\ chunk' = <<>>)
  <1>0. NetTypes /\ OwnInv /\ WatchInv /\ (spc # "store" => chunk = <<>>)
    BY DEF NetInv, ChunkInv
  <1>1. NextToHandle \/ NextToArm => chunk' = <<>>
    BY <1>0, OnToTheNext
  <1>2. \A pc : Goto(pc) => chunk' = chunk
    BY DEF Goto
  <1>3. CASE CloseHandedOver \/ Select
    BY <1>0, <1>3, CloseHandedOverEffect, SelectEffect
  <1>4. CASE Arm \/ ArmFin
    <2>1. \A f : Watch(f) => NextToArm
      BY DEF Watch
    <2>. QED  BY <1>0, <1>1, <1>4, <2>1, ArmEffect, ArmFinEffect
  <1>5. CASE Handle \/ Accept
    BY <1>0, <1>1, <1>5, HandleEffect, AcceptEffect
  <1>6. CASE Flush
    BY <1>0, <1>1, <1>2, <1>6, FlushEffect
  <1>7. CASE Connected \/ Take \/ PeerClosed \/ ArmDrop \/ Drop
    BY <1>0, <1>1, <1>7, ConnectedEffect, TakeEffect, PeerClosedEffect, ArmDropEffect, DropEffect
  <1>. QED  BY ThreadMoves, <1>3, <1>4, <1>5, <1>6, <1>7

LEMMA HandKept ==
    ASSUME NetInv, ChunkInv, [Next]_vars, ~Recv, ~Store, NEW h \in Handles,
           slot'[h].sock = slot[h].sock
    PROVE  InHand(h)' = InHand(h)
  <1>1. CASE UNCHANGED socketThread
    BY <1>1 DEF InHand, socketThread
  <1>2. CASE chunk = <<>> /\ chunk' = <<>>
    <2>1. Len(<<>>) = 0
      OBVIOUS
    <2>. QED  BY <1>2, <2>1 DEF InHand
  <1>. QED  BY <1>1, <1>2, NothingInHand

LEMMA ReceivesOn ==
    ASSUME NetInv, ReceiveInv, [Next]_vars, NEW h \in Handles, KeepsIn(h),
           slot'[h].sock # None => SameGot(slot[h].sock) /\ InHand(h)' = InHand(h)
    PROVE  Receives(h)
  <1>1. InOrder(slot'[h])
    <2>1. InOrder(slot[h])
      BY DEF ReceiveInv
    <2>. QED  BY <2>1, InOrderSame DEF KeepsIn
  <1>2. ASSUME slot'[h].sock # None
        PROVE  Gets(slot'[h], fds'[slot'[h].sock], InHand(h)')
    <2>1. Gets(slot[h], Peer(h), InHand(h))
      BY <1>2 DEF ReceiveInv, KeepsIn, Open
    <2>2. PICK p, q, hand : p = Peer(h) /\ q = fds'[slot'[h].sock] /\ hand = InHand(h)
      OBVIOUS
    <2>3. /\ q.id = p.id /\ q.got = p.got
          /\ q.kind = p.kind \/ p.kind = "connecting"
          /\ p.fin => q.fin /\ q.sent = p.sent
      BY <1>2, <2>2 DEF KeepsIn, SameGot, Onward, Peer
    <2>4. Gets(slot'[h], q, hand)
      BY <2>1, <2>2, <2>3, GetsSame DEF KeepsIn
    <2>. QED  BY <1>2, <2>2, <2>4
  <1>. QED  BY <1>1, <1>2 DEF Receives

\* The same for a step that is not Recv or Store.
LEMMA ReceivesStill ==
    ASSUME NetInv, ReceiveInv, ChunkInv, [Next]_vars, ~Recv, ~Store, NEW h \in Handles, KeepsIn(h)
    PROVE  Receives(h)
  <1>1. ASSUME slot'[h].sock # None
        PROVE  SameGot(slot[h].sock) /\ InHand(h)' = InHand(h)
    <2>1. /\ slot[h].sock = slot'[h].sock /\ slot[h].sock \in Fds /\ fds[slot[h].sock] # None
          /\ fds'[slot[h].sock] # None
      <3>1. NetTypes /\ OwnInv /\ OwnInv' /\ slot[h].sock = slot'[h].sock
        BY NetStep DEF NetInv, KeepsIn
      <3>. QED  BY <1>1, <3>1, OpenSocket DEF OwnInv, Open, Peer
    <2>. QED  BY <2>1, GoesOn, HandKept
  <1>. QED  BY <1>1, ReceivesOn

LEMMA ReceivesClosed ==
    ASSUME NetTypes, ReceiveInv, NEW h \in Handles, NEW clear \in BOOLEAN, RequestClose(h, clear)
    PROVE  Receives(h)
  <1>1. /\ slot'[h].sock = None /\ slot'[h].state = "Closed"
        /\ slot'[h].recvBuf = <<>> \/ slot'[h].recvBuf = slot[h].recvBuf
        /\ slot'[h].conn = slot[h].conn /\ slot'[h].seen = slot[h].seen
    BY Requested
  <1>2. InOrder(slot[h])
    BY DEF ReceiveInv
  <1>. QED  BY <1>1, <1>2, InOrderSame, InOrderEmpty DEF Receives

LEMMA ReceivesOpened ==
    ASSUME NetInv, NEW h \in Handles, NEW state \in DOMAIN KindOf, TcpOpen(h, state)
    PROVE  Receives(h)
  <1>0. NetTypes /\ WatchInv /\ RecvCap \in Nat
    BY ConstantsAssumption DEF NetInv
  <1>1. /\ slot'[h].sock = LowestFd /\ fds[LowestFd] = None /\ LowestFd \in Fds
        /\ slot'[h].state = state /\ slot'[h].recvBuf = <<>> /\ slot'[h].seen = 0
        /\ slot'[h].conn = made + 1 /\ fds'[LowestFd] = NewSocket(KindOf[state])
        /\ UNCHANGED socketThread /\ state \in {"Established", "SynSent", "Listen"}
        /\ KindOf[state] = CASE state = "Established" -> "stream"
                             [] state = "SynSent" -> "connecting"
                             [] OTHER -> "listen"
    BY <1>0, TcpOpenEffect
  <1>2. /\ fds'[LowestFd].id = made + 1 /\ fds'[LowestFd].got = 0
        /\ fds'[LowestFd].kind = KindOf[state]
    BY <1>1 DEF NewSocket
  <1>3. InHand(h)' = 0
    <2>1. sd # LowestFd
      BY <1>0, <1>1, ConstantsAssumption DEF WatchInv
    <2>. QED  BY <1>1, <2>1 DEF InHand, socketThread
  <1>4. Len(slot'[h].recvBuf) = 0
    BY <1>1
  <1>5. Gets(slot'[h], fds'[LowestFd], 0)
    BY <1>0, <1>1, <1>2, <1>4 DEF Gets, Streams
  <1>6. InOrder(slot'[h])
    BY <1>1, InOrderEmpty
  <1>. QED  BY <1>1, <1>3, <1>5, <1>6 DEF Receives

LEMMA ReceivesRead ==
    ASSUME NetInv, ReceiveInv, ChunkInv, [Next]_vars, NEW h \in Handles, NEW len \in 1..RecvCap,
           TcpRecv(h, len)
    PROVE  Receives(h)
  <1>0. NetTypes /\ slot[h] \in Slot /\ fds' = fds /\ UNCHANGED socketThread /\ InOrder(slot[h])
        /\ slot'[h].sock = slot[h].sock /\ slot'[h].state = slot[h].state
        /\ slot'[h].conn = slot[h].conn /\ Read(slot[h], slot'[h], len)
    BY TcpRecvEffect DEF NetInv, NetTypes, ReceiveInv, Read
  <1>1. slot[h].conn \in Nat /\ slot[h].seen \in Nat /\ slot[h].recvBuf \in Seq(Byte)
    BY <1>0 DEF Slot
  <1>2. /\ InOrder(slot'[h])
        /\ slot'[h].seen + Len(slot'[h].recvBuf) = slot[h].seen + Len(slot[h].recvBuf)
        /\ Len(slot'[h].recvBuf) \in 0..Len(slot[h].recvBuf)
    BY <1>0, <1>1, InOrderRead
  <1>3. ASSUME slot'[h].sock # None
        PROVE  Gets(slot'[h], fds'[slot'[h].sock], InHand(h)')
    <2>1. Gets(slot[h], Peer(h), InHand(h))
      BY <1>0, <1>3 DEF ReceiveInv, Open
    <2>2. InHand(h)' = InHand(h) /\ InHand(h) \in Nat
      BY <1>0 DEF InHand, socketThread, NetTypes
    <2>3. PICK p : p = Peer(h)
      OBVIOUS
    <2>4. PICK hand \in Nat, n \in Nat, m \in Nat, l \in Nat :
            /\ p = Peer(h) /\ p = fds'[slot'[h].sock] /\ hand = InHand(h)
            /\ n = slot[h].seen /\ m = Len(slot[h].recvBuf) /\ l = Len(slot'[h].recvBuf)
      <3>1. Peer(h) = fds'[slot'[h].sock]
        BY <1>0 DEF Peer
      <3>2. Len(slot[h].recvBuf) \in Nat /\ Len(slot'[h].recvBuf) \in Nat
        BY <1>1, <1>2
      <3>. QED  BY <1>1, <2>2, <2>3, <3>1, <3>2
    <2>5. p.got = n + m + hand /\ m + hand <= RecvCap
      BY <2>1, <2>4 DEF Gets
    <2>6. slot'[h].seen + l = n + m /\ l <= m
      BY <1>2, <2>4
    <2>7. slot'[h].seen \in Nat
      BY <1>1 DEF Read, TcpRecv
    <2>8. p.got = slot'[h].seen + l + hand /\ l + hand <= RecvCap
      BY <2>5, <2>6, <2>7, ConstantsAssumption
    <2>9. /\ slot'[h].conn = p.id
          /\ slot'[h].state \in Streams => p.kind = "stream"
          /\ slot'[h].state = "CloseWait" => p.fin /\ p.got = p.sent
      BY <1>0, <2>1, <2>4 DEF Gets
    <2>10. l = Len(slot'[h].recvBuf)
      BY <2>4
    <2>11. Gets(slot'[h], p, hand)
      BY <2>8, <2>9, <2>10 DEF Gets
    <2>. QED  BY <2>2, <2>4, <2>11
  <1>. QED  BY <1>2, <1>3 DEF Receives

\* The slot at which the thread is has connected, or its peer has closed.
LEMMA ReceivesStateSet ==
    ASSUME NetInv, StageInv, ReceiveInv, ChunkInv, [Next]_vars, Connected \/ PeerClosed,
           NEW h \in Handles
    PROVE  Receives(h)
  <1>0. NetTypes /\ OwnInv /\ WatchInv /\ cur \in Handles
    BY DEF NetInv, NetTypes
  <1>1. /\ fds' = fds /\ spc \in {"up", "closeWait"}
        /\ \/ slot' = slot
           \/ spc = "up" /\ StateSet("Established")
           \/ spc = "closeWait" /\ StateSet("CloseWait")
    BY <1>0, ConnectedEffect, PeerClosedEffect
  <1>2. ~Recv /\ ~Store
    BY <1>1 DEF Recv, Store
  <1>3. KeepsIn(h) => Receives(h)
    BY <1>2, ReceivesStill
  <1>4. CASE slot'[h] = slot[h]
    BY <1>3, <1>4 DEF KeepsIn
  <1>5. ASSUME NEW state \in {"Established", "CloseWait"}, StateSet(state), h = cur,
               state = "Established" => spc = "up", state = "CloseWait" => spc = "closeWait"
        PROVE  Receives(h)
    <2>1. /\ slot[h].sock = sd /\ slot'[h].sock = sd /\ slot'[h].state = state
          /\ slot'[h].conn = slot[h].conn /\ slot'[h].seen = slot[h].seen
          /\ slot'[h].recvBuf = slot[h].recvBuf
      BY <1>5 DEF StateSet, SameSlot, StillOurs
    <2>2. sd # None /\ Open(h) /\ Peer(h) = fds[sd]
      BY <1>0, <1>1, <2>1 DEF WatchInv, AtSocket, Handling, Open, Peer
    <2>3. /\ state = "Established" => fds[sd].kind = "stream"
          /\ state = "CloseWait" => fds[sd].fin /\ fds[sd].got = fds[sd].sent
          /\ state = "CloseWait" => slot[h].state \in Streams
      BY <1>5, <2>1 DEF StageInv, ChunkInv, StillOurs
    <2>4. Gets(slot[h], fds[sd], InHand(h)) /\ InOrder(slot[h])
      BY <2>2 DEF ReceiveInv
    <2>5. InHand(h)' = InHand(h)
      BY <1>2, <2>1, HandKept
    <2>6. fds[sd].kind = "stream"
      BY <1>5, <2>3, <2>4 DEF Gets
    <2>7. Gets(slot'[h], fds'[sd], InHand(h))
      BY <1>1, <1>5, <2>1, <2>3, <2>4, <2>6 DEF Gets
    <2>8. InOrder(slot'[h])
      BY <2>1, <2>4, InOrderSame
    <2>. QED  BY <2>1, <2>5, <2>7, <2>8 DEF Receives
  <1>6. CASE StateSet("Established") \/ StateSet("CloseWait")
    BY <1>1, <1>4, <1>5, <1>6 DEF StateSet, SameSlot
  <1>. QED  BY <1>1, <1>4, <1>6

\* A listener becomes the connection of its caller.
LEMMA ReceivesTaken ==
    ASSUME NetInv, AcceptInv, ReceiveInv, ChunkInv, [Next]_vars, Take, NEW h \in Handles
    PROVE  Receives(h)
  <1>0. NetTypes /\ OwnInv /\ WatchInv /\ cur \in Handles /\ RecvCap \in Nat
    BY ConstantsAssumption DEF NetInv, NetTypes
  <1>1. /\ spc = "take" /\ new \in Fds /\ fds[new] # None /\ chunk' = <<>> /\ new # None
        /\ TakenOver \/ slot' = slot
    BY <1>0, TakeEffect, OnToTheNext, ConstantsAssumption
  <1>2. ~Recv /\ ~Store
    BY <1>1 DEF Recv, Store
  <1>3. CASE slot'[h] = slot[h]
    BY <1>2, <1>3, ReceivesStill DEF KeepsIn
  <1>4. CASE TakenOver /\ h = cur
    <2>1. /\ slot'[h].sock = new /\ slot'[h].state = "Established" /\ slot'[h].conn = fds[new].id
          /\ slot'[h].recvBuf = slot[h].recvBuf /\ slot'[h].seen = slot[h].seen /\ fds' = fds
      BY <1>4 DEF TakenOver
    <2>2. /\ slot[h].state = "Listen" /\ fds[new].kind = "stream" /\ fds[new].got = 0
      BY <1>1, <1>4 DEF AcceptInv, TakenOver
    <2>3. slot[h].recvBuf = <<>> /\ slot[h].seen = 0
      BY <2>2 DEF ReceiveInv, InOrder
    <2>4. InHand(h)' = 0 /\ Len(slot'[h].recvBuf) = 0
      BY <1>1, <2>1, <2>3 DEF InHand
    <2>5. Gets(slot'[h], fds'[new], 0)
      BY <1>0, <2>1, <2>2, <2>3, <2>4 DEF Gets
    <2>6. InOrder(slot'[h])
      BY <2>1, <2>3, InOrderEmpty
    <2>. QED  BY <2>1, <2>4, <2>5, <2>6 DEF Receives
  <1>. QED  BY <1>1, <1>3, <1>4 DEF TakenOver

\* Bytes are received, ...
LEMMA ReceivesChunk ==
    ASSUME NetInv, ReceiveInv, ChunkInv, [Next]_vars, Recv, NEW h \in Handles
    PROVE  Receives(h)
  <1>0. NetTypes /\ OwnInv /\ WatchInv /\ cur \in Handles /\ NetTypes' /\ OwnInv'
    BY NetStep DEF NetInv, NetTypes
  <1>1. /\ spc = "recv" /\ sd \in Fds /\ fds[sd] # None /\ slot' = slot /\ sd # None /\ chunk = <<>>
        /\ fds[sd] \in HostSocket /\ RecvCap \in Nat
    BY <1>0, RecvEffect, OpenSocket, ConstantsAssumption DEF ChunkInv
  <1>2. InHand(h) = 0
    <2>1. Len(chunk) = 0
      BY <1>1
    <2>. QED  BY <2>1 DEF InHand
  <1>3. KeepsIn(h)
    BY <1>1 DEF KeepsIn
  <1>4. CASE fds' = fds /\ chunk' = <<>>
    <2>1. InHand(h)' = 0
      BY <1>4 DEF InHand
    <2>2. ASSUME slot'[h].sock # None PROVE SameGot(slot[h].sock)
      <3>1. slot[h].sock \in Fds /\ fds[slot[h].sock] \in HostSocket /\ fds[slot[h].sock] # None
        BY <1>0, <1>1, <2>2, OpenSocket DEF OwnInv, Open, Peer
      <3>2. fds[slot[h].sock].sent \in Nat
        BY <3>1 DEF HostSocket
      <3>. QED  BY <1>4, <3>1, <3>2 DEF SameGot, Onward
    <2>. QED  BY <1>2, <1>3, <2>1, <2>2, ReceivesOn
  <1>5. ASSUME NEW n \in Nat \ {0}, Received(n)
        PROVE  Receives(h)
    <2>1. /\ slot[cur].sock = sd /\ cur' = cur /\ sd' = sd /\ n <= fds[sd].sent - fds[sd].got
          /\ n <= Room /\ fds'[sd].got = fds[sd].got + n /\ fds'[sd].sent = fds[sd].sent
          /\ fds'[sd].id = fds[sd].id /\ fds'[sd].kind = fds[sd].kind
          /\ \A e \in Fds \ {sd} : fds'[e] = fds[e]
      BY <1>5 DEF Received, StillOurs
    <2>2. CASE h # cur
      <3>1. InHand(h)' = 0
        BY <2>1, <2>2 DEF InHand
      <3>2. ASSUME slot'[h].sock # None PROVE SameGot(slot[h].sock)
        <4>1. /\ slot[h].sock \in Fds \ {sd} /\ fds[slot[h].sock] \in HostSocket
              /\ fds[slot[h].sock] # None
          BY <1>0, <1>1, <2>1, <2>2, <3>2, OpenSocket DEF OwnInv, Open, Peer
        <4>2. fds[slot[h].sock].sent \in Nat
          BY <4>1 DEF HostSocket
        <4>. QED  BY <2>1, <4>1, <4>2 DEF SameGot, Onward
      <3>. QED  BY <1>2, <1>3, <3>1, <3>2, ReceivesOn
    <2>3. CASE h = cur
      <3>1. slot[h].sock = sd /\ Open(h) /\ Peer(h) = fds[sd] /\ slot[h] \in Slot
        BY <1>0, <1>1, <2>1, <2>3 DEF Open, Peer, NetTypes
      <3>2. Gets(slot[h], fds[sd], 0) /\ InOrder(slot[h])
        BY <1>2, <3>1 DEF ReceiveInv
      <3>3. InHand(h)' = n
        <4>1. PICK c \in Nat, g \in Nat : c = fds[sd].id /\ g = fds[sd].got
          BY <1>1 DEF HostSocket
        <4>2. Len(Bytes(c, g, n)) = n
          BY BytesLen
        <4>3. chunk' = Bytes(c, g, n)
          BY <1>5, <4>1 DEF Received
        <4>. QED  BY <1>1, <2>1, <2>3, <3>1, <4>2, <4>3 DEF InHand
      <3>4. PICK g \in Nat, m \in Nat, l \in Nat :
              g = fds[sd].got /\ m = slot[h].seen /\ l = Len(slot[h].recvBuf)
        BY <1>1, <3>1 DEF HostSocket, Slot
      <3>5. fds'[sd].got = m + l + n /\ l + n <= RecvCap
        <4>1. g = m + l + 0 /\ n <= RecvCap - l /\ fds'[sd].got = g + n
          BY <2>1, <2>3, <3>2, <3>4 DEF Gets, Room
        <4>. QED  BY <1>1, <4>1
      <3>6. slot[h].state # "CloseWait"
        <4>1. fds[sd].sent \in Nat /\ fds[sd].got \in Nat
          BY <1>1 DEF HostSocket
        <4>2. fds[sd].got # fds[sd].sent
          BY <2>1, <4>1
        <4>. QED  BY <3>2, <4>2 DEF Gets
      <3>7. Gets(slot'[h], fds'[sd], n)
        BY <1>1, <2>1, <3>2, <3>4, <3>5, <3>6 DEF Gets
      <3>. QED  BY <1>1, <3>1, <3>2, <3>3, <3>7 DEF Receives
    <2>. QED  BY <2>2, <2>3
  <1>6. NextToHandle \/ Goto("drop") \/ Goto("closeWait") => chunk' = <<>>
    BY <1>0, <1>1, OnToTheNext DEF Goto
  <1>. QED  BY <1>0, <1>4, <1>5, <1>6, RecvEffect

\* ... and stored.
LEMMA ReceivesStored ==
    ASSUME NetInv, StageInv, ReceiveInv, ChunkInv, [Next]_vars, Store, NEW h \in Handles
    PROVE  Receives(h)
  <1>0. NetTypes /\ OwnInv /\ WatchInv /\ cur \in Handles
    BY DEF NetInv, NetTypes
  <1>1. /\ spc = "store" /\ fds' = fds /\ chunk' = <<>> /\ sd # None /\ sd \in Fds /\ fds[sd] # None
        /\ \/ ~StillOurs /\ slot' = slot
           \/ /\ StillOurs /\ SameSlot(cur) /\ slot'[cur].state = slot[cur].state
              /\ slot'[cur].recvBuf = slot[cur].recvBuf \o chunk
    BY <1>0, StoreEffect, OnToTheNext DEF WatchInv, AtSocket, Handling, NetTypes
  <1>2. InHand(h)' = 0
    BY <1>1 DEF InHand
  <1>3. CASE h # cur \/ ~StillOurs
    <2>1. InHand(h) = 0 /\ KeepsIn(h)
      BY <1>1, <1>3 DEF InHand, StillOurs, KeepsIn, SameSlot
    <2>2. ASSUME slot'[h].sock # None PROVE SameGot(slot[h].sock)
      <3>1. slot[h].sock \in Fds /\ fds[slot[h].sock] \in HostSocket /\ fds[slot[h].sock] # None
        BY <1>0, <2>1, <2>2, OpenSocket DEF OwnInv, Open, Peer, KeepsIn
      <3>2. fds[slot[h].sock].sent \in Nat
        BY <3>1 DEF HostSocket
      <3>. QED  BY <1>1, <3>1, <3>2 DEF SameGot, Onward
    <2>. QED  BY <1>2, <2>1, <2>2, ReceivesOn
  <1>4. CASE h = cur /\ StillOurs
    <2>1. /\ slot[h].sock = sd /\ Open(h) /\ Peer(h) = fds[sd] /\ slot[h] \in Slot
          /\ slot'[h].sock = sd /\ Stored(slot[h], slot'[h], chunk) /\ InHand(h) = Len(chunk)
      BY <1>0, <1>1, <1>4 DEF StillOurs, Open, Peer, NetTypes, SameSlot, Stored, InHand
    <2>2. Gets(slot[h], fds[sd], Len(chunk)) /\ InOrder(slot[h])
      BY <2>1 DEF ReceiveInv
    <2>3. slot[h].state \in Streams
      BY <1>1, <1>4 DEF StageInv
    <2>4. /\ slot[h].conn \in Nat /\ slot[h].seen \in Nat /\ slot[h].recvBuf \in Seq(Byte)
          /\ chunk \in Seq(Byte)
      BY <1>0, <2>1 DEF Slot, NetTypes
    <2>5. PICK n \in Nat : Stretch(chunk, fds[sd].id, n) /\ fds[sd].got = n + Len(chunk)
      BY <1>1 DEF ChunkInv
    <2>6. PICK m \in Nat, l \in Nat, k \in Nat :
            m = slot[h].seen /\ l = Len(slot[h].recvBuf) /\ k = Len(chunk)
      BY <2>4
    <2>7. n = m + l /\ fds[sd].got = m + (l + k) /\ l + k <= RecvCap /\ slot[h].conn = fds[sd].id
      <3>1. n + k = m + l + k /\ fds[sd].got = n + k /\ l + k <= RecvCap
        BY <2>2, <2>5, <2>6 DEF Gets
      <3>2. slot[h].conn = fds[sd].id
        BY <2>2 DEF Gets
      <3>. QED  BY <3>1, <3>2
    <2>8. Stretch(chunk, slot[h].conn, slot[h].seen + Len(slot[h].recvBuf))
      BY <2>5, <2>6, <2>7
    <2>9. InOrder(slot'[h]) /\ Len(slot'[h].recvBuf) = l + k
      <3>1. slot[h].state \notin {"Listen", "SynSent"}
        BY <2>3 DEF Streams
      <3>. QED  BY <2>1, <2>2, <2>4, <2>6, <2>8, <3>1, InOrderStored
    <2>10. fds[sd].got = slot'[h].seen + Len(slot'[h].recvBuf) + 0 /\ Len(slot'[h].recvBuf) + 0 <= RecvCap
      <3>1. slot'[h].seen = m
        BY <2>1, <2>6 DEF Stored
      <3>. QED  BY <2>7, <2>9, <3>1
    <2>11. Gets(slot'[h], fds'[sd], 0)
      BY <1>1, <2>1, <2>2, <2>10 DEF Gets, Stored
    <2>. QED  BY <1>2, <2>1, <2>9, <2>11 DEF Receives
  <1>. QED  BY <1>3, <1>4

LEMMA ReceiveKept ==
    ASSUME NetInv, AcceptInv, StageInv, ReceiveInv, ChunkInv, [Next]_vars
    PROVE  ReceiveInv'
  <1>. SUFFICES ASSUME NEW h \in Handles PROVE Receives(h)
    BY DEF ReceiveInv, Receives, Open, Peer
  <1>0. NetTypes /\ OwnInv /\ WatchInv /\ cur \in Handles
    BY DEF NetInv, NetTypes
  <1>1. CASE Recv
    BY <1>1, ReceivesChunk
  <1>2. CASE Store
    BY <1>2, ReceivesStored
  <1>3. CASE Connected \/ PeerClosed
    BY <1>3, ReceivesStateSet
  <1>4. CASE Take
    BY <1>4, ReceivesTaken
  <1>5. CASE ~Recv /\ ~Store /\ ~Connected /\ ~PeerClosed /\ ~Take
    <2>0. KeepsIn(h) => Receives(h)
      BY <1>5, ReceivesStill
    <2>1. slot'[h] = slot[h] => Receives(h)
      BY <2>0 DEF KeepsIn
    <2>2. ASSUME NEW g \in Handles, NEW clear \in BOOLEAN, RequestClose(g, clear)
          PROVE  Receives(h)
      BY <1>0, <2>1, <2>2, ReceivesClosed, Requested
    <2>3. ASSUME NEW g \in Handles, NEW state \in DOMAIN KindOf, TcpOpen(g, state)
          PROVE  Receives(h)
      BY <1>0, <2>1, <2>3, ReceivesOpened, TcpOpenEffect
    <2>4. ASSUME NEW g \in Handles, NEW len \in 1..SendCap, TcpSend(g, len)
          PROVE  Receives(h)
      <3>1. CASE SentBy(g, len)
        <4>1. KeepsIn(h)
          BY <3>1 DEF SentBy, KeepsIn
        <4>. QED  BY <2>0, <4>1
      <3>. QED  BY <1>0, <2>2, <2>4, <3>1, TcpSendEffect
    <2>5. ASSUME NEW g \in Handles, NEW len \in 1..RecvCap, TcpRecv(g, len)
          PROVE  Receives(h)
      BY <1>0, <2>1, <2>5, ReceivesRead, TcpRecvEffect
    <2>6. CASE \/ UNCHANGED vars \/ Network \/ CloseHandedOver \/ Arm \/ Select \/ Handle \/ Accept
               \/ \E op \in {"close", "abort", "reset"}, S \in SUBSET Handles : ClosingCommand(op, S)
      BY <1>0, <2>1, <2>6, NetworkEffect, CloseHandedOverEffect, ArmEffect, SelectEffect,
         HandleEffect, AcceptEffect, ClosingCommandEffect DEF vars
    <2>7. CASE CloseSlot
      <3>1. PICK g \in Handles :
              \/ slot' = slot
              \/ \E clear \in BOOLEAN : RequestClose(g, clear)
              \/ HalfClosed(g)
        BY <1>0, <2>7, CloseSlotEffect
      <3>2. HalfClosed(g) => KeepsIn(h)
        BY DEF HalfClosed, KeepsIn, Streams
      <3>. QED  BY <2>0, <2>1, <2>2, <3>1, <3>2
    <2>8. ASSUME NEW g \in Handles, SameSlot(g), slot'[g].state = slot[g].state,
                 slot'[g].recvBuf = slot[g].recvBuf
          PROVE  Receives(h)
      <3>1. KeepsIn(h)
        BY <2>8 DEF SameSlot, KeepsIn
      <3>. QED  BY <2>0, <3>1
    <2>9. CASE ArmFin
      BY <1>0, <2>8, <2>9, ArmFinEffect
    <2>10. CASE Flush
      BY <1>0, <2>1, <2>8, <2>10, FlushEffect DEF Flushed
    <2>11. CASE ArmDrop \/ Drop
      BY <1>0, <2>2, <2>11, ArmDropEffect, DropEffect
    <2>12. CASE \E g \in Handles : TimePasses(g)
      BY <1>0, <2>8, <2>12, TimePassesEffect
    <2>. QED  BY <1>5, EachStep, <2>3, <2>4, <2>5, <2>6, <2>7, <2>9, <2>10, <2>11, <2>12
  <1>. QED  BY <1>1, <1>2, <1>3, <1>4, <1>5

LEMMA ReceiveInit ==
    ASSUME Init
    PROVE  StageInv /\ ReceiveInv /\ ChunkInv /\ ReadyInv
  <1>1. \A h \in Handles : InOrder(slot[h])
    BY InOrderEmpty DEF Init
  <1>. QED  BY <1>1 DEF Init, StageInv, ReceiveInv, ChunkInv, ReadyInv, Open, Handling

\* What the MSX reads on a handle is what the peer of its connection has sent,
\* all of it and in order, and it is told that the peer has closed only when it
\* has all (socketLoop(), cmdTcpRecv()), whatever the MSX does while the socket
\* thread is between a test and what it does about it.
THEOREM NothingIsTruncated == Spec => []ReceivedInOrder
  <1>. DEFINE Inv == NetInv /\ AcceptInv /\ StageInv /\ ReceiveInv /\ ChunkInv /\ ReadyInv
  <1>1. Init => Inv
    BY NetInit, SendInit, ReceiveInit
  <1>2. Inv /\ [Next]_vars => Inv'
    BY NetStep, AcceptKept, StageKept, ReceiveKept, ChunkKept, ReadyKept
  <1>3. Inv => ReceivedInOrder
    <2>1. SUFFICES ASSUME ReceiveInv, NEW h \in Handles
                   PROVE  LET s == slot[h]
                              f == fds[s.sock]
                              inHand == IF cur = h /\ sd = s.sock THEN Len(chunk) ELSE 0
                          IN  /\ s.recvBuf = Bytes(s.conn, s.seen, Len(s.recvBuf))
                              /\ s.sock # None => f.got = s.seen + Len(s.recvBuf) + inHand
                              /\ s.sock # None /\ s.state = "CloseWait" /\ ~f.reset => f.got = f.sent
      BY DEF ReceivedInOrder
    <2>2. slot[h].recvBuf = Bytes(slot[h].conn, slot[h].seen, Len(slot[h].recvBuf))
      BY <2>1 DEF ReceiveInv, InOrder, Stretch
    <2>3. slot[h].sock # None => Gets(slot[h], fds[slot[h].sock], InHand(h))
      BY <2>1 DEF ReceiveInv, Open, Peer
    <2>. QED  BY <2>2, <2>3 DEF Gets, InHand
  <1>. HIDE DEF Inv
  <1>. QED  BY <1>1, <1>2, <1>3, PTL DEF Spec

==============================================================================
