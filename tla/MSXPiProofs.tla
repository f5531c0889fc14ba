---------------------------- MODULE MSXPiProofs ----------------------------
(* For any number of ports, connections and frames: the MSXPi device is      *)
(* connected to the port of the setting, READY never shows an open run, what *)
(* the device answers on a connection was offered on that connection, and no *)
(* offer is answered after the cancel that withdrew it was acknowledged.     *)
EXTENDS MSXPiDevice, FiniteSetTheorems, TLAPS

LOCAL ST == INSTANCE SequenceTheorems

AnyFrame == [conn : Nat, n : Nat, op : Ops]
Connection == [id : Nat, port : Ports, open : BOOLEAN, sent : Seq(AnyFrame), got : Nat,
               toServer : Seq([op : Ops, of : AnyFrame])]

PiTypes ==
    /\ offers \in Seq(AnyFrame)
    /\ pendingHold \in Seq(AnyFrame)
    /\ buf \in Seq(AnyFrame)
    /\ sock \in Connection \cup {None}
    /\ epoch \in Nat
    /\ activePort \in Ports

LEMMA InitPiTypes == Init => PiTypes
  BY DEF Init, PiTypes

\* sendFrame() changes nothing but what the server has been sent.
LEMMA SendTypes ==
    ASSUME PiTypes, NEW op \in Ops, NEW f \in AnyFrame, SendFrame(op, f)
    PROVE  /\ sock' \in Connection \cup {None}
           /\ sock = None => sock' = None
           /\ sock # None =>
                 /\ sock' \in Connection
                 /\ sock'.id = sock.id /\ sock'.port = sock.port
                 /\ sock'.sent = sock.sent /\ sock'.got = sock.got
                 /\ sock'.toServer = Append(sock.toServer, [op |-> op, of |-> f])
  <1>1. CASE sock = None
    BY <1>1 DEF SendFrame
  <1>2. CASE sock # None
    <2>1. sock \in Connection
      BY <1>2 DEF PiTypes
    <2>2. sock' = [sock EXCEPT !.toServer = Append(@, [op |-> op, of |-> f])]
      BY <1>2 DEF SendFrame
    <2>3. Append(sock.toServer, [op |-> op, of |-> f]) \in Seq([op : Ops, of : AnyFrame])
      BY <2>1 DEF Connection
    <2>. QED  BY <1>2, <2>1, <2>2, <2>3 DEF Connection
  <1>. QED  BY <1>1, <1>2

\* An action that leaves what PiTypes speaks about.
LEMMA SameTypes == PiTypes /\ UNCHANGED <<shared, buf, pendingHold>> => PiTypes'
  BY DEF PiTypes, shared

\* The elements of a queue after its first one is taken.
LEMMA HeadTail ==
    ASSUME NEW S, NEW s \in Seq(S), s # <<>>
    PROVE  /\ Len(s) \in Nat \ {0} /\ Head(s) = s[1] /\ Head(s) \in S
           /\ Tail(s) \in Seq(S) /\ DOMAIN Tail(s) = 1..(Len(s) - 1)
           /\ \A i \in DOMAIN Tail(s) : Tail(s)[i] = s[i + 1]
  OBVIOUS

LEMMA OfferEffect ==
    ASSUME PiTypes, buf # <<>>, Offer
    PROVE  /\ offers' \in Seq(AnyFrame)
           /\ Len(offers') = Len(offers) + Len(pendingHold) + 1
           /\ \A i \in 1..Len(offers) : offers'[i] = offers[i]
           /\ \A i \in 1..Len(pendingHold) : offers'[Len(offers) + i] = pendingHold[i]
           /\ offers'[Len(offers) + Len(pendingHold) + 1] = Head(buf)
  <1> DEFINE h == <<Head(buf)>>
             c == offers \o pendingHold
  <1>1. h \in Seq(AnyFrame) /\ Len(h) = 1 /\ h[1] = Head(buf)
    BY HeadTail DEF PiTypes
  <1>2. offers \in Seq(AnyFrame) /\ pendingHold \in Seq(AnyFrame)
    BY DEF PiTypes
  <1>3. /\ c \in Seq(AnyFrame) /\ Len(c) = Len(offers) + Len(pendingHold)
        /\ \A i \in 1..(Len(offers) + Len(pendingHold)) :
              c[i] = IF i <= Len(offers) THEN offers[i] ELSE pendingHold[i - Len(offers)]
    BY <1>2, ST!ConcatProperties
  <1> HIDE DEF h, c
  <1>4. /\ c \o h \in Seq(AnyFrame) /\ Len(c \o h) = Len(c) + Len(h)
        /\ \A i \in 1..(Len(c) + Len(h)) : (c \o h)[i] = IF i <= Len(c) THEN c[i] ELSE h[i - Len(c)]
    <2>1. c \in Seq(AnyFrame) /\ h \in Seq(AnyFrame)
      BY <1>1, <1>3
    <2>. QED  BY <2>1, ST!ConcatProperties, ZenonT(30)
  <1>5. offers' = c \o h
    BY DEF Offer, c, h
  <1>6. Len(offers) \in Nat /\ Len(pendingHold) \in Nat
    BY <1>2
  <1>. QED  BY <1>1, <1>3, <1>4, <1>5, <1>6

\* The elements of a sequence after the first k.
LEMMA RestOfSeq ==
    ASSUME NEW S, NEW s \in Seq(S), NEW k \in Nat, k < Len(s)
    PROVE  LET t == SubSeq(s, k + 1, Len(s))
           IN  /\ t \in Seq(S) /\ Len(t) = Len(s) - k
               /\ \A i \in 1..(Len(s) - k) : t[i] = s[k + i]
  OBVIOUS

LEMMA RecvEffect ==
    ASSUME PiTypes, Recv, HasData
    PROVE  /\ sock # None /\ sock \in Connection /\ sock' \in Connection
           /\ sock'.id = sock.id /\ sock'.port = sock.port
           /\ sock'.sent = sock.sent /\ sock'.toServer = sock.toServer
           /\ sock.got <= Len(sock.sent) /\ sock'.got = Len(sock.sent)
           /\ buf' \in Seq(AnyFrame) /\ Len(buf') = Len(sock.sent) - sock.got
           /\ \A i \in 1..Len(buf') : buf'[i] = sock.sent[sock.got + i]
  <1>1. sock # None /\ sock \in Connection /\ sock.got < Len(sock.sent)
    BY DEF HasData, PiTypes
  <1>2. sock.sent \in Seq(AnyFrame) /\ Len(sock.sent) \in Nat /\ sock.got \in Nat
    BY <1>1 DEF Connection
  <1>3. buf' = SubSeq(sock.sent, sock.got + 1, Len(sock.sent))
    BY DEF Recv
  <1>5. /\ buf' \in Seq(AnyFrame)
        /\ Len(buf') = Len(sock.sent) - sock.got
        /\ \A i \in 1..(Len(sock.sent) - sock.got) : buf'[i] = sock.sent[sock.got + i]
    BY <1>1, <1>2, <1>3, RestOfSeq
  <1>6. sock' = [sock EXCEPT !.got = Len(sock.sent)]
    BY DEF Recv
  <1>7. /\ sock' \in Connection /\ sock'.got = Len(sock.sent)
        /\ sock'.id = sock.id /\ sock'.port = sock.port
        /\ sock'.sent = sock.sent /\ sock'.toServer = sock.toServer
    BY <1>1, <1>2, <1>6 DEF Connection
  <1>. QED  BY <1>1, <1>2, <1>5, <1>7

\* The server ends the connection, or one more frame comes from it.
LEMMA ServerEffect ==
    ASSUME PiTypes, Server
    PROVE  /\ sock # None /\ sock \in Connection /\ sock' \in Connection
           /\ sock'.id = sock.id /\ sock'.port = sock.port
           /\ sock'.got = sock.got /\ sock'.toServer = sock.toServer
           /\ \/ sock'.sent = sock.sent
              \/ \E f \in AnyFrame : /\ f.conn = sock.id /\ f.n = Len(sock.sent) + 1
                                     /\ sock'.sent = Append(sock.sent, f)
  <1>1. sock # None /\ sock \in Connection
    BY DEF Server, ServerSend, ServerClose, PiTypes
  <1>2. CASE ServerSend
    <2>1. PICK op \in Ops :
            sock' = [sock EXCEPT !.sent = Append(@, [conn |-> sock.id, n |-> Len(@) + 1, op |-> op])]
      BY <1>2 DEF ServerSend
    <2> DEFINE f == [conn |-> sock.id, n |-> Len(sock.sent) + 1, op |-> op]
    <2>2. f \in AnyFrame /\ f.conn = sock.id /\ f.n = Len(sock.sent) + 1
      BY <1>1 DEF Connection, AnyFrame
    <2>3. sock' = [sock EXCEPT !.sent = Append(sock.sent, f)]
      BY <2>1
    <2> HIDE DEF f
    <2>4. Append(sock.sent, f) \in Seq(AnyFrame)
      BY <1>1, <2>2 DEF Connection
    <2>5. /\ sock' \in Connection /\ sock'.sent = Append(sock.sent, f)
          /\ sock'.id = sock.id /\ sock'.port = sock.port
          /\ sock'.got = sock.got /\ sock'.toServer = sock.toServer
      BY <1>1, <2>3, <2>4 DEF Connection
    <2>. QED  BY <1>1, <2>2, <2>5
  <1>3. CASE ServerClose
    BY <1>1, <1>3 DEF ServerClose, Connection
  <1>. QED  BY <1>2, <1>3 DEF Server

\* The first frame of the buffer is taken out and handled.
LEMMA HandleNext ==
    ASSUME Handle, buf # <<>>
    PROVE  buf' = Tail(buf) /\ rpc' = rpc /\ HandleFrame
  BY Zenon DEF Handle

LEMMA HandleTypes == PiTypes /\ Handle => PiTypes'
  <1> SUFFICES ASSUME PiTypes, Handle PROVE PiTypes'
    OBVIOUS
  <1>1. UNCHANGED <<epoch, activePort>>
    BY DEF Handle, ReaderOnly
  <1>2. CASE buf = <<>>
    BY <1>1, <1>2 DEF Handle, PiTypes
  <1>3. CASE buf # <<>>
    <2>1. buf' \in Seq(AnyFrame) /\ Head(buf) \in AnyFrame
      BY <1>3, HandleNext, HeadTail DEF PiTypes
    <2>2. HandleFrame
      BY <1>3, HandleNext
    <2>3. CASE Greet
      <3>1. sock' \in Connection \cup {None}
        BY <2>1, <2>3, SendTypes DEF Greet, Ops, PiTypes
      <3>. QED  BY <1>1, <2>1, <2>3, <3>1 DEF Greet, PiTypes
    <2>4. CASE Hold
      BY <1>1, <2>1, <2>4 DEF Hold, PiTypes
    <2>5. CASE Offer
      BY <1>1, <1>3, <2>1, <2>5, OfferEffect DEF Offer, PiTypes
    <2>6. CASE Cancel
      <3>1. sock' \in Connection \cup {None}
        BY <2>1, <2>6, SendTypes DEF Cancel, Ops
      <3>. QED  BY <1>1, <2>1, <2>6, <3>1 DEF Cancel, PiTypes
    <2>7. CASE IgnoreFrame
      BY <1>1, <2>1, <2>7 DEF IgnoreFrame, PiTypes
    <2>. QED  BY <2>2, <2>3, <2>4, <2>5, <2>6, <2>7 DEF HandleFrame
  <1>. QED  BY <1>2, <1>3

LEMMA RecvTypes == PiTypes /\ Recv => PiTypes'
  <1> SUFFICES ASSUME PiTypes, Recv PROVE PiTypes'
    OBVIOUS
  <1>1. CASE HasData
    BY <1>1, RecvEffect DEF Recv, ReaderOnly, PiTypes
  <1>2. CASE ~HasData
    BY <1>2 DEF Recv, ReaderOnly, PiTypes
  <1>. QED  BY <1>1, <1>2

LEMMA ServerTypes == PiTypes /\ Server => PiTypes'
  <1> SUFFICES ASSUME PiTypes, Server PROVE PiTypes'
    OBVIOUS
  <1>1. UNCHANGED <<offers, pendingHold, buf, epoch, activePort>>
    BY DEF Server, ServerSend, ServerClose, readerVars
  <1>. QED  BY <1>1, ServerEffect DEF PiTypes

LEMMA StepPiTypes == PiTypes /\ [Next]_vars => PiTypes'
  <1> SUFFICES ASSUME PiTypes, [Next]_vars PROVE PiTypes'
    OBVIOUS
  <1>1. CASE Emulation
    <2>1. ASSUME NEW a \in Accesses, Access(a) PROVE PiTypes'
      BY <2>1, SameTypes DEF Access, readerVars
    <2>2. CASE Bind
      <3>1. CASE offers = <<>>
        BY <2>2, <3>1, SameTypes DEF Bind, shared, readerVars
      <3>2. CASE offers # <<>>
        <4>1. Head(offers) \in AnyFrame /\ Tail(offers) \in Seq(AnyFrame)
          BY <3>2 DEF PiTypes
        <4>2. sock' \in Connection \cup {None}
          BY <2>2, <3>2, <4>1, SendTypes DEF Bind, Ops
        <4>. QED  BY <2>2, <3>2, <4>1, <4>2 DEF Bind, readerVars, PiTypes
      <3>. QED  BY <3>1, <3>2
    <2>3. CASE TryBind \/ Port \/ Stall \/ InterfaceReset \/ SetWaitMode
      BY <2>3, SameTypes DEF TryBind, Port, Stall, InterfaceReset, SetWaitMode, readerVars
    <2>4. CASE ChangePort \/ PortChanged
      BY <2>4 DEF ChangePort, PortChanged, readerVars, PiTypes
    <2>. QED  BY <1>1, <2>1, <2>2, <2>3, <2>4 DEF Emulation
  <1>2. CASE ReadLoop
    <2>1. CASE Loop \/ Connect \/ Poll
      BY <2>1 DEF Loop, Connect, Poll, ReaderOnly, PiTypes
    <2>2. CASE Adopt
      <3>1. arg = activePort => NewConnection \in Connection
        BY DEF NewConnection, Connection, PiTypes
      <3>. QED  BY <2>2, <3>1 DEF Adopt, ReaderOnly, PiTypes
    <2>3. CASE Probe
      BY <2>3 DEF Probe, ReaderOnly, PiTypes
    <2>. QED  BY <1>2, <2>1, <2>2, <2>3, HandleTypes, RecvTypes DEF ReadLoop
  <1>3. CASE UNCHANGED vars
    BY <1>3, SameTypes DEF vars, readerVars
  <1>. QED  BY <1>1, <1>2, <1>3, ServerTypes DEF Next

---------------------------------------------------------------------------
\* What the emulation thread and the reader do to the connection.

\* Binding the next offer sends its reply, unless the offers are gone.
LEMMA BindEffect ==
    ASSUME PiTypes, Bind, offers # <<>>
    PROVE  /\ Head(offers) \in AnyFrame /\ offers' = Tail(offers)
           /\ SendFrame("offer", Head(offers)) /\ "offer" \in Ops
  BY HeadTail DEF Bind, PiTypes, Ops

\* Handling a frame only ever adds to what the server is sent.
LEMMA HandleSock ==
    ASSUME PiTypes, Handle
    PROVE  \/ sock' = sock
           \/ \E op \in {"hello", "cancel"} :
                 buf # <<>> /\ Head(buf) \in AnyFrame /\ SendFrame(op, Head(buf))
  <1>1. CASE buf = <<>>
    BY <1>1 DEF Handle
  <1>2. CASE buf # <<>>
    <2>1. Head(buf) \in AnyFrame
      BY <1>2, HeadTail DEF PiTypes
    <2>2. HandleFrame
      BY <1>2, HandleNext
    <2>. QED  BY <1>2, <2>1, <2>2 DEF HandleFrame, Greet, Hold, Offer, Cancel, IgnoreFrame
  <1>. QED  BY <1>1, <1>2

LEMMA PortInit == Init => PortIsCurrent
  BY DEF Init, PortIsCurrent

LEMMA PortStep == PiTypes /\ PortIsCurrent /\ [Next]_vars => PortIsCurrent'
  <1> SUFFICES ASSUME PiTypes, PortIsCurrent, [Next]_vars PROVE PortIsCurrent'
    OBVIOUS
  <1> USE DEF PortIsCurrent
  \* A reply or an acknowledgement leaves the connection where it goes.
  <1>1. ASSUME NEW op \in Ops, NEW f \in AnyFrame, SendFrame(op, f), activePort' = activePort,
               epc = "close" => epc' = "close"
        PROVE  PortIsCurrent'
    BY <1>1, SendTypes
  <1>2. CASE Emulation
    <2>1. ASSUME NEW a \in Accesses, Access(a) PROVE PortIsCurrent'
      BY <2>1 DEF Access, shared
    <2>2. CASE Bind
      <3>1. CASE offers = <<>>
        BY <2>2, <3>1 DEF Bind
      <3>2. CASE offers # <<>>
        BY <1>1, <2>2, <3>2, BindEffect DEF Bind
      <3>. QED  BY <3>1, <3>2
    <2>3. CASE TryBind \/ Port \/ Stall \/ InterfaceReset \/ SetWaitMode
      BY <2>3 DEF TryBind, Port, Stall, InterfaceReset, SetWaitMode, shared
    <2>4. CASE ChangePort \/ PortChanged
      BY <2>4 DEF ChangePort, PortChanged
    <2>. QED  BY <1>2, <2>1, <2>2, <2>3, <2>4 DEF Emulation
  <1>3. CASE ReadLoop
    <2>0. UNCHANGED <<activePort, epc>>
      BY <1>3 DEF ReadLoop, Loop, Connect, Adopt, Probe, Poll, Recv, Handle, ReaderOnly, emuVars
    <2>1. CASE Loop \/ Connect \/ Poll \/ Probe
      <3>1. sock' = sock
        BY <2>1 DEF Loop, Connect, Poll, Probe
      <3>. QED  BY <2>0, <3>1
    <2>2. CASE Adopt
      BY <2>0, <2>2 DEF Adopt, NewConnection
    <2>3. CASE Recv
      BY <2>0, <2>3, RecvEffect DEF Recv
    <2>4. CASE Handle
      <3>1. {"hello", "cancel"} \subseteq Ops
        BY DEF Ops
      <3>2. CASE sock' = sock
        BY <2>0, <3>2
      <3>3. CASE sock' # sock
        <4>1. PICK op \in Ops : Head(buf) \in AnyFrame /\ SendFrame(op, Head(buf))
          BY <2>4, <3>1, <3>3, HandleSock
        <4>. QED  BY <1>1, <2>0, <4>1
      <3>. QED  BY <3>2, <3>3
    <2>. QED  BY <1>3, <2>1, <2>2, <2>3, <2>4 DEF ReadLoop
  <1>4. CASE Server
    <2>1. UNCHANGED <<activePort, epc>>
      BY <1>4 DEF Server, ServerSend, ServerClose, emuVars
    <2>. QED  BY <1>4, <2>1, ServerEffect
  <1>5. CASE UNCHANGED vars
    BY <1>5 DEF vars, shared, emuVars
  <1>. QED  BY <1>2, <1>3, <1>4, <1>5 DEF Next

\* Whenever the user changes the port setting, and wherever the reader thread
\* is then: once the change is done, a connection is one to the new port.
THEOREM ConnectedToCurrentPort == Spec => []PortIsCurrent
  <1>1. Spec => []PiTypes
    BY InitPiTypes, StepPiTypes, PTL DEF Spec
  <1>. QED  BY <1>1, PortInit, PortStep, PTL DEF Spec

---------------------------------------------------------------------------
LEMMA RunsStep == PiTypes /\ RunsAreClosed /\ [Next]_vars => RunsAreClosed'
  <1> SUFFICES ASSUME PiTypes, RunsAreClosed, [Next]_vars PROVE RunsAreClosed'
    OBVIOUS
  <1> USE DEF RunsAreClosed, Last
  <1>1. CASE UNCHANGED offers \/ offers' = <<>>
    BY <1>1
  <1>2. CASE Bind
    <2>1. CASE offers = <<>>
      BY <1>1, <1>2, <2>1 DEF Bind
    <2>2. CASE offers # <<>>
      <3>1. offers' = Tail(offers) /\ offers \in Seq(AnyFrame)
        BY <1>2, <2>2, BindEffect DEF PiTypes
      <3>2. offers' # <<>> => offers'[Len(offers')] = offers[Len(offers)]
        BY <2>2, <3>1, HeadTail
      <3>. QED  BY <2>2, <3>2
    <2>. QED  BY <2>1, <2>2
  <1>3. CASE Handle
    <2>1. CASE buf = <<>>
      BY <1>1, <1>3, <2>1 DEF Handle
    <2>2. CASE buf # <<>>
      <3>1. HandleFrame
        BY <1>3, <2>2, HandleNext
      <3>2. CASE Offer /\ Head(buf).op = "offer"
        <4>1. Len(offers') = Len(offers) + Len(pendingHold) + 1
          BY <2>2, <3>2, OfferEffect
        <4>2. offers'[Len(offers')] = Head(buf)
          BY <2>2, <3>2, <4>1, OfferEffect
        <4>. QED  BY <3>2, <4>2
      <3>3. CASE Greet \/ Hold \/ Cancel \/ IgnoreFrame
        BY <1>1, <3>3 DEF Greet, Hold, Cancel, IgnoreFrame
      <3>. QED  BY <3>1, <3>2, <3>3 DEF HandleFrame
    <2>. QED  BY <2>1, <2>2
  <1>4. Bind \/ Handle \/ UNCHANGED offers \/ offers' = <<>>
    <2>1. CASE Emulation
      BY <2>1 DEF Emulation, Access, TryBind, Port, Stall, InterfaceReset, SetWaitMode,
         ChangePort, PortChanged, shared
    <2>2. CASE ReadLoop
      BY <2>2 DEF ReadLoop, Loop, Connect, Adopt, Probe, Poll, Recv
    <2>3. CASE Server
      BY <2>3 DEF Server, ServerSend, ServerClose
    <2>4. CASE UNCHANGED vars
      BY <2>4 DEF vars, shared
    <2>. QED  BY <2>1, <2>2, <2>3, <2>4 DEF Next
  <1>. QED  BY <1>1, <1>2, <1>3, <1>4

\* Whatever the server sends, and in whatever order: the MSX program never sees
\* an offer of a run whose closing offer has not come.
THEOREM NoOpenRunIsVisible == Spec => []RunsAreClosed
  <1>1. Spec => []PiTypes
    BY InitPiTypes, StepPiTypes, PTL DEF Spec
  <1>2. Init => RunsAreClosed
    BY DEF Init, RunsAreClosed
  <1>. QED  BY <1>1, <1>2, RunsStep, PTL DEF Spec

---------------------------------------------------------------------------
Rising(s)   == \A i, j \in 1..Len(s) : i < j => s[i].n < s[j].n
Under(s, t) == \A i \in 1..Len(s), j \in 1..Len(t) : s[i].n < t[j].n

\* The frames of s came over the connection of now.
Here(s) == \A i \in 1..Len(s) : s[i].conn = sock.id /\ s[i].n <= sock.got

\* What was sent in position p is the reply to an offer.
Reply(p) == p \in 1..Len(sock.toServer) /\ sock.toServer[p].op = "offer"

\* The frames of s are newer than all that was replied to.
Unanswered(s) == \A p \in 1..Len(sock.toServer), i \in 1..Len(s) :
                    Reply(p) => sock.toServer[p].of.n < s[i].n

\* The frames of a connection are numbered as the server sends them, the buffer
\* is in use while it is handled, and nothing is sent before the probe.
Received ==
    /\ rpc # "handle" => buf = <<>>
    /\ sock # None =>
          /\ sock.got <= Len(sock.sent)
          /\ \A i \in 1..Len(sock.sent) : sock.sent[i].n = i /\ sock.sent[i].conn = sock.id
          /\ rpc = "probe" => sock.toServer = <<>>

\* Replies, visible offers, held offers and the buffer: in this order they are
\* frames of the connection, from older to newer.
Outstanding ==
    /\ Here(offers) /\ Here(pendingHold) /\ Here(buf)
    /\ Rising(offers) /\ Rising(pendingHold) /\ Rising(buf)
    /\ Under(offers, pendingHold) /\ Under(offers, buf) /\ Under(pendingHold, buf)
    /\ Unanswered(offers) /\ Unanswered(pendingHold) /\ Unanswered(buf)

Replied ==
    /\ \A p \in 1..Len(sock.toServer) : Reply(p) =>
          sock.toServer[p].of.conn = sock.id /\ sock.toServer[p].of.n <= sock.got
    /\ \A p, q \in 1..Len(sock.toServer) :
          Reply(p) /\ Reply(q) /\ p < q => sock.toServer[p].of.n < sock.toServer[q].of.n

\* The greeting comes before anything else.
Greeted ==
    /\ sock.toServer # <<>> => sock.toServer[1].op = "hello"
    /\ link = "FRAMED" \/ offers # <<>> => sock.toServer # <<>>

AnswerInv ==
    /\ Received
    /\ sock # None /\ rpc # "probe" => Outstanding /\ Replied /\ Greeted

Buffers == <<offers, pendingHold, buf>>

LEMMA InitAnswers == Init => AnswerInv
  BY DEF Init, AnswerInv, Received

\* The answers do not depend on where the emulation is, nor on where the reader
\* is with an empty buffer.
LEMMA SameAnswers ==
    ASSUME AnswerInv, UNCHANGED <<Buffers, sock, link>>,
           rpc' = rpc \/ (rpc # "probe" /\ rpc' # "probe" /\ buf = <<>>)
    PROVE  AnswerInv'
  <1>1. Received'
    BY DEF AnswerInv, Received, Buffers
  <1>2. Outstanding => Outstanding'
    BY DEF Outstanding, Buffers, Here, Rising, Under, Unanswered, Reply
  <1>3. (Replied => Replied') /\ (Greeted => Greeted')
    BY DEF Replied, Greeted, Buffers, Reply
  <1>. QED  BY <1>1, <1>2, <1>3 DEF AnswerInv

LEMMA FrameNumbers ==
    ASSUME NEW s \in Seq(AnyFrame), NEW i \in 1..Len(s)
    PROVE  s[i].n \in Nat
  <1>1. s[i] \in AnyFrame
    OBVIOUS
  <1>. QED  BY <1>1 DEF AnyFrame

LEMMA ReplyNumbers ==
    ASSUME sock \in Connection, NEW p \in 1..Len(sock.toServer)
    PROVE  sock.toServer[p].of.n \in Nat
  <1>1. sock.toServer \in Seq([op : Ops, of : AnyFrame])
    BY DEF Connection
  <1>2. sock.toServer[p] \in [op : Ops, of : AnyFrame]
    BY <1>1, ST!ElementOfSeq
  <1>3. sock.toServer[p].of \in AnyFrame
    BY <1>2
  <1>. QED  BY <1>3 DEF AnyFrame

\* A frame that is sent comes last on the wire.
LEMMA WireGrows ==
    ASSUME PiTypes, sock # None, NEW op \in Ops, NEW f \in AnyFrame, SendFrame(op, f)
    PROVE  /\ sock'.id = sock.id /\ sock'.sent = sock.sent /\ sock'.got = sock.got
           /\ Len(sock.toServer) \in Nat
           /\ Len(sock'.toServer) = Len(sock.toServer) + 1
           /\ \A p \in 1..Len(sock.toServer) : sock'.toServer[p] = sock.toServer[p]
           /\ sock'.toServer[Len(sock.toServer) + 1] = [op |-> op, of |-> f]
           /\ sock'.toServer # <<>>
  <1>1. sock.toServer \in Seq([op : Ops, of : AnyFrame])
    BY DEF PiTypes, Connection
  <1>2. [op |-> op, of |-> f] \in [op : Ops, of : AnyFrame]
    OBVIOUS
  <1>3. sock'.toServer = Append(sock.toServer, [op |-> op, of |-> f])
    BY SendTypes
  <1>4. /\ Len(sock'.toServer) = Len(sock.toServer) + 1 /\ Len(sock.toServer) \in Nat
        /\ \A p \in 1..Len(sock.toServer) : sock'.toServer[p] = sock.toServer[p]
        /\ sock'.toServer[Len(sock.toServer) + 1] = [op |-> op, of |-> f]
    BY <1>1, <1>2, <1>3
  <1>5. sock'.toServer # <<>>
    BY <1>4
  <1>. QED  BY <1>4, <1>5, SendTypes

\* Nothing else about the connection changes, and what is first stays first.
LEMMA WireKept ==
    ASSUME PiTypes, sock # None, NEW op \in Ops, NEW f \in AnyFrame, SendFrame(op, f)
    PROVE  /\ sock'.id = sock.id /\ sock'.sent = sock.sent /\ sock'.got = sock.got
           /\ sock'.toServer # <<>>
           /\ sock.toServer # <<>> => sock'.toServer[1] = sock.toServer[1]
  <1>1. sock.toServer # <<>> => 1 \in 1..Len(sock.toServer)
    BY DEF PiTypes, Connection
  <1>. QED  BY <1>1, WireGrows

\* The replies on the wire are those of before, and the frame if it is one.
LEMMA RepliesGrow ==
    ASSUME PiTypes, sock # None, NEW op \in Ops, NEW f \in AnyFrame, SendFrame(op, f)
    PROVE  /\ \A p : Reply(p)' => Reply(p) \/ (op = "offer" /\ p = Len(sock.toServer) + 1)
           /\ \A p : Reply(p) => /\ sock'.toServer[p] = sock.toServer[p]
                                /\ p \in 1..Len(sock.toServer) /\ Len(sock.toServer) \in Nat
           /\ sock'.toServer[Len(sock.toServer) + 1].of = f
  <1> DEFINE g == [op |-> op, of |-> f]
  <1>1. g.op = op /\ g.of = f
    OBVIOUS
  <1>2. /\ Len(sock.toServer) \in Nat
        /\ Len(sock'.toServer) = Len(sock.toServer) + 1
        /\ \A p \in 1..Len(sock.toServer) : sock'.toServer[p] = sock.toServer[p]
        /\ sock'.toServer[Len(sock.toServer) + 1] = g
    BY WireGrows
  <1> HIDE DEF g
  <1>3. ASSUME NEW p, Reply(p)'
        PROVE  Reply(p) \/ (op = "offer" /\ p = Len(sock.toServer) + 1)
    <2>1. p \in 1..Len(sock.toServer) \/ p = Len(sock.toServer) + 1
      BY <1>2, <1>3 DEF Reply
    <2>. QED  BY <1>1, <1>2, <1>3, <2>1 DEF Reply
  <1>. QED  BY <1>1, <1>2, <1>3 DEF Reply

LEMMA BindAnswers ==
    ASSUME ~BindAcross, PiTypes, AnswerInv, Bind
    PROVE  AnswerInv'
  <1>1. rpc # "probe" /\ UNCHANGED <<link, rpc, buf, pendingHold>>
    BY DEF Bind, readerVars
  <1>2. CASE offers = <<>>
    BY <1>1, <1>2, SameAnswers DEF Bind, Buffers
  <1>3. CASE offers # <<>> /\ sock = None
    <2>1. sock' = None
      BY <1>3, BindEffect, SendTypes
    <2>. QED  BY <1>1, <2>1 DEF AnswerInv, Received
  <1>4. CASE offers # <<>> /\ sock # None
    <2> DEFINE f == Head(offers)
    <2>1. Outstanding /\ Replied /\ Greeted /\ Received
      BY <1>1, <1>4 DEF AnswerInv
    <2>2. /\ Len(offers) \in Nat \ {0} /\ f = offers[1] /\ Len(offers') = Len(offers) - 1
          /\ \A i \in 1..Len(offers') : offers'[i] = offers[i + 1]
      <3>1. offers \in Seq(AnyFrame) /\ offers' = Tail(offers)
        BY <1>4, BindEffect DEF PiTypes
      <3>. QED  BY <1>4, <3>1
    <2>3. /\ sock'.id = sock.id /\ sock'.sent = sock.sent /\ sock'.got = sock.got
          /\ sock'.toServer # <<>>
          /\ sock.toServer # <<>> => sock'.toServer[1] = sock.toServer[1]
      BY <1>4, BindEffect, WireKept
    <2> DEFINE next == Len(sock.toServer) + 1
    <2>a. /\ \A p : Reply(p)' => Reply(p) \/ p = next
          /\ \A p : Reply(p) => sock'.toServer[p] = sock.toServer[p] /\ p \in Nat /\ p < next
          /\ sock'.toServer[next].of = f /\ next \in Nat
      BY <1>4, BindEffect, RepliesGrow, WireGrows
    <2> HIDE DEF f, next
    <2>4. Received'
      BY <1>1, <1>4, <2>1, <2>3 DEF Received
    <2>5. f.conn = sock.id /\ f.n <= sock.got
      BY <2>1, <2>2 DEF Outstanding, Here
    <2>6. Replied'
      <3>1. \A p : Reply(p) => sock.toServer[p].of.n < f.n
        BY <2>1, <2>2 DEF Outstanding, Unanswered, Reply
      <3>2. ASSUME NEW p, Reply(p)'
            PROVE  sock'.toServer[p].of.conn = sock'.id /\ sock'.toServer[p].of.n <= sock'.got
        BY <2>1, <2>3, <2>5, <2>a, <3>2 DEF Replied, Reply
      <3>3. ASSUME NEW p, NEW q, Reply(p)', Reply(q)', p < q
            PROVE  sock'.toServer[p].of.n < sock'.toServer[q].of.n
        <4>1. CASE Reply(p) /\ Reply(q)
          BY <2>1, <2>a, <3>3, <4>1 DEF Replied, Reply
        <4>2. CASE Reply(p) /\ q = next
          BY <2>a, <3>1, <4>2
        <4>3. CASE p = next
          BY <2>a, <3>3, <4>3
        <4>. QED  BY <2>a, <3>3, <4>1, <4>2, <4>3
      <3>. QED  BY <3>2, <3>3 DEF Replied
    <2>b. \A i \in 1..Len(offers') : i + 1 \in 1..Len(offers) /\ offers'[i] = offers[i + 1]
      BY <2>2
    <2>7. Here(offers)' /\ Here(pendingHold)' /\ Here(buf)'
      <3>1. Here(offers)'
        BY <2>1, <2>3, <2>b DEF Outstanding, Here
      <3>2. Here(pendingHold)' /\ Here(buf)'
        BY <1>1, <2>1, <2>3 DEF Outstanding, Here
      <3>. QED  BY <3>1, <3>2
    <2>8. Rising(offers)' /\ Rising(pendingHold)' /\ Rising(buf)'
      <3>1. Rising(offers)'
        BY <2>1, <2>b DEF Outstanding, Rising
      <3>2. Rising(pendingHold)' /\ Rising(buf)'
        BY <1>1, <2>1 DEF Outstanding, Rising
      <3>. QED  BY <3>1, <3>2
    <2>9. Under(offers, pendingHold)' /\ Under(offers, buf)' /\ Under(pendingHold, buf)'
      <3>1. Under(offers, pendingHold)' /\ Under(offers, buf)'
        BY <1>1, <2>1, <2>b DEF Outstanding, Under
      <3>2. Under(pendingHold, buf)'
        BY <1>1, <2>1 DEF Outstanding, Under
      <3>. QED  BY <3>1, <3>2
    <2>10. Unanswered(offers)'
      <3>a. \A i \in 1..Len(offers') : 1 < i + 1 /\ 1 \in 1..Len(offers)
        BY <2>2
      <3>b. f = offers[1]
        BY <2>2
      <3>c. \A i, j \in 1..Len(offers) : i < j => offers[i].n < offers[j].n
        BY <2>1 DEF Outstanding, Rising
      <3>1. \A i \in 1..Len(offers') : i + 1 \in 1..Len(offers) /\ f.n < offers'[i].n
        BY <2>b, <3>a, <3>b, <3>c
      <3>2. \A p : Reply(p) => p \in 1..Len(sock.toServer)
        BY DEF Reply
      <3>3. \A p, i : Reply(p) /\ i \in 1..Len(offers) => sock.toServer[p].of.n < offers[i].n
        BY <2>1, <3>2 DEF Outstanding, Unanswered
      <3>4. ASSUME NEW p, Reply(p)', NEW i \in 1..Len(offers')
            PROVE  sock'.toServer[p].of.n < offers'[i].n
        BY <2>b, <2>a, <3>1, <3>3, <3>4
      <3>. QED  BY <3>4 DEF Unanswered
    <2>11. Unanswered(pendingHold)' /\ Unanswered(buf)'
      <3>1. ASSUME NEW t, Unanswered(t), Under(offers, t), NEW p, Reply(p)', NEW i \in 1..Len(t)
            PROVE  sock'.toServer[p].of.n < t[i].n
        <4>1. CASE Reply(p)
          BY <2>a, <3>1, <4>1 DEF Unanswered, Reply
        <4>2. CASE p = next
          BY <2>2, <2>a, <3>1, <4>2 DEF Under
        <4>. QED  BY <2>a, <3>1, <4>1, <4>2
      <3>. QED  BY <1>1, <2>1, <3>1 DEF Outstanding, Unanswered
    <2>12. Greeted'
      BY <1>1, <1>4, <2>1, <2>3 DEF Greeted
    <2>. QED  BY <2>4, <2>6, <2>7, <2>8, <2>9, <2>10, <2>11, <2>12 DEF AnswerInv, Outstanding
  <1>. QED  BY <1>2, <1>3, <1>4

---------------------------------------------------------------------------
\* The reader's handling of a frame.

Elements(s) == {s[i] : i \in 1..Len(s)}
Pending == Elements(offers) \cup Elements(pendingHold) \cup Elements(buf)

\* Handling a frame replies to nothing.
LEMMA HandleWire ==
    ASSUME PiTypes, Handle, sock # None, Replied
    PROVE  /\ sock'.id = sock.id /\ sock'.sent = sock.sent /\ sock'.got = sock.got
           /\ \A p : Reply(p)' => /\ Reply(p) /\ p \in 1..Len(sock.toServer)
                                 /\ sock'.toServer[p] = sock.toServer[p]
           /\ sock.toServer # <<>> =>
                 sock'.toServer # <<>> /\ sock'.toServer[1] = sock.toServer[1]
           /\ Replied'
  <1>1. CASE sock' = sock
    BY <1>1 DEF Replied, Reply
  <1>2. CASE sock' # sock
    <2>1. PICK op \in {"hello", "cancel"} : Head(buf) \in AnyFrame /\ SendFrame(op, Head(buf))
      BY <1>2, HandleSock
    <2>2. op \in Ops /\ op # "offer"
      BY DEF Ops
    <2>3. \A p : Reply(p)' => Reply(p)
      BY <2>1, <2>2, RepliesGrow
    <2>4. \A p : Reply(p) => p \in 1..Len(sock.toServer) /\ sock'.toServer[p] = sock.toServer[p]
      BY <2>1, <2>2, RepliesGrow
    <2>5. /\ sock'.id = sock.id /\ sock'.sent = sock.sent /\ sock'.got = sock.got
          /\ sock'.toServer # <<>>
          /\ sock.toServer # <<>> => sock'.toServer[1] = sock.toServer[1]
      BY <2>1, <2>2, WireKept
    <2>6. Replied'
      <3>1. ASSUME NEW p, Reply(p)'
            PROVE  sock'.toServer[p].of.conn = sock'.id /\ sock'.toServer[p].of.n <= sock'.got
        BY <2>3, <2>4, <2>5, <3>1 DEF Replied
      <3>2. ASSUME NEW p, NEW q, Reply(p)', Reply(q)', p < q
            PROVE  sock'.toServer[p].of.n < sock'.toServer[q].of.n
        BY <2>3, <2>4, <3>2 DEF Replied
      <3>. QED  BY <3>1, <3>2 DEF Replied
    <2>. QED  BY <2>3, <2>4, <2>5, <2>6
  <1>. QED  BY <1>1, <1>2

\* What is pending after it was pending before, so it is still of this
\* connection and newer than the replies.
LEMMA StillPending ==
    ASSUME PiTypes, Handle, sock # None, Outstanding, Replied, Pending' \subseteq Pending
    PROVE  /\ Here(offers)' /\ Here(pendingHold)' /\ Here(buf)'
           /\ Unanswered(offers)' /\ Unanswered(pendingHold)' /\ Unanswered(buf)'
  <1>1. \A x \in Pending : x.conn = sock.id /\ x.n <= sock.got
    BY DEF Pending, Elements, Outstanding, Here
  <1>2. \A x \in Pending : \A p \in 1..Len(sock.toServer) :
            Reply(p) => sock.toServer[p].of.n < x.n
    BY DEF Pending, Elements, Outstanding, Unanswered
  <1>3. ASSUME NEW x \in Pending'
        PROVE  /\ x.conn = sock'.id /\ x.n <= sock'.got
               /\ \A p : Reply(p)' => sock'.toServer[p].of.n < x.n
    BY <1>1, <1>2, <1>3, HandleWire
  <1>4. /\ \A i \in 1..Len(offers') : offers'[i] \in Pending'
        /\ \A i \in 1..Len(pendingHold') : pendingHold'[i] \in Pending'
        /\ \A i \in 1..Len(buf') : buf'[i] \in Pending'
    BY DEF Pending, Elements
  <1>. QED  BY <1>3, <1>4 DEF Here, Unanswered

\* Frames that keep their order, however they are spread over the buffers.
InOrder ==
    /\ Rising(offers) /\ Rising(pendingHold) /\ Rising(buf)
    /\ Under(offers, pendingHold) /\ Under(offers, buf) /\ Under(pendingHold, buf)

LEMMA HandleOrder ==
    ASSUME PiTypes, Handle, buf # <<>>, InOrder
    PROVE  InOrder' /\ Pending' \subseteq Pending
  <1>1. /\ buf \in Seq(AnyFrame) /\ offers \in Seq(AnyFrame) /\ pendingHold \in Seq(AnyFrame)
        /\ Len(offers) \in Nat /\ Len(pendingHold) \in Nat
    BY DEF PiTypes
  <1>2. /\ Len(buf) \in Nat \ {0} /\ Len(buf') = Len(buf) - 1
        /\ \A i \in 1..Len(buf') : i + 1 \in 1..Len(buf) /\ buf'[i] = buf[i + 1]
    <2>1. buf' = Tail(buf)
      BY HandleNext
    <2>. QED  BY <1>1, <2>1
  <1>3. Head(buf) = buf[1] /\ 1 \in 1..Len(buf)
    BY <1>1, <1>2
  <1>4. Elements(buf)' \subseteq Elements(buf) /\ Head(buf) \in Elements(buf)
    BY <1>2, <1>3 DEF Elements
  <1>5. /\ \A i \in 1..Len(buf') : Head(buf).n < buf'[i].n
        /\ Rising(buf)'
    BY <1>2, <1>3 DEF InOrder, Rising
  <1>6. HandleFrame
    BY HandleNext
  <1>7. CASE Greet \/ IgnoreFrame
    <2>1. UNCHANGED <<offers, pendingHold>>
      BY <1>7 DEF Greet, IgnoreFrame
    <2>2. Pending' \subseteq Pending
      BY <1>4, <2>1 DEF Pending, Elements
    <2>. QED  BY <1>2, <1>5, <2>1, <2>2 DEF InOrder, Rising, Under
  <1>8. CASE Cancel
    <2>1. offers' = <<>> /\ pendingHold' = <<>>
      BY <1>8 DEF Cancel
    <2>2. Pending' \subseteq Pending
      BY <1>4, <2>1 DEF Pending, Elements
    <2>. QED  BY <1>5, <2>1, <2>2 DEF InOrder, Rising, Under
  <1>9. CASE Hold
    <2>1. /\ offers' = offers /\ Len(pendingHold') = Len(pendingHold) + 1
          /\ \A i \in 1..Len(pendingHold) : pendingHold'[i] = pendingHold[i]
          /\ pendingHold'[Len(pendingHold) + 1] = Head(buf)
      BY <1>1, <1>9 DEF Hold
    <2>2. \A i \in 1..Len(pendingHold') : i \in 1..Len(pendingHold) \/ i = Len(pendingHold) + 1
      BY <1>1, <2>1
    <2>3. Elements(pendingHold)' \subseteq Elements(pendingHold) \cup {Head(buf)}
      BY <2>1, <2>2 DEF Elements
    <2>4. Pending' \subseteq Pending
      BY <1>4, <2>1, <2>3 DEF Pending, Elements
    <2>5. \A i \in 1..Len(pendingHold) : pendingHold[i].n < Head(buf).n
      BY <1>3 DEF InOrder, Under
    <2>6. \A i \in 1..Len(offers) : offers[i].n < Head(buf).n
      BY <1>3 DEF InOrder, Under
    <2>7. Rising(pendingHold)'
      BY <1>1, <2>1, <2>2, <2>5 DEF InOrder, Rising
    <2>8. Under(offers, pendingHold)'
      BY <2>1, <2>2, <2>6 DEF InOrder, Under
    <2>9. Under(pendingHold, buf)'
      BY <1>2, <1>5, <2>1, <2>2 DEF InOrder, Under
    <2>10. Under(offers, buf)' /\ Rising(offers)'
      BY <1>2, <2>1 DEF InOrder, Under, Rising
    <2>. QED  BY <1>5, <2>4, <2>7, <2>8, <2>9, <2>10 DEF InOrder
  <1>10. CASE Offer
    <2> DEFINE k == Len(offers)
               m == Len(pendingHold)
    <2>1. /\ pendingHold' = <<>> /\ Len(offers') = k + m + 1
          /\ \A i \in 1..k : offers'[i] = offers[i]
          /\ \A i \in 1..m : offers'[k + i] = pendingHold[i]
          /\ offers'[k + m + 1] = Head(buf)
      BY <1>10, OfferEffect DEF Offer
    <2>2. k \in Nat /\ m \in Nat
      BY <1>1
    <2> HIDE DEF k, m
    <2>3. \A i \in 1..Len(offers') : \/ i \in 1..k \/ i = k + m + 1
                                     \/ i - k \in 1..m /\ i = k + (i - k)
      BY <2>1, <2>2
    <2>4. \A i \in 1..Len(offers') :
            \/ i \in 1..k /\ offers'[i] = offers[i]
            \/ i - k \in 1..m /\ offers'[i] = pendingHold[i - k]
            \/ i = k + m + 1 /\ offers'[i] = Head(buf)
      BY <2>1, <2>2, <2>3
    <2>5. Elements(offers)' \subseteq Elements(offers) \cup Elements(pendingHold) \cup {Head(buf)}
      BY <2>4 DEF Elements, k, m
    <2>6. Pending' \subseteq Pending
      <3>1. Elements(pendingHold)' = {}
        BY <2>1 DEF Elements
      <3>. QED  BY <1>4, <2>5, <3>1 DEF Pending
    <2>7. /\ \A i \in 1..k : offers[i].n < Head(buf).n
          /\ \A i \in 1..m : pendingHold[i].n < Head(buf).n
          /\ \A i \in 1..k, j \in 1..m : offers[i].n < pendingHold[j].n
      BY <1>3 DEF InOrder, Under, k, m
    <2>8. /\ \A i, j \in 1..k : i < j => offers[i].n < offers[j].n
          /\ \A i, j \in 1..m : i < j => pendingHold[i].n < pendingHold[j].n
      BY DEF InOrder, Rising, k, m
    <2>9. ASSUME NEW i \in 1..Len(offers'), NEW j \in 1..Len(offers'), i < j
          PROVE  offers'[i].n < offers'[j].n
      <3>1. CASE i \in 1..k
        BY <2>2, <2>4, <2>7, <2>8, <2>9, <3>1
      <3>2. CASE i - k \in 1..m
        BY <2>2, <2>4, <2>7, <2>8, <2>9, <3>2
      <3>. QED  BY <2>1, <2>2, <2>4, <2>9, <3>1, <3>2
    <2>10. \A i \in 1..k, j \in 1..Len(buf') : offers[i].n < buf'[j].n
      BY <1>2 DEF InOrder, Under, k
    <2>11. \A i \in 1..m, j \in 1..Len(buf') : pendingHold[i].n < buf'[j].n
      BY <1>2 DEF InOrder, Under, m
    <2>12. Under(offers, buf)'
      BY <1>5, <2>4, <2>10, <2>11 DEF Under
    <2>13. Rising(offers)'
      BY <2>9 DEF Rising
    <2>14. Rising(pendingHold)' /\ Under(offers, pendingHold)' /\ Under(pendingHold, buf)'
      BY <2>1 DEF Rising, Under
    <2>. QED  BY <1>5, <2>6, <2>12, <2>13, <2>14 DEF InOrder
  <1>. QED  BY <1>6, <1>7, <1>8, <1>9, <1>10 DEF HandleFrame

LEMMA HandleAnswers ==
    ASSUME PiTypes, AnswerInv, Handle
    PROVE  AnswerInv'
  <1>1. rpc = "handle" /\ Received
    BY DEF Handle, AnswerInv
  <1>2. CASE buf = <<>>
    <2>1. UNCHANGED <<offers, link, buf, pendingHold, sock>>
      BY <1>2 DEF Handle
    <2>2. rpc' = "loop"
      BY <1>2 DEF Handle
    <2>. QED  BY <1>1, <1>2, <2>1, <2>2, SameAnswers DEF Buffers
  <1>3. CASE buf # <<>> /\ sock = None
    <2>1. sock' = None /\ rpc' = rpc
      BY <1>3, HandleNext, HandleSock, SendTypes DEF Ops
    <2>. QED  BY <1>1, <2>1 DEF AnswerInv, Received
  <1>4. CASE buf # <<>> /\ sock # None
    <2>1. Outstanding /\ Replied /\ Greeted
      BY <1>1, <1>4 DEF AnswerInv
    <2>2. InOrder' /\ Pending' \subseteq Pending
      BY <1>4, <2>1, HandleOrder DEF Outstanding, InOrder
    <2>3. Outstanding'
      BY <1>4, <2>1, <2>2, StillPending DEF Outstanding, InOrder
    <2>4. rpc' = rpc /\ HandleFrame
      BY <1>4, HandleNext
    <2>5. Received'
      BY <1>1, <1>4, <2>1, <2>4, HandleWire DEF Received
    <2>6. Greeted'
      <3>1. CASE sock.toServer # <<>>
        BY <1>4, <2>1, <3>1, HandleWire DEF Greeted
      <3>2. CASE sock.toServer = <<>>
        <4>1. offers = <<>> /\ link # "FRAMED"
          BY <2>1, <3>2 DEF Greeted
        <4>2. CASE Greet
          <5>1. CASE Head(buf).op = "hello"
            <6>1. SendFrame("hello", Head(buf)) /\ Head(buf) \in AnyFrame /\ "hello" \in Ops
              BY <1>4, <4>2, <5>1, HeadTail DEF Greet, PiTypes, Ops
            <6>2. sock'.toServer = Append(sock.toServer, [op |-> "hello", of |-> Head(buf)])
              BY <1>4, <6>1, SendTypes
            <6>. QED  BY <3>2, <6>2 DEF Greeted
          <5>2. CASE Head(buf).op # "hello"
            BY <2>1, <3>2, <4>1, <4>2, <5>2 DEF Greet, Greeted
          <5>. QED  BY <5>1, <5>2
        <4>3. CASE IgnoreFrame
          BY <3>2, <4>1, <4>3 DEF IgnoreFrame, Greeted
        <4>. QED  BY <2>4, <4>1, <4>2, <4>3 DEF HandleFrame
      <3>. QED  BY <3>1, <3>2
    <2>7. Replied'
      BY <1>4, <2>1, HandleWire
    <2>. QED  BY <2>3, <2>5, <2>6, <2>7 DEF AnswerInv
  <1>. QED  BY <1>2, <1>3, <1>4

---------------------------------------------------------------------------
\* The other steps of the reader.

LEMMA RecvAnswers ==
    ASSUME PiTypes, AnswerInv, Recv
    PROVE  AnswerInv'
  <1>1. rpc = "polling" /\ UNCHANGED <<offers, link, pendingHold>>
    BY DEF Recv
  <1>2. CASE ~HasData
    <2>1. sock' = None /\ buf' = buf /\ rpc' = "loop"
      BY <1>2 DEF Recv
    <2>. QED  BY <1>1, <2>1 DEF AnswerInv, Received
  <1>3. CASE HasData
    <2>0. rpc' = "handle"
      BY <1>3 DEF Recv
    <2>1. /\ sock # None /\ sock'.id = sock.id /\ sock'.sent = sock.sent
          /\ sock'.toServer = sock.toServer
          /\ sock.got <= Len(sock.sent) /\ sock'.got = Len(sock.sent)
          /\ Len(buf') = Len(sock.sent) - sock.got
          /\ \A i \in 1..Len(buf') : buf'[i] = sock.sent[sock.got + i]
      BY <1>3, RecvEffect
    <2>2. sock.got \in Nat /\ Len(sock.sent) \in Nat
      BY <1>3, RecvEffect DEF Connection
    <2>3. Received /\ Outstanding /\ Replied /\ Greeted
      BY <1>1, <2>1 DEF AnswerInv
    <2>4. \A i \in 1..Len(buf') : buf'[i].n = sock.got + i /\ buf'[i].conn = sock.id
      <3>1. \A i \in 1..Len(buf') : sock.got + i \in 1..Len(sock.sent)
        BY <2>1, <2>2
      <3>. QED  BY <2>1, <2>3, <3>1 DEF Received
    <2>5. Received'
      BY <2>0, <2>1, <2>2, <2>3 DEF Received
    <2>6. Replied' /\ Greeted'
      <3>1. \A p \in 1..Len(sock.toServer) : sock.toServer[p].of.n \in Nat
        BY <1>3, RecvEffect, ReplyNumbers
      <3>2. \A p \in 1..Len(sock.toServer) : Reply(p) => sock.toServer[p].of.n <= Len(sock.sent)
        BY <2>1, <2>2, <2>3, <3>1 DEF Replied
      <3>. QED  BY <1>1, <2>1, <2>3, <3>2 DEF Replied, Greeted, Reply
    <2>7. Here(offers)' /\ Here(pendingHold)'
      <3>1. \A s \in Seq(AnyFrame) : \A i \in 1..Len(s) : s[i].n \in Nat
        BY FrameNumbers
      <3>. QED  BY <1>1, <2>1, <2>2, <2>3, <3>1 DEF Outstanding, Here, PiTypes
    <2>8. Here(buf)' /\ Rising(buf)'
      BY <2>1, <2>2, <2>4 DEF Here, Rising
    <2>9. Under(offers, buf)' /\ Under(pendingHold, buf)'
      <3>1. \A s \in Seq(AnyFrame) : \A i \in 1..Len(s) : s[i].n \in Nat
        BY FrameNumbers
      <3>2. ASSUME NEW s \in Seq(AnyFrame), Here(s), NEW i \in 1..Len(s), NEW j \in 1..Len(buf')
            PROVE  s[i].n < buf'[j].n
        <4>1. s[i].n \in Nat /\ s[i].n <= sock.got
          BY <3>1, <3>2 DEF Here
        <4>. QED  BY <2>2, <2>4, <4>1
      <3>. QED  BY <1>1, <2>3, <3>2 DEF Outstanding, Under, PiTypes
    <2>10. Unanswered(buf)'
      <3>1. \A p \in 1..Len(sock.toServer) : sock.toServer[p].of.n \in Nat
        BY <1>3, RecvEffect, ReplyNumbers
      <3>2. ASSUME NEW p \in 1..Len(sock.toServer), Reply(p), NEW j \in 1..Len(buf')
            PROVE  sock.toServer[p].of.n < buf'[j].n
        <4>1. sock.toServer[p].of.n <= sock.got
          BY <2>3, <3>2 DEF Replied
        <4>. QED  BY <2>2, <2>4, <3>1, <4>1
      <3>. QED  BY <2>1, <3>2 DEF Unanswered, Reply
    <2>11. /\ Rising(offers)' /\ Rising(pendingHold)' /\ Under(offers, pendingHold)'
           /\ Unanswered(offers)' /\ Unanswered(pendingHold)'
      BY <1>1, <2>1, <2>3 DEF Outstanding, Rising, Under, Unanswered, Reply
    <2>. QED  BY <2>5, <2>6, <2>7, <2>8, <2>9, <2>10, <2>11 DEF AnswerInv, Outstanding
  <1>. QED  BY <1>2, <1>3

\* A new connection: nothing was sent on it, and before anything can be, the
\* frames of the last one are forgotten.
LEMMA NewAnswers ==
    ASSUME PiTypes, AnswerInv, Adopt \/ Probe
    PROVE  AnswerInv'
  <1>1. CASE Adopt
    <2>1. rpc # "handle" /\ rpc' # "handle" /\ buf' = buf
      BY <1>1 DEF Adopt
    <2>2. CASE rpc' = "probe" /\ sock' = NewConnection
      <3>1. sock'.got = 0 /\ sock'.sent = <<>> /\ sock'.toServer = <<>>
        BY <2>2 DEF NewConnection
      <3>. QED  BY <2>1, <2>2, <3>1 DEF AnswerInv, Received
    <2>3. CASE UNCHANGED sock /\ rpc' = "loop"
      <3>1. rpc = "adopt" /\ UNCHANGED <<Buffers, link>> /\ buf = <<>>
        BY <1>1 DEF Adopt, Buffers, AnswerInv, Received
      <3>. QED  BY <2>3, <3>1, SameAnswers
    <2>. QED  BY <1>1, <2>2, <2>3 DEF Adopt
  <1>2. CASE Probe
    <2>1. /\ rpc = "probe" /\ rpc' = "poll" /\ link' = "PROBING"
          /\ offers' = <<>> /\ pendingHold' = <<>> /\ UNCHANGED <<sock, buf>>
      BY <1>2 DEF Probe
    <2>2. Received' /\ buf' = <<>>
      BY <2>1 DEF AnswerInv, Received
    <2>3. sock # None => sock.toServer = <<>>
      BY <2>1 DEF AnswerInv, Received
    <2>4. Outstanding'
      BY <2>1, <2>2 DEF Outstanding, Here, Rising, Under, Unanswered
    <2>5. sock' # None => Replied' /\ Greeted'
      BY <2>1, <2>3 DEF Replied, Greeted, Reply
    <2>. QED  BY <2>2, <2>4, <2>5 DEF AnswerInv
  <1>. QED  BY <1>1, <1>2

---------------------------------------------------------------------------
\* Another frame that arrives, or the end of the connection, waits for recv().
LEMMA ServerAnswers ==
    ASSUME PiTypes, AnswerInv, Server
    PROVE  AnswerInv'
  <1>1. UNCHANGED <<Buffers, link, rpc>>
    BY DEF Server, ServerSend, ServerClose, readerVars, Buffers
  <1>2. /\ sock # None /\ sock'.id = sock.id /\ sock'.got = sock.got
        /\ sock'.toServer = sock.toServer
    BY ServerEffect
  <1>3. Received'
    <2>1. sock.sent \in Seq(AnyFrame) /\ Len(sock.sent) \in Nat /\ sock.got \in Nat
      BY ServerEffect DEF Connection
    <2>2. CASE sock'.sent = sock.sent
      BY <1>1, <1>2, <2>2 DEF AnswerInv, Received, Buffers
    <2>3. CASE sock'.sent # sock.sent
      <3>1. PICK f \in AnyFrame : /\ f.conn = sock.id /\ f.n = Len(sock.sent) + 1
                                  /\ sock'.sent = Append(sock.sent, f)
        BY <2>3, ServerEffect
      <3>2. /\ Len(sock'.sent) = Len(sock.sent) + 1
            /\ sock'.sent[Len(sock.sent) + 1] = f
            /\ \A i \in 1..Len(sock.sent) : sock'.sent[i] = sock.sent[i]
        BY <2>1, <3>1
      <3>3. \A i \in 1..Len(sock'.sent) : i \in 1..Len(sock.sent) \/ i = Len(sock.sent) + 1
        BY <2>1, <3>2
      <3>4. \A i \in 1..Len(sock'.sent) : sock'.sent[i].n = i /\ sock'.sent[i].conn = sock.id
        BY <1>2, <3>1, <3>2, <3>3 DEF AnswerInv, Received
      <3>5. sock.got <= Len(sock'.sent)
        BY <1>2, <2>1, <3>2 DEF AnswerInv, Received
      <3>. QED  BY <1>1, <1>2, <3>4, <3>5 DEF AnswerInv, Received, Buffers
    <2>. QED  BY <2>2, <2>3
  <1>4. Outstanding => Outstanding'
    BY <1>1, <1>2 DEF Outstanding, Buffers, Here, Rising, Under, Unanswered, Reply
  <1>5. (Replied => Replied') /\ (Greeted => Greeted')
    BY <1>1, <1>2 DEF Replied, Greeted, Buffers, Reply
  <1>. QED  BY <1>1, <1>2, <1>3, <1>4, <1>5 DEF AnswerInv

LEMMA StepAnswers == ~BindAcross /\ PiTypes /\ AnswerInv /\ [Next]_vars => AnswerInv'
  <1> SUFFICES ASSUME ~BindAcross, PiTypes, AnswerInv, [Next]_vars PROVE AnswerInv'
    OBVIOUS
  <1>1. ASSUME UNCHANGED <<offers, pendingHold, buf, sock, link, rpc>> PROVE AnswerInv'
    BY <1>1, SameAnswers DEF Buffers
  \* A closed socket takes all that is known of its connection with it.
  <1>2. ASSUME sock' = None, rpc' # "handle" => buf' = <<>> PROVE AnswerInv'
    BY <1>2 DEF AnswerInv, Received
  <1>3. CASE Emulation
    <2>1. ASSUME NEW a \in Accesses, Access(a) PROVE AnswerInv'
      BY <1>1, <2>1 DEF Access, shared, readerVars
    <2>2. CASE TryBind \/ Port \/ Stall \/ InterfaceReset \/ SetWaitMode
      BY <1>1, <2>2 DEF TryBind, Port, Stall, InterfaceReset, SetWaitMode, shared, readerVars
    <2>3. CASE ChangePort
      BY <1>1, <2>3 DEF ChangePort, readerVars
    <2>4. CASE PortChanged
      <3>1. sock' = None /\ UNCHANGED <<rpc, buf>>
        BY <2>4 DEF PortChanged, readerVars
      <3>. QED  BY <1>2, <3>1 DEF AnswerInv, Received
    <2>. QED  BY <1>3, <2>1, <2>2, <2>3, <2>4, BindAnswers DEF Emulation
  <1>4. CASE ReadLoop
    <2>1. CASE Loop
      <3>1. /\ rpc = "loop" /\ rpc' \in {"connect", "poll"}
            /\ UNCHANGED <<Buffers, sock>> /\ buf = <<>>
            /\ sock # None => link' = link
        BY <2>1 DEF Loop, Buffers, AnswerInv, Received
      <3>2. CASE sock = None
        BY <1>2, <3>1, <3>2 DEF Buffers
      <3>3. CASE sock # None
        BY <3>1, <3>3, SameAnswers
      <3>. QED  BY <3>2, <3>3
    <2>2. CASE Connect \/ Poll
      <3>1. /\ rpc # "handle" /\ rpc # "probe" /\ rpc' # "probe"
            /\ UNCHANGED <<Buffers, sock, link>>
        BY <2>2 DEF Connect, Poll, Buffers
      <3>2. buf = <<>>
        BY <3>1 DEF AnswerInv, Received
      <3>. QED  BY <3>1, <3>2, SameAnswers
    <2>. QED  BY <1>4, <2>1, <2>2, NewAnswers, RecvAnswers, HandleAnswers DEF ReadLoop
  <1>5. CASE UNCHANGED vars
    BY <1>1, <1>5 DEF vars, shared, readerVars
  <1>. QED  BY <1>3, <1>4, <1>5, ServerAnswers DEF Next

\* For any number of connections and frames: as long as no byte is bound while
\* the reader changes connections, the latch only goes out for bytes that were
\* offered on the connection it goes to, in order, once, and after the greeting.
THEOREM RepliesAreForOffers == ~BindAcross => (Spec => []RepliesAnswerOffers)
  <1> SUFFICES ASSUME ~BindAcross PROVE Spec => []RepliesAnswerOffers
    OBVIOUS
  <1>1. Spec => []PiTypes
    BY InitPiTypes, StepPiTypes, PTL DEF Spec
  <1>2. PiTypes /\ AnswerInv /\ [Next]_vars => AnswerInv'
    BY StepAnswers
  <1>3. PiTypes /\ AnswerInv => RepliesAnswerOffers
    <2> SUFFICES ASSUME PiTypes, AnswerInv, sock # None PROVE RepliesAnswerOffers
      BY DEF RepliesAnswerOffers
    <2>1. sock.toServer \in Seq([op : Ops, of : AnyFrame])
      BY DEF PiTypes, Connection
    <2>2. DOMAIN sock.toServer = 1..Len(sock.toServer)
      BY <2>1
    <2>3. sock.toServer # <<>> => Head(sock.toServer) = sock.toServer[1]
      BY <2>1
    <2>4. CASE rpc = "probe"
      <3>1. sock.toServer = <<>>
        BY <2>4 DEF AnswerInv, Received
      <3>. QED  BY <3>1 DEF RepliesAnswerOffers
    <2>5. CASE rpc # "probe"
      <3>1. Replied /\ Greeted
        BY <2>5 DEF AnswerInv
      <3>. QED  BY <2>2, <2>3, <3>1 DEF RepliesAnswerOffers, Replied, Greeted, Reply
    <2>. QED  BY <2>4, <2>5
  <1>. QED  BY <1>1, <1>2, <1>3, InitAnswers, PTL DEF Spec

---------------------------------------------------------------------------
\* Acknowledgements among the first p of what was sent, and the cancels they are
\* for among the first n frames, the greeting apart.
AcksIn(wire, p)    == {i \in 1..p : wire[i].op = "cancel"}
CancelsIn(sent, n) == {i \in 2..n : sent[i].op = "cancel"}

\* The frames of s are among the first k, and none of those that follow is a
\* cancel.
Uncancelled(s, sent, k) ==
    \A i \in 1..Len(s) : s[i].n \in 1..k /\ \A j \in s[i].n..k : sent[j].op # "cancel"

\* Before the reply to an offer are the acknowledgements of the cancels before
\* that offer.
Counted(wire, sent) ==
    \A p \in 1..Len(wire) : wire[p].op = "offer" =>
        Cardinality(AcksIn(wire, p - 1)) = Cardinality(CancelsIn(sent, wire[p].of.n - 1))

\* The first k frames of the connection were handled: the buffer has those that
\* follow, all the cancels were acknowledged, and nothing before the last of
\* them is offered any more.
Acknowledged(k) ==
    /\ sock.got = k + Len(buf)
    /\ \A i \in 1..Len(buf) : buf[i] = sock.sent[k + i]
    /\ link = "PROBING" => k = 0 /\ sock.toServer = <<>>
    /\ link = "FRAMED" =>
         /\ k > 0
         /\ Cardinality(AcksIn(sock.toServer, Len(sock.toServer)))
              = Cardinality(CancelsIn(sock.sent, k))
    /\ link # "FRAMED" => offers = <<>> /\ pendingHold = <<>>
    /\ Uncancelled(offers, sock.sent, k) /\ Uncancelled(pendingHold, sock.sent, k)
    /\ Counted(sock.toServer, sock.sent)

AckInv == sock # None => IF rpc = "probe" THEN sock.got = 0 ELSE \E k \in Nat : Acknowledged(k)

LEMMA CancelsNext ==
    ASSUME NEW sent, NEW k \in Nat
    PROVE  /\ Cardinality(CancelsIn(sent, k)) \in Nat
           /\ sent[k + 1].op = "cancel" /\ k > 0 =>
                Cardinality(CancelsIn(sent, k + 1)) = Cardinality(CancelsIn(sent, k)) + 1
           /\ sent[k + 1].op # "cancel" \/ k = 0 => CancelsIn(sent, k + 1) = CancelsIn(sent, k)
  <1>1. IsFiniteSet(2..k)
    BY FS_Interval
  <1>2. CancelsIn(sent, k) \subseteq 2..k
    BY DEF CancelsIn
  <1>3. IsFiniteSet(CancelsIn(sent, k)) /\ Cardinality(CancelsIn(sent, k)) \in Nat
    BY <1>1, <1>2, FS_Subset, FS_CardinalityType
  <1>4. ASSUME sent[k + 1].op = "cancel", k > 0
        PROVE  Cardinality(CancelsIn(sent, k + 1)) = Cardinality(CancelsIn(sent, k)) + 1
    <2>1. CancelsIn(sent, k + 1) = CancelsIn(sent, k) \cup {k + 1}
      BY <1>4 DEF CancelsIn
    <2>2. k + 1 \notin CancelsIn(sent, k)
      BY DEF CancelsIn
    <2>. QED  BY <1>3, <2>1, <2>2, FS_AddElement
  <1>5. sent[k + 1].op # "cancel" \/ k = 0 => CancelsIn(sent, k + 1) = CancelsIn(sent, k)
    BY DEF CancelsIn
  <1>. QED  BY <1>3, <1>4, <1>5

LEMMA CancelsSame ==
    ASSUME NEW sent, NEW more, NEW k \in Int, \A i \in 1..k : more[i] = sent[i]
    PROVE  CancelsIn(more, k) = CancelsIn(sent, k)
  BY DEF CancelsIn

\* No cancel is among the frames from n to k.
LEMMA CancelsBefore ==
    ASSUME NEW sent, NEW k \in Nat, NEW n \in Nat, n <= k,
           \A j \in n..k : sent[j].op # "cancel"
    PROVE  CancelsIn(sent, k) = CancelsIn(sent, n - 1)
  BY DEF CancelsIn

\* One more is sent.
LEMMA AcksNext ==
    ASSUME NEW wire, NEW more, NEW len \in Nat, \A i \in 1..len : more[i] = wire[i]
    PROVE  /\ \A p \in 0..len : AcksIn(more, p) = AcksIn(wire, p)
           /\ more[len + 1].op = "cancel" =>
                Cardinality(AcksIn(more, len + 1)) = Cardinality(AcksIn(wire, len)) + 1
           /\ more[len + 1].op # "cancel" => AcksIn(more, len + 1) = AcksIn(wire, len)
  <1>1. \A p \in 0..len : AcksIn(more, p) = AcksIn(wire, p)
    BY DEF AcksIn
  <1>2. IsFiniteSet(AcksIn(wire, len))
    <2>0. 1 \in Int /\ len \in Int
      OBVIOUS
    <2>1. IsFiniteSet(1..len)
      BY <2>0, FS_Interval, Zenon
    <2>2. AcksIn(wire, len) \subseteq 1..len
      BY DEF AcksIn
    <2>. QED  BY <2>1, <2>2, FS_Subset
  <1>3. ASSUME more[len + 1].op = "cancel"
        PROVE  Cardinality(AcksIn(more, len + 1)) = Cardinality(AcksIn(wire, len)) + 1
    <2>1. AcksIn(more, len + 1) = AcksIn(wire, len) \cup {len + 1}
      BY <1>3 DEF AcksIn
    <2>2. len + 1 \notin AcksIn(wire, len)
      BY DEF AcksIn
    <2>. QED  BY <1>2, <2>1, <2>2, FS_AddElement
  <1>4. more[len + 1].op # "cancel" => AcksIn(more, len + 1) = AcksIn(wire, len)
    BY DEF AcksIn
  <1>. QED  BY <1>1, <1>3, <1>4

LEMMA CountedNext ==
    ASSUME NEW wire, NEW more, NEW sent, NEW len \in Nat, Len(wire) = len, Len(more) = len + 1,
           \A i \in 1..len : more[i] = wire[i], Counted(wire, sent),
           more[len + 1].op = "offer" =>
             Cardinality(AcksIn(wire, len)) = Cardinality(CancelsIn(sent, more[len + 1].of.n - 1))
    PROVE  Counted(more, sent)
  <1>1. \A p \in 0..len : AcksIn(more, p) = AcksIn(wire, p)
    BY AcksNext
  <1>2. ASSUME NEW p \in 1..(len + 1), more[p].op = "offer"
        PROVE  Cardinality(AcksIn(more, p - 1)) = Cardinality(CancelsIn(sent, more[p].of.n - 1))
    <2>1. p - 1 \in 0..len /\ AcksIn(more, p - 1) = AcksIn(wire, p - 1)
      BY <1>1
    <2>2. CASE p \in 1..len
      <3>1. more[p] = wire[p]
        BY <2>2
      <3>2. wire[p].op = "offer" /\ p \in 1..Len(wire)
        BY <1>2, <2>2, <3>1
      <3>3. Cardinality(AcksIn(wire, p - 1)) = Cardinality(CancelsIn(sent, wire[p].of.n - 1))
        BY <3>2 DEF Counted
      <3>. QED  BY <2>1, <3>1, <3>3
    <2>3. CASE p = len + 1
      <3>1. p - 1 = len
        BY <2>3
      <3>. QED  BY <1>2, <2>1, <2>3, <3>1
    <2>. QED  BY <2>2, <2>3
  <1>. QED  BY <1>2 DEF Counted

\* The next frame is no cancel.
LEMMA UncancelledNext ==
    ASSUME NEW s \in Seq(AnyFrame), NEW sent, NEW k \in Nat, Uncancelled(s, sent, k),
           sent[k + 1].op # "cancel"
    PROVE  Uncancelled(s, sent, k + 1)
  <1>1. \A i \in 1..Len(s) : s[i].n \in Nat
    BY FrameNumbers
  <1>. QED  BY <1>1 DEF Uncancelled

---------------------------------------------------------------------------
LEMMA InitAcks == Init => AckInv
  BY DEF Init, AckInv

LEMMA SameAcks ==
    ASSUME AckInv, UNCHANGED <<Buffers, sock, link>>,
           rpc' = rpc \/ (rpc # "probe" /\ rpc' # "probe")
    PROVE  AckInv'
  <1>1. \A k \in Nat : Acknowledged(k) => Acknowledged(k)'
    BY DEF Acknowledged, Buffers
  <1>. QED  BY <1>1 DEF AckInv

\* What SendFrame() leaves at the end of the wire.
LEMMA LastSent ==
    ASSUME PiTypes, sock # None, NEW op \in Ops, NEW f \in AnyFrame, SendFrame(op, f),
           NEW len, len = Len(sock.toServer)
    PROVE  /\ sock'.sent = sock.sent /\ sock'.got = sock.got
           /\ Len(sock'.toServer) = len + 1
           /\ \A p \in 1..len : sock'.toServer[p] = sock.toServer[p]
           /\ sock'.toServer[len + 1].op = op /\ sock'.toServer[len + 1].of = f
  <1>1. PICK m : m = [op |-> op, of |-> f]
    OBVIOUS
  <1>2. m.op = op /\ m.of = f
    BY <1>1
  <1>3. /\ sock'.sent = sock.sent /\ sock'.got = sock.got
        /\ Len(sock'.toServer) = len + 1
        /\ \A p \in 1..len : sock'.toServer[p] = sock.toServer[p]
        /\ sock'.toServer[len + 1] = m
    BY <1>1, WireGrows
  <1>. QED  BY <1>2, <1>3

LEMMA BindAcks ==
    ASSUME ~BindAcross, PiTypes, AckInv, Bind
    PROVE  AckInv'
  <1>1. rpc # "probe" /\ UNCHANGED <<link, rpc, buf, pendingHold>>
    BY DEF Bind, readerVars
  <1>2. CASE offers = <<>>
    BY <1>1, <1>2, SameAcks DEF Bind, Buffers
  <1>3. CASE offers # <<>> /\ sock = None
    <2>1. sock' = None
      BY <1>3, BindEffect, SendTypes
    <2>. QED  BY <2>1 DEF AckInv
  <1>4. CASE offers # <<>> /\ sock # None
    <2>1. PICK k \in Nat : Acknowledged(k)
      BY <1>1, <1>4 DEF AckInv
    <2>2. PICK f : f = Head(offers)
      OBVIOUS
    <2>3. /\ f \in AnyFrame /\ f = offers[1] /\ 1 \in 1..Len(offers)
          /\ offers' = Tail(offers) /\ SendFrame("offer", f) /\ "offer" \in Ops
      BY <1>4, <2>2, BindEffect, HeadTail DEF PiTypes
    <2>4. PICK n \in Nat : n = f.n
      BY <2>3 DEF AnyFrame
    <2>5. n <= k /\ \A j \in n..k : sock.sent[j].op # "cancel"
      BY <2>1, <2>3, <2>4 DEF Acknowledged, Uncancelled
    <2>6. CancelsIn(sock.sent, k) = CancelsIn(sock.sent, n - 1)
      BY <2>5, CancelsBefore
    <2>7. link = "FRAMED"
      BY <1>4, <2>1 DEF Acknowledged
    <2>8. PICK len \in Nat : len = Len(sock.toServer)
      BY <1>4, <2>3, WireGrows
    <2>9. /\ sock'.sent = sock.sent /\ sock'.got = sock.got
          /\ Len(sock'.toServer) = len + 1
          /\ \A p \in 1..len : sock'.toServer[p] = sock.toServer[p]
          /\ sock'.toServer[len + 1].op = "offer" /\ sock'.toServer[len + 1].of = f
      BY <1>4, <2>3, <2>8, LastSent
    <2>10. Counted(sock'.toServer, sock'.sent)
      <3>1. Cardinality(AcksIn(sock.toServer, len))
              = Cardinality(CancelsIn(sock.sent, sock'.toServer[len + 1].of.n - 1))
        BY <2>1, <2>4, <2>6, <2>7, <2>8, <2>9 DEF Acknowledged
      <3>2. Counted(sock.toServer, sock.sent)
        BY <2>1 DEF Acknowledged
      <3>. QED  BY <2>8, <2>9, <3>1, <3>2, CountedNext
    <2>11. AcksIn(sock'.toServer, len + 1) = AcksIn(sock.toServer, len)
      BY <2>9, AcksNext
    <2>12. Uncancelled(offers', sock.sent, k)
      <3>1. \A i \in 1..Len(offers') : i + 1 \in 1..Len(offers) /\ offers'[i] = offers[i + 1]
        <4>1. offers \in Seq(AnyFrame) /\ offers' = Tail(offers)
          BY <2>3 DEF PiTypes
        <4>. QED  BY <1>4, <4>1
      <3>. QED  BY <2>1, <3>1 DEF Acknowledged, Uncancelled
    <2>13. Acknowledged(k)'
      BY <1>1, <2>1, <2>7, <2>8, <2>9, <2>10, <2>11, <2>12 DEF Acknowledged
    <2>. QED  BY <1>1, <2>13 DEF AckInv
  <1>. QED  BY <1>2, <1>3, <1>4

\* Handling a frame that is no cancel, on a greeted connection.
LEMMA NoCancelAcks ==
    ASSUME PiTypes, NEW k \in Nat, Acknowledged(k), link = "FRAMED",
           link' = link, sock' = sock, sock.got = k + 1 + Len(buf'),
           \A i \in 1..Len(buf') : buf'[i] = sock.sent[k + 1 + i],
           sock.sent[k + 1].op # "cancel",
           \A i \in 1..Len(offers') : \/ \E j \in 1..Len(offers) : offers'[i] = offers[j]
                                      \/ \E j \in 1..Len(pendingHold) : offers'[i] = pendingHold[j]
                                      \/ offers'[i].n = k + 1,
           \A i \in 1..Len(pendingHold') :
               \/ \E j \in 1..Len(pendingHold) : pendingHold'[i] = pendingHold[j]
               \/ pendingHold'[i].n = k + 1
    PROVE  Acknowledged(k + 1)'
  <1>1. PICK m \in Nat : m = k + 1
    OBVIOUS
  <1>2. CancelsIn(sock.sent, m) = CancelsIn(sock.sent, k)
    BY <1>1, CancelsNext
  <1>3. Uncancelled(offers, sock.sent, m) /\ Uncancelled(pendingHold, sock.sent, m)
    BY <1>1, UncancelledNext DEF Acknowledged, PiTypes
  <1>4. \A f : f.n = m => f.n \in 1..m /\ \A j \in f.n..m : sock.sent[j].op # "cancel"
    BY <1>1
  <1>5. Uncancelled(offers', sock.sent, m)
    BY <1>1, <1>3, <1>4 DEF Uncancelled
  <1>6. Uncancelled(pendingHold', sock.sent, m)
    BY <1>1, <1>3, <1>4 DEF Uncancelled
  <1>7. m > 0 /\ sock.got = m + Len(buf') /\ \A i \in 1..Len(buf') : buf'[i] = sock.sent[m + i]
    BY <1>1
  <1>8. Acknowledged(m)'
    BY <1>2, <1>5, <1>6, <1>7 DEF Acknowledged
  <1>. QED  BY <1>1, <1>8

\* The buffer starts with the frame that is next.
LEMMA NextFrame ==
    ASSUME PiTypes, Handle, buf # <<>>, sock # None, AnswerInv, NEW k \in Nat, Acknowledged(k),
           NEW m \in Nat, m = k + 1
    PROVE  /\ Head(buf) = sock.sent[m] /\ Head(buf).n = m /\ Head(buf) \in AnyFrame
           /\ sock.got = m + Len(buf')
           /\ \A i \in 1..Len(buf') : buf'[i] = sock.sent[m + i]
  <1>1. /\ Len(buf) \in Nat \ {0} /\ Head(buf) = buf[1] /\ Head(buf) \in AnyFrame
        /\ Len(buf') = Len(buf) - 1
        /\ \A i \in 1..Len(buf') : i + 1 \in 1..Len(buf) /\ buf'[i] = buf[i + 1]
    <2>1. buf' = Tail(buf) /\ buf \in Seq(AnyFrame)
      BY HandleNext DEF PiTypes
    <2>2. Len(buf) \in Nat \ {0} /\ Head(buf) = buf[1] /\ Head(buf) \in AnyFrame
      BY <2>1, HeadTail
    <2>3. Len(buf') = Len(buf) - 1 /\ \A i \in 1..Len(buf') : buf'[i] = buf[i + 1]
      BY <2>1
    <2>. QED  BY <2>2, <2>3
  <1>2. sock.got = k + Len(buf) /\ \A i \in 1..Len(buf) : buf[i] = sock.sent[k + i]
    BY DEF Acknowledged
  <1>3. Head(buf) = sock.sent[m]
    BY <1>1, <1>2
  <1>4. ASSUME NEW i \in 1..Len(buf') PROVE buf'[i] = sock.sent[m + i]
    <2>1. k + (i + 1) = m + i /\ i + 1 \in 1..Len(buf)
      BY <1>1
    <2>. QED  BY <1>1, <1>2, <2>1
  <1>5. sock.got = m + Len(buf')
    BY <1>1, <1>2
  <1>6. Head(buf).n = m
    <2>1. /\ sock \in Connection /\ sock.got <= Len(sock.sent)
          /\ \A i \in 1..Len(sock.sent) : sock.sent[i].n = i
      BY DEF PiTypes, AnswerInv, Received
    <2>2. Len(sock.sent) \in Nat /\ Len(buf') \in Nat
      BY <1>1, <2>1 DEF Connection
    <2>3. m \in 1..Len(sock.sent)
      BY <1>5, <2>1, <2>2
    <2>4. sock.sent[m].n = m
      BY <2>1, <2>3
    <2>. QED  BY <1>3, <2>4
  <1>. QED  BY <1>1, <1>3, <1>4, <1>5, <1>6

\* A cancel forgets what is offered, and is acknowledged.
LEMMA CancelAcks ==
    ASSUME PiTypes, Handle, buf # <<>>, sock # None, AnswerInv, NEW k \in Nat, Acknowledged(k),
           link = "FRAMED", Head(buf).op = "cancel", Cancel
    PROVE  \E m \in Nat : Acknowledged(m)'
  <1>1. PICK m \in Nat : m = k + 1
    OBVIOUS
  <1>2. /\ Head(buf) = sock.sent[m] /\ Head(buf) \in AnyFrame /\ sock.got = m + Len(buf')
        /\ \A i \in 1..Len(buf') : buf'[i] = sock.sent[m + i]
    BY <1>1, NextFrame
  <1>3. offers' = <<>> /\ pendingHold' = <<>> /\ link' = link /\ SendFrame("cancel", Head(buf))
        /\ "cancel" \in Ops
    BY DEF Cancel, Ops
  <1>4. PICK len \in Nat : len = Len(sock.toServer)
    BY <1>2, <1>3, WireGrows
  <1>5. /\ sock'.sent = sock.sent /\ sock'.got = sock.got /\ Len(sock'.toServer) = len + 1
        /\ \A p \in 1..len : sock'.toServer[p] = sock.toServer[p]
        /\ sock'.toServer[len + 1].op = "cancel"
    BY <1>2, <1>3, <1>4, LastSent
  <1>6. /\ k > 0 /\ Counted(sock.toServer, sock.sent)
        /\ Cardinality(AcksIn(sock.toServer, len)) = Cardinality(CancelsIn(sock.sent, k))
    BY <1>4 DEF Acknowledged
  <1>7. Cardinality(AcksIn(sock'.toServer, len + 1)) = Cardinality(AcksIn(sock.toServer, len)) + 1
    BY <1>5, AcksNext
  <1>8. Cardinality(CancelsIn(sock.sent, m)) = Cardinality(CancelsIn(sock.sent, k)) + 1
    BY <1>1, <1>2, <1>6, CancelsNext
  <1>9. Counted(sock'.toServer, sock'.sent)
    <2>1. PICK wire, more, sent :
            wire = sock.toServer /\ more = sock'.toServer /\ sent = sock.sent
      OBVIOUS
    <2>2. /\ Len(wire) = len /\ Len(more) = len + 1 /\ Counted(wire, sent)
          /\ \A i \in 1..len : more[i] = wire[i]
          /\ more[len + 1].op # "offer"
      BY <1>4, <1>5, <1>6, <2>1
    <2>3. Counted(more, sent)
      BY <2>2, CountedNext
    <2>. QED  BY <1>5, <2>1, <2>3
  <1>10. m > 0 /\ Uncancelled(<<>>, sock.sent, m)
    BY <1>1 DEF Uncancelled
  <1>11. Acknowledged(m)'
    BY <1>2, <1>3, <1>4, <1>5, <1>6, <1>7, <1>8, <1>9, <1>10 DEF Acknowledged
  <1>. QED  BY <1>11

\* The first frame: what was sent is the answer to the greeting, or nothing.
LEMMA GreetAcks ==
    ASSUME PiTypes, Handle, buf # <<>>, sock # None, AnswerInv, NEW k \in Nat, Acknowledged(k),
           link = "PROBING", Greet
    PROVE  \E m \in Nat : Acknowledged(m)'
  <1>1. k = 0 /\ sock.toServer = <<>> /\ offers = <<>> /\ pendingHold = <<>>
    BY DEF Acknowledged
  <1>2. PICK m \in Nat : m = k + 1 /\ m = 1
    BY <1>1
  <1>3. /\ Head(buf) \in AnyFrame /\ sock.got = m + Len(buf')
        /\ \A i \in 1..Len(buf') : buf'[i] = sock.sent[m + i]
    BY <1>2, NextFrame
  <1>4. UNCHANGED <<offers, pendingHold>>
    BY DEF Greet
  <1>5. Uncancelled(<<>>, sock.sent, m)
    BY DEF Uncancelled
  <1>6. CASE Head(buf).op = "hello"
    <2>1. link' = "FRAMED" /\ SendFrame("hello", Head(buf)) /\ "hello" \in Ops
      BY <1>6 DEF Greet, Ops
    <2>2. PICK len \in Nat : len = Len(sock.toServer) /\ len = 0
      BY <1>1
    <2>3. /\ sock'.sent = sock.sent /\ sock'.got = sock.got /\ Len(sock'.toServer) = len + 1
          /\ \A p \in 1..len : sock'.toServer[p] = sock.toServer[p]
          /\ sock'.toServer[len + 1].op = "hello"
      BY <1>3, <2>1, <2>2, LastSent
    <2>4. AcksIn(sock'.toServer, len + 1) = AcksIn(sock.toServer, len)
      BY <2>3, AcksNext
    <2>5. AcksIn(sock.toServer, len) = {} /\ CancelsIn(sock.sent, m) = {}
      BY <1>2, <2>2 DEF AcksIn, CancelsIn
    <2>6. Counted(sock.toServer, sock.sent)
      BY DEF Acknowledged
    <2>7. Counted(sock'.toServer, sock'.sent)
      BY <2>2, <2>3, <2>6, CountedNext
    <2>8. /\ sock'.sent = sock.sent /\ sock'.got = sock.got
          /\ Cardinality(AcksIn(sock'.toServer, Len(sock'.toServer)))
               = Cardinality(CancelsIn(sock.sent, m))
      BY <2>3, <2>4, <2>5
    <2>9. offers' = <<>> /\ pendingHold' = <<>> /\ m > 0 /\ link' = "FRAMED"
      BY <1>1, <1>2, <1>4, <2>1
    <2>10. Acknowledged(m)'
      BY <1>3, <1>5, <2>7, <2>8, <2>9 DEF Acknowledged
    <2>. QED  BY <2>10
  <1>7. CASE Head(buf).op # "hello"
    <2>1. link' = "INCOMPATIBLE" /\ sock' = sock
      BY <1>7 DEF Greet
    <2>2. Acknowledged(m)'
      BY <1>1, <1>3, <1>4, <1>5, <2>1 DEF Acknowledged
    <2>. QED  BY <2>2
  <1>. QED  BY <1>6, <1>7

LEMMA HandleAcks ==
    ASSUME PiTypes, AnswerInv, AckInv, Handle
    PROVE  AckInv'
  <1>1. rpc = "handle" /\ rpc' \in {"handle", "loop"}
    BY DEF Handle
  <1>2. CASE buf = <<>>
    <2>1. UNCHANGED <<offers, link, buf, pendingHold, sock>>
      BY <1>2 DEF Handle
    <2>. QED  BY <1>1, <2>1, SameAcks DEF Buffers
  <1>3. CASE buf # <<>> /\ sock = None
    <2>1. sock' = None
      BY <1>3, HandleSock, SendTypes DEF Ops
    <2>. QED  BY <2>1 DEF AckInv
  <1>4. CASE buf # <<>> /\ sock # None
    <2>1. PICK k \in Nat : Acknowledged(k)
      BY <1>1, <1>4 DEF AckInv
    <2>2. PICK m \in Nat : m = k + 1
      OBVIOUS
    <2>3. /\ Head(buf) = sock.sent[m] /\ Head(buf).n = m /\ sock.got = m + Len(buf')
          /\ \A i \in 1..Len(buf') : buf'[i] = sock.sent[m + i]
      BY <1>4, <2>1, <2>2, NextFrame
    <2>4. HandleFrame
      BY <1>4, HandleNext
    <2>5. CASE link = "PROBING" /\ Greet
      BY <1>1, <1>4, <2>1, <2>5, GreetAcks DEF AckInv
    <2>6. CASE link = "FRAMED" /\ Head(buf).op = "cancel" /\ Cancel
      BY <1>1, <1>4, <2>1, <2>6, CancelAcks DEF AckInv
    <2>7. ASSUME link = "FRAMED", Head(buf).op # "cancel", UNCHANGED <<link, sock>>,
                 \A i \in 1..Len(offers') :
                     \/ \E j \in 1..Len(offers) : offers'[i] = offers[j]
                     \/ \E j \in 1..Len(pendingHold) : offers'[i] = pendingHold[j]
                     \/ offers'[i].n = m,
                 \A i \in 1..Len(pendingHold') :
                     \/ \E j \in 1..Len(pendingHold) : pendingHold'[i] = pendingHold[j]
                     \/ pendingHold'[i].n = m
          PROVE  AckInv'
      <3>1. Acknowledged(k + 1)'
        BY <2>1, <2>2, <2>3, <2>7, NoCancelAcks
      <3>. QED  BY <1>1, <3>1 DEF AckInv
    <2>8. CASE link = "FRAMED" /\ Head(buf).op = "hold" /\ Hold
      <3>1. /\ offers' = offers /\ link' = link /\ sock' = sock
            /\ pendingHold' = Append(pendingHold, Head(buf)) /\ pendingHold \in Seq(AnyFrame)
        BY <2>8 DEF Hold, PiTypes
      <3>2. /\ Len(pendingHold') = Len(pendingHold) + 1 /\ Len(pendingHold) \in Nat
            /\ \A i \in 1..Len(pendingHold) : pendingHold'[i] = pendingHold[i]
            /\ pendingHold'[Len(pendingHold) + 1] = Head(buf)
        BY <3>1
      <3>3. \A i \in 1..Len(pendingHold') : i \in 1..Len(pendingHold) \/ i = Len(pendingHold) + 1
        BY <3>2
      <3>. QED  BY <2>3, <2>7, <2>8, <3>1, <3>2, <3>3
    <2>9. CASE link = "FRAMED" /\ Head(buf).op = "offer" /\ Offer
      <3>1. PICK a, b : a = Len(offers) /\ b = Len(pendingHold)
        OBVIOUS
      <3>2. a \in Nat /\ b \in Nat
        BY <3>1 DEF PiTypes
      <3>3. /\ Len(offers') = a + b + 1
            /\ \A i \in 1..a : offers'[i] = offers[i]
            /\ \A i \in 1..b : offers'[a + i] = pendingHold[i]
            /\ offers'[a + b + 1] = Head(buf)
        BY <1>4, <2>9, <3>1, OfferEffect
      <3>4. \A i \in 1..Len(offers') :
                i \in 1..a \/ i = a + b + 1 \/ (i - a \in 1..b /\ i = a + (i - a))
        BY <3>2, <3>3
      <3>5. pendingHold' = <<>> /\ UNCHANGED <<link, sock>>
        BY <2>9 DEF Offer
      <3>6. \A i \in 1..Len(offers') : \/ \E j \in 1..a : offers'[i] = offers[j]
                                       \/ \E j \in 1..b : offers'[i] = pendingHold[j]
                                       \/ offers'[i].n = m
        BY <2>3, <3>3, <3>4
      <3>. QED  BY <2>7, <2>9, <3>1, <3>5, <3>6
    <2>10. CASE link = "FRAMED" /\ Head(buf).op = "hello" /\ IgnoreFrame
      BY <2>7, <2>10 DEF IgnoreFrame
    <2>11. CASE link \notin {"PROBING", "FRAMED"} /\ IgnoreFrame
      <3>1. offers = <<>> /\ pendingHold = <<>> /\ UNCHANGED <<offers, link, pendingHold, sock>>
        BY <2>1, <2>11 DEF Acknowledged, IgnoreFrame
      <3>2. Uncancelled(<<>>, sock.sent, m)
        BY DEF Uncancelled
      <3>3. Acknowledged(m)'
        BY <2>1, <2>3, <2>11, <3>1, <3>2 DEF Acknowledged
      <3>. QED  BY <1>1, <3>3 DEF AckInv
    <2>. QED  BY <2>4, <2>5, <2>6, <2>8, <2>9, <2>10, <2>11 DEF HandleFrame
  <1>. QED  BY <1>2, <1>3, <1>4

\* What is received is not handled yet.
LEMMA RecvAcks ==
    ASSUME PiTypes, AnswerInv, AckInv, Recv
    PROVE  AckInv'
  <1>1. rpc = "polling" /\ buf = <<>> /\ rpc' # "probe" /\ UNCHANGED <<offers, link, pendingHold>>
    BY DEF Recv, AnswerInv, Received
  <1>2. CASE ~HasData
    BY <1>2 DEF Recv, AckInv
  <1>3. CASE HasData
    <2>1. /\ sock # None /\ sock'.sent = sock.sent /\ sock'.toServer = sock.toServer
          /\ sock'.got = Len(sock.sent) /\ Len(buf') = Len(sock.sent) - sock.got
          /\ \A i \in 1..Len(buf') : buf'[i] = sock.sent[sock.got + i]
      BY <1>3, RecvEffect
    <2>2. PICK k \in Nat : Acknowledged(k)
      BY <1>1, <2>1 DEF AckInv
    <2>3. PICK len \in Nat : len = Len(sock.sent)
      BY <1>3, RecvEffect DEF Connection
    <2>4. sock.got = k
      BY <1>1, <2>2 DEF Acknowledged
    <2>5. sock'.got = k + Len(buf') /\ \A i \in 1..Len(buf') : buf'[i] = sock'.sent[k + i]
      BY <2>1, <2>3, <2>4
    <2>6. Acknowledged(k)'
      BY <1>1, <2>1, <2>2, <2>5 DEF Acknowledged
    <2>. QED  BY <1>1, <2>6 DEF AckInv
  <1>. QED  BY <1>2, <1>3

\* What is known of the frames that were handled holds whatever arrives next.
LEMMA MoreSent ==
    ASSUME NEW sent, NEW more, NEW len \in Nat, \A i \in 1..len : more[i] = sent[i]
    PROVE  /\ \A k \in 0..len : CancelsIn(more, k) = CancelsIn(sent, k)
           /\ \A k \in 0..len : \A s : Uncancelled(s, sent, k) => Uncancelled(s, more, k)
           /\ \A wire : /\ Counted(wire, sent)
                        /\ \A p \in 1..Len(wire) :
                             wire[p].op = "offer" => wire[p].of.n \in Nat /\ wire[p].of.n <= len
                        => Counted(wire, more)
  <1>1. \A k \in Int : k <= len => CancelsIn(more, k) = CancelsIn(sent, k)
    <2>1. ASSUME NEW k \in Int, k <= len PROVE CancelsIn(more, k) = CancelsIn(sent, k)
      <3>1. \A i \in 1..k : more[i] = sent[i]
        BY <2>1
      <3>. QED  BY <3>1, CancelsSame
    <2>. QED  BY <2>1
  <1>2. ASSUME NEW k \in 0..len, NEW s, Uncancelled(s, sent, k)
        PROVE  Uncancelled(s, more, k)
    BY <1>2 DEF Uncancelled
  <1>3. ASSUME NEW wire, Counted(wire, sent),
               \A p \in 1..Len(wire) :
                 wire[p].op = "offer" => wire[p].of.n \in Nat /\ wire[p].of.n <= len
        PROVE  Counted(wire, more)
    <2>1. ASSUME NEW p \in 1..Len(wire), wire[p].op = "offer"
          PROVE  CancelsIn(more, wire[p].of.n - 1) = CancelsIn(sent, wire[p].of.n - 1)
      <3>1. PICK n \in Nat : n = wire[p].of.n /\ n <= len
        BY <1>3, <2>1
      <3>2. n - 1 \in Int /\ n - 1 <= len
        BY <3>1
      <3>. QED  BY <1>1, <3>1, <3>2
    <2>. QED  BY <1>3, <2>1 DEF Counted
  <1>. QED  BY <1>1, <1>2, <1>3

LEMMA ServerAcks ==
    ASSUME PiTypes, AnswerInv, AckInv, Server
    PROVE  AckInv'
  <1>1. UNCHANGED <<Buffers, link, rpc>>
    BY DEF Server, ServerSend, ServerClose, readerVars, Buffers
  <1>2. /\ sock # None /\ sock \in Connection /\ sock'.got = sock.got
        /\ sock'.toServer = sock.toServer
    BY ServerEffect
  <1>3. CASE rpc = "probe"
    BY <1>1, <1>2, <1>3 DEF AckInv
  <1>4. CASE rpc # "probe"
    <2>1. PICK k \in Nat : Acknowledged(k)
      BY <1>2, <1>4 DEF AckInv
    <2>2. /\ sock.sent \in Seq(AnyFrame) /\ Len(sock.sent) \in Nat /\ sock.got \in Nat
          /\ sock.got <= Len(sock.sent) /\ Len(buf) \in Nat /\ Replied
      BY <1>2, <1>4 DEF Connection, AnswerInv, Received, PiTypes
    <2>3. PICK len \in Nat : len = Len(sock.sent)
      BY <2>2
    <2>4. \A i \in 1..len : sock'.sent[i] = sock.sent[i]
      <3>1. CASE sock'.sent = sock.sent
        BY <3>1
      <3>2. CASE \E f \in AnyFrame : sock'.sent = Append(sock.sent, f)
        BY <2>2, <2>3, <3>2
      <3>. QED  BY <3>1, <3>2, ServerEffect
    <2>5. sock.got = k + Len(buf) /\ k \in 0..len
      BY <2>1, <2>2, <2>3 DEF Acknowledged
    <2>6. \A p \in 1..Len(sock.toServer) : sock.toServer[p].op = "offer" =>
             sock.toServer[p].of.n \in Nat /\ sock.toServer[p].of.n <= len
      <3>1. ASSUME NEW p \in 1..Len(sock.toServer), sock.toServer[p].op = "offer"
            PROVE  sock.toServer[p].of.n \in Nat /\ sock.toServer[p].of.n <= len
        <4>1. sock.toServer[p].of.n \in Nat
          BY <1>2, ReplyNumbers
        <4>2. sock.toServer[p].of.n <= sock.got
          BY <2>2, <3>1 DEF Replied, Reply
        <4>3. PICK n, got : n = sock.toServer[p].of.n /\ got = sock.got
          OBVIOUS
        <4>4. n \in Nat /\ got \in Nat /\ n <= got /\ got <= len
          BY <2>2, <2>3, <4>1, <4>2, <4>3
        <4>5. n <= len
          BY <4>4
        <4>. QED  BY <4>3, <4>4, <4>5
      <3>. QED  BY <3>1
    <2>7. PICK sent, more, wire :
            sent = sock.sent /\ more = sock'.sent /\ wire = sock.toServer
      OBVIOUS
    <2>8. Uncancelled(offers, sent, k) /\ Uncancelled(pendingHold, sent, k) /\ Counted(wire, sent)
      BY <2>1, <2>7 DEF Acknowledged
    <2>9. \A i \in 1..len : more[i] = sent[i]
      BY <2>4, <2>7
    <2>10. CancelsIn(more, k) = CancelsIn(sent, k)
      BY <2>5, <2>9, MoreSent
    <2>11. Uncancelled(offers, more, k) /\ Uncancelled(pendingHold, more, k)
      BY <2>5, <2>8, <2>9, MoreSent
    <2>12. Counted(wire, more)
      BY <2>6, <2>7, <2>8, <2>9, MoreSent
    <2>13. \A i \in 1..Len(buf) : buf[i] = more[k + i]
      <3>1. ASSUME NEW i \in 1..Len(buf) PROVE buf[i] = more[k + i]
        <4>1. buf[i] = sent[k + i]
          BY <2>1, <2>7 DEF Acknowledged
        <4>2. k + i \in 1..len
          BY <2>2, <2>3, <2>5
        <4>. QED  BY <2>9, <4>1, <4>2
      <3>. QED  BY <3>1
    <2>14. Acknowledged(k)'
      BY <1>1, <1>2, <2>1, <2>7, <2>10, <2>11, <2>12, <2>13 DEF Acknowledged, Buffers
    <2>. QED  BY <1>1, <1>4, <2>14 DEF AckInv
  <1>. QED  BY <1>3, <1>4

\* A new connection: no frame of it has been handled.
LEMMA NewAcks ==
    ASSUME PiTypes, AnswerInv, AckInv, Adopt \/ Probe
    PROVE  AckInv'
  <1>1. CASE Adopt
    <2>1. CASE rpc' = "probe" /\ sock' = NewConnection
      BY <2>1 DEF AckInv, NewConnection
    <2>2. CASE UNCHANGED sock /\ rpc' = "loop"
      BY <1>1, <2>2, SameAcks DEF Adopt, Buffers
    <2>. QED  BY <1>1, <2>1, <2>2 DEF Adopt
  <1>2. CASE Probe
    <2>1. /\ rpc = "probe" /\ rpc' = "poll" /\ link' = "PROBING"
          /\ offers' = <<>> /\ pendingHold' = <<>> /\ UNCHANGED <<sock, buf>>
      BY <1>2 DEF Probe
    <2>2. CASE sock = None
      BY <2>1, <2>2 DEF AckInv
    <2>3. CASE sock # None
      <3>1. sock.got = 0 /\ buf = <<>> /\ sock.toServer = <<>>
        BY <2>1, <2>3 DEF AckInv, AnswerInv, Received
      <3>2. Uncancelled(<<>>, sock.sent, 0) /\ Counted(<<>>, sock.sent)
        BY DEF Uncancelled, Counted
      <3>3. Acknowledged(0)'
        BY <2>1, <3>1, <3>2 DEF Acknowledged
      <3>. QED  BY <2>1, <3>3 DEF AckInv
    <2>. QED  BY <2>2, <2>3
  <1>. QED  BY <1>1, <1>2

LEMMA StepAcks == ~BindAcross /\ PiTypes /\ AnswerInv /\ AckInv /\ [Next]_vars => AckInv'
  <1> SUFFICES ASSUME ~BindAcross, PiTypes, AnswerInv, AckInv, [Next]_vars PROVE AckInv'
    OBVIOUS
  <1>1. ASSUME UNCHANGED <<offers, pendingHold, buf, sock, link, rpc>> PROVE AckInv'
    BY <1>1, SameAcks DEF Buffers
  <1>2. ASSUME sock' = None PROVE AckInv'
    BY <1>2 DEF AckInv
  <1>3. CASE Emulation
    <2>1. ASSUME NEW a \in Accesses, Access(a) PROVE AckInv'
      BY <1>1, <2>1 DEF Access, shared, readerVars
    <2>2. CASE TryBind \/ Port \/ Stall \/ InterfaceReset \/ SetWaitMode
      BY <1>1, <2>2 DEF TryBind, Port, Stall, InterfaceReset, SetWaitMode, shared, readerVars
    <2>3. CASE ChangePort
      BY <1>1, <2>3 DEF ChangePort, readerVars
    <2>4. CASE PortChanged
      BY <1>2, <2>4 DEF PortChanged
    <2>. QED  BY <1>3, <2>1, <2>2, <2>3, <2>4, BindAcks DEF Emulation
  <1>4. CASE ReadLoop
    <2>1. CASE Loop
      <3>1. CASE sock = None
        BY <1>2, <2>1, <3>1 DEF Loop
      <3>2. CASE sock # None
        BY <2>1, <3>2, SameAcks DEF Loop, Buffers
      <3>. QED  BY <3>1, <3>2
    <2>2. CASE Connect \/ Poll
      BY <2>2, SameAcks DEF Connect, Poll, Buffers
    <2>. QED  BY <1>4, <2>1, <2>2, NewAcks, RecvAcks, HandleAcks DEF ReadLoop
  <1>5. CASE UNCHANGED vars
    BY <1>1, <1>5 DEF vars, shared, readerVars
  <1>. QED  BY <1>3, <1>4, <1>5, ServerAcks DEF Next

\* For any number of connections and frames: as long as no byte is bound while
\* the reader changes connections, the acknowledgements that go out before the
\* reply to an offer are as many as the cancels that the server sent before that
\* offer: once a cancel is acknowledged, no offer before it is replied to.
THEOREM CancelsAreAnsweredFirst == ~BindAcross => (Spec => []CancelSeparates)
  <1> SUFFICES ASSUME ~BindAcross PROVE Spec => []CancelSeparates
    OBVIOUS
  <1> DEFINE Inv == PiTypes /\ AnswerInv /\ AckInv
  <1>1. Init => Inv
    BY InitPiTypes, InitAnswers, InitAcks
  <1>2. Inv /\ [Next]_vars => Inv'
    BY StepPiTypes, StepAnswers, StepAcks
  <1>3. Inv => CancelSeparates
    <2> SUFFICES ASSUME PiTypes, AnswerInv, AckInv, sock # None PROVE CancelSeparates
      BY DEF CancelSeparates
    <2>1. sock.toServer \in Seq([op : Ops, of : AnyFrame])
      BY DEF PiTypes, Connection
    <2>2. DOMAIN sock.toServer = 1..Len(sock.toServer)
      BY <2>1
    <2>3. Counted(sock.toServer, sock.sent)
      <3>1. CASE rpc = "probe"
        <4>1. sock.toServer = <<>>
          BY <3>1 DEF AnswerInv, Received
        <4>. QED  BY <4>1 DEF Counted
      <3>2. CASE rpc # "probe"
        BY <3>2 DEF AckInv, Acknowledged
      <3>. QED  BY <3>1, <3>2
    <2>. QED  BY <2>2, <2>3, Zenon DEF CancelSeparates, Counted, AcksIn, CancelsIn
  <1>. HIDE DEF Inv
  <1>. QED  BY <1>1, <1>2, <1>3, PTL DEF Spec
=============================================================================
