------------------------- MODULE CliConnectionProofs -------------------------
(* For any number of clients, commands and messages: each client gets the    *)
(* replies to its own commands in their order, and what is written to it is  *)
(* one element.                                                              *)
EXTENDS CliConnection, FiniteSetTheorems, SequenceTheorems, TLAPS

Lives  == {"none", "made", "listener", "ending", "gone"}
Written == {"open", "close", "log", "reply"} \X Nat
Client == [up : BOOLEAN, sent : Nat, inbox : Seq(Nat), said : Seq(Written)]
Object == [life : Lives, sd : BOOLEAN, established : BOOLEAN, aborted : BOOLEAN]

Queued == [conn : Conns, n : Nat]

CliTypes ==
    /\ client \in [Conns -> Client]
    /\ obj \in [Conns -> Object]
    /\ rpc \in [Conns -> {"none", "start", "tag", "top", "recv", "parse", "ended"}]
    /\ events \in Seq(Queued)
    /\ job \in Queued
    /\ look \subseteq Clients

\* The destructors of main() run: nothing is executed or logged any more.
Ending == mpc \in {"destroy", "gone"}

\* What the state of a connection says of its thread, and that it only breaks
\* when its client has gone.
LifeInv(c) ==
    /\ obj[c].life \in {"none", "made"} =>
         rpc[c] = "none" /\ obj[c].sd /\ ~obj[c].established /\ ~obj[c].aborted
    /\ rpc[c] \in {"tag", "top", "recv", "parse", "ended"} => obj[c].established
    /\ ~obj[c].sd \/ obj[c].aborted \/ obj[c].life \in {"ending", "gone"} =>
         ~client[c].up \/ Ending
    /\ rpc[c] = "recv" /\ client[c].inbox = <<>> => ~client[c].up
    /\ c = Stdio => obj[c].established /\ obj[c].sd /\ rpc[c] \notin {"start", "tag"}

\* Commands of c that were parsed, are queued, and is executed.
Read(c)      == client[c].sent - Len(client[c].inbox)
Executing(c) == mpc = "execute" /\ job.conn = c

\* The commands of c that are queued are from..to, in this order.
QueuedAre(queue, c, from, to) ==
    LET Own == {i \in DOMAIN queue : queue[i].conn = c}
    IN  /\ \A i, j \in Own : i < j => queue[i].n < queue[j].n
        /\ \A i \in Own : queue[i].n \in from..to
        /\ \A n \in from..to : \E i \in Own : queue[i].n = n

\* The b-th command of c was the last one that was executed or dropped.
Handed(c, b) ==
    /\ QueuedAre(events, c, b + 1, Read(c))
    /\ Executing(c) => job.n = b /\ b > 0
    /\ Cardinality(Replies(c)) <= b
    /\ client[c].up /\ ~Ending =>
         Cardinality(Replies(c)) = IF Executing(c) THEN b - 1 ELSE b

AnswerInv(c) ==
    /\ Read(c) \in Nat
    /\ \A i \in DOMAIN client[c].inbox : client[c].inbox[i] = Read(c) + i
    /\ Read(c) > 0 => rpc[c] \in {"top", "recv", "parse", "ended"}
    /\ \E b \in 0..Read(c) : Handed(c, b)
    /\ Numbered(client[c].said)

\* The opening tag is there when anything else may be written, and nothing can
\* be written when the closing tag is.
Element(said) ==
    \A i \in DOMAIN said : /\ said[i] = Tag("open") <=> i = 1
                           /\ said[i] = Tag("close") => i = Len(said)
Closed(said) == \E i \in DOMAIN said : said[i] = Tag("close")

ElementInv(c) ==
    /\ Element(client[c].said)
    /\ rpc[c] \in {"none", "start", "tag"} /\ c # Stdio => client[c].said = <<>>
    /\ Writes(obj, c) /\ client[c].up /\ rpc[c] # "tag" => client[c].said # <<>>
    /\ Closed(client[c].said) =>
         IF c = Stdio THEN Ending /\ obj[c].life \in {"ending", "gone"} ELSE ~obj[c].sd

---------------------------------------------------------------------------
\* What is written, and the replies in it.

LEMMA RepliesFinite ==
    ASSUME NEW said \in Seq(Written)
    PROVE  /\ IsFiniteSet(RepliesIn(said)) /\ RepliesIn(said) \subseteq 1..Len(said)
           /\ Cardinality(RepliesIn(said)) \in Nat
  <1>1. RepliesIn(said) \subseteq 1..Len(said)
    BY DEF RepliesIn
  <1>2. IsFiniteSet(1..Len(said))
    BY FS_Interval
  <1>. QED  BY <1>1, <1>2, FS_Subset, FS_CardinalityType

\* Tags and messages of the log are no replies.
LEMMA OtherSaid ==
    ASSUME NEW said \in Seq(Written), NEW m \in Written, m[1] # "reply"
    PROVE  /\ RepliesIn(Append(said, m)) = RepliesIn(said)
           /\ Numbered(said) => Numbered(Append(said, m))
  <1>1. RepliesIn(Append(said, m)) = RepliesIn(said)
    BY DEF RepliesIn
  <1>2. \A i \in RepliesIn(said) : Append(said, m)[i] = said[i]
    BY DEF RepliesIn
  <1>. QED  BY <1>1, <1>2 DEF Numbered

LEMMA ReplySaid ==
    ASSUME NEW said \in Seq(Written), NEW n \in Nat
    PROVE  LET after == Append(said, <<"reply", n>>)
           IN  /\ Cardinality(RepliesIn(after)) = Cardinality(RepliesIn(said)) + 1
               /\ Numbered(said) /\ n = Cardinality(RepliesIn(said)) + 1 => Numbered(after)
  <1>. DEFINE after == Append(said, <<"reply", n>>)
              last == Len(said) + 1
  <1>1. /\ RepliesIn(after) = RepliesIn(said) \cup {last}
        /\ \A i \in RepliesIn(said) : after[i] = said[i] /\ i <= Len(said) /\ i \in Nat
        /\ after[last][2] = n
    BY DEF RepliesIn
  <1>2. last \notin RepliesIn(said) /\ last \in Nat
    BY RepliesFinite
  <1>3. Cardinality(RepliesIn(after)) = Cardinality(RepliesIn(said)) + 1
    BY <1>1, <1>2, RepliesFinite, FS_AddElement
  <1>4. ASSUME Numbered(said), n = Cardinality(RepliesIn(said)) + 1
        PROVE  Numbered(after)
    <2>1. ASSUME NEW i \in RepliesIn(said)
          PROVE  after[i][2] = Cardinality({j \in RepliesIn(after) : j <= i})
      <3>1. {j \in RepliesIn(after) : j <= i} = {j \in RepliesIn(said) : j <= i}
        BY <1>1, <2>1
      <3>2. said[i][2] = Cardinality({j \in RepliesIn(said) : j <= i})
        BY <1>4, <2>1, Zenon DEF Numbered
      <3>3. after[i] = said[i]
        BY <1>1, <2>1
      <3>. QED  BY <3>1, <3>2, <3>3, Zenon
    <2>2. {j \in RepliesIn(after) : j <= last} = RepliesIn(after)
      BY <1>1, <1>2
    <2>. QED  BY <1>1, <1>3, <1>4, <2>1, <2>2 DEF Numbered
  <1>. QED  BY <1>3, <1>4

---------------------------------------------------------------------------
\* What the operators that write leave behind.

LEMMA ClientSaid ==
    ASSUME NEW cl \in Client, NEW m \in Written
    PROVE  LET after == [cl EXCEPT !.said = Append(@, m)]
           IN  /\ after \in Client /\ after.said = Append(cl.said, m)
               /\ after.up = cl.up /\ after.sent = cl.sent /\ after.inbox = cl.inbox
  <1>1. cl.said \in Seq(Written)
    BY DEF Client
  <1>2. Append(cl.said, m) \in Seq(Written)
    BY <1>1, AppendProperties
  <1>. QED  BY <1>2 DEF Client

LEMMA OutputsEffect ==
    ASSUME CliTypes, NEW cs, NEW m \in Written, Outputs(cs, obj, m)
    PROVE  /\ client' \in [Conns -> Client] /\ obj' \in [Conns -> Object]
           /\ \A c \in Conns :
                /\ client'[c] = IF c \in cs /\ Writes(obj, c) /\ client[c].up
                                THEN [client[c] EXCEPT !.said = Append(@, m)] ELSE client[c]
                /\ obj'[c].life = obj[c].life /\ obj'[c].established = obj[c].established
                /\ \/ obj'[c] = obj[c]
                   \/ /\ c # Stdio /\ obj[c].established /\ ~client[c].up
                      /\ ~obj'[c].sd /\ obj'[c].aborted
  <1>1. PICK failing \in SUBSET {c \in cs \ {Stdio} : Writes(obj, c) /\ ~client[c].up} :
          obj' = [c \in Conns |->
            IF c \in failing THEN [obj[c] EXCEPT !.sd = FALSE, !.aborted = TRUE] ELSE obj[c]]
    BY DEF Outputs
  <1>2. client' = [c \in Conns |->
          IF c \in cs /\ Writes(obj, c) /\ client[c].up
          THEN [client[c] EXCEPT !.said = Append(@, m)] ELSE client[c]]
    BY DEF Outputs
  <1>3. ASSUME NEW c \in Conns
        PROVE  [client[c] EXCEPT !.said = Append(@, m)] \in Client
    BY <1>3, ClientSaid DEF CliTypes
  <1>4. client' \in [Conns -> Client]
    BY <1>2, <1>3 DEF CliTypes
  <1>5. obj' \in [Conns -> Object]
    BY <1>1 DEF CliTypes, Object
  <1>6. ASSUME NEW c \in Conns
        PROVE  /\ obj'[c].life = obj[c].life /\ obj'[c].established = obj[c].established
               /\ \/ obj'[c] = obj[c]
                  \/ /\ c # Stdio /\ obj[c].established /\ ~client[c].up
                     /\ ~obj'[c].sd /\ obj'[c].aborted
    BY <1>1 DEF CliTypes, Object, Writes
  <1>. QED  BY <1>2, <1>4, <1>5, <1>6

LEMMA EndEffect ==
    ASSUME CliTypes, NEW c \in Conns, End(c)
    PROVE  /\ client' \in [Conns -> Client] /\ obj' \in [Conns -> Object]
           /\ client'[c] = IF Writes(obj, c) /\ client[c].up
                           THEN [client[c] EXCEPT !.said = Append(@, Tag("close"))]
                           ELSE client[c]
           /\ obj'[c] = [obj[c] EXCEPT !.life = "ending", !.aborted = TRUE, !.sd = (c = Stdio)]
           /\ \A d \in Conns \ {c} : client'[d] = client[d] /\ obj'[d] = obj[d]
  <1>1. obj' = [obj EXCEPT ![c] = [obj[c] EXCEPT !.life = "ending", !.aborted = TRUE,
                                               !.sd = (c = Stdio)]]
    BY DEF End, Ended, CliTypes
  <1>2. /\ obj' \in [Conns -> Object]
        /\ obj'[c] = [obj[c] EXCEPT !.life = "ending", !.aborted = TRUE, !.sd = (c = Stdio)]
        /\ \A d \in Conns \ {c} : obj'[d] = obj[d]
    <2>. DEFINE last == [obj[c] EXCEPT !.life = "ending", !.aborted = TRUE, !.sd = (c = Stdio)]
    <2>1. obj \in [Conns -> Object] /\ obj[c] \in Object
      BY DEF CliTypes
    <2>2. last \in Object
      BY <2>1 DEF Object, Lives
    <2>3. obj' = [obj EXCEPT ![c] = last]
      BY <1>1
    <2>. HIDE DEF last
    <2>4. obj' \in [Conns -> Object] /\ obj'[c] = last /\ \A d \in Conns \ {c} : obj'[d] = obj[d]
      BY <2>1, <2>2, <2>3
    <2>. QED  BY <2>4 DEF last
  <1>3. Tag("close") \in Written
    BY DEF Tag, Written
  <1>4. client[c] \in Client /\ [client[c] EXCEPT !.said = Append(@, Tag("close"))] \in Client
    BY <1>3, ClientSaid DEF CliTypes
  <1>5. CASE Writes(obj, c) /\ client[c].up
    <2>1. client' = [client EXCEPT ![c] = [client[c] EXCEPT !.said = Append(@, Tag("close"))]]
      BY <1>5 DEF End, CliTypes
    <2>. QED  BY <1>2, <1>4, <1>5, <2>1 DEF CliTypes
  <1>6. CASE ~(Writes(obj, c) /\ client[c].up)
    <2>1. client' = [client EXCEPT ![c] = client[c]]
      BY <1>6 DEF End, CliTypes, Client
    <2>. QED  BY <1>2, <1>4, <1>6, <2>1 DEF CliTypes
  <1>. QED  BY <1>5, <1>6

---------------------------------------------------------------------------
\* Types, and the exit, that is not taken back.

LEMMA TypesInit == ASSUME Init PROVE CliTypes
  <1>1. client \in [Conns -> Client]
    <2>1. <<Tag("open")>> \in Seq(Written) /\ <<>> \in Seq(Written) /\ <<>> \in Seq(Nat)
      BY DEF Tag, Written
    <2>. QED  BY <2>1 DEF Init, NewClient, Client
  <1>2. obj \in [Conns -> Object]
    BY DEF Init, NewObject, Object, Lives
  <1>3. job \in Queued
    BY DEF Init, NoJob, Conns, Queued
  <1>4. events \in Seq(Queued) /\ look \subseteq Clients /\ rpc \in [Conns -> {"none"}]
    BY DEF Init
  <1>. QED  BY <1>1, <1>2, <1>3, <1>4 DEF CliTypes

LEMMA TypesStep ==
    ASSUME CliTypes, [Next]_vars
    PROVE  CliTypes' /\ (Ending => Ending')
  <1>. DEFINE Kept == UNCHANGED <<client, obj, rpc, events, job, look>>
  <1>1. ASSUME Kept, mpc = mpc' \/ mpc \notin {"destroy", "gone"} \/ mpc' = "gone"
        PROVE  CliTypes' /\ (Ending => Ending')
    BY <1>1 DEF CliTypes, Ending
  <1>2. CASE SetAllowExternalCommands
    BY <1>2 DEF SetAllowExternalCommands, CliTypes, Ending, Conns
  <1>3. CASE Log
    <2>1. Tag("log") \in Written
      BY DEF Tag, Written
    <2>2. client' \in [Conns -> Client] /\ obj' \in [Conns -> Object]
      BY <1>3, <2>1, OutputsEffect DEF Log
    <2>. QED  BY <1>3, <2>2 DEF Log, CliTypes, Ending
  <1>4. CASE DeliverEvent
    <2>1. Head(events) \in Queued /\ Tail(events) \in Seq(Queued)
      BY <1>4 DEF DeliverEvent, CliTypes
    <2>2. Addressees(Head(events)) \subseteq Conns
      BY DEF Addressees, Registered
    <2>3. job' \in Queued
      <3>1. CASE UNCHANGED job
        BY <3>1 DEF CliTypes
      <3>2. ASSUME NEW c \in Addressees(Head(events)), job' = [conn |-> c, n |-> Head(events).n]
            PROVE  job' \in Queued
        BY <3>2, <2>1, <2>2 DEF Queued
      <3>. QED  BY <1>4, <3>1, <3>2 DEF DeliverEvent
    <2>. QED  BY <1>4, <2>1, <2>3 DEF DeliverEvent, CliTypes, Ending
  <1>5. CASE Reply
    <2>1. <<"reply", job.n>> \in Written
      BY DEF CliTypes, Written, Queued
    <2>2. client' \in [Conns -> Client] /\ obj' \in [Conns -> Object]
      BY <1>5, <2>1, OutputsEffect DEF Reply
    <2>. QED  BY <1>5, <2>2 DEF Reply, CliTypes, Ending, NoJob, Conns, Queued
  <1>6. CASE Exit \/ JoinServer \/ Gone \/ AcceptLoopEnds
    BY <1>1, <1>6 DEF Exit, JoinServer, Gone, AcceptLoopEnds
  <1>7. CASE DestroyNext
    <2>1. PICK c \in Listeners : End(c)
      BY <1>7 DEF DestroyNext
    <2>2. client' \in [Conns -> Client] /\ obj' \in [Conns -> Object]
      BY <2>1, EndEffect DEF Listeners
    <2>. QED  BY <1>7, <2>2 DEF DestroyNext, CliTypes, Ending
  <1>8. CASE JoinConnection \/ JoinErased
    BY <1>8 DEF JoinConnection, JoinErased, Joined, Clients, Conns, CliTypes, Object, Lives, Ending
  <1>9. CASE Accept \/ Add
    <2>1. PICK c \in Clients, l \in Lives : obj' = [obj EXCEPT ![c].life = l]
      BY <1>9 DEF Accept, Add, Lives
    <2>2. obj' \in [Conns -> Object]
      BY <2>1 DEF CliTypes, Object, Clients, Conns
    <2>3. rpc' \in [Conns -> {"none", "start", "tag", "top", "recv", "parse", "ended"}]
      BY <1>9 DEF Accept, Add, CliTypes
    <2>. QED  BY <1>9, <2>2, <2>3 DEF Accept, Add, CliTypes, Ending, Listeners, Conns
  <1>10. CASE Erase
    <2>. SUFFICES ASSUME NEW c \in look, End(c), look' = look \ {c},
                         UNCHANGED <<rpc, mpc, job, events>>
                  PROVE  CliTypes' /\ (Ending => Ending')
      <3>1. PICK c \in look : /\ look' = look \ {c}
                              /\ UNCHANGED <<client, obj>> \/ End(c)
        BY <1>10 DEF Erase
      <3>2. UNCHANGED <<rpc, mpc, job, events>>
        BY <1>10 DEF Erase
      <3>3. CASE UNCHANGED <<client, obj>>
        BY <3>1, <3>2, <3>3 DEF CliTypes, Ending
      <3>. QED  BY <3>1, <3>2, <3>3
    <2>1. c \in Conns
      BY DEF CliTypes, Conns
    <2>2. client' \in [Conns -> Client] /\ obj' \in [Conns -> Object]
      BY <2>1, EndEffect
    <2>. QED  BY <2>2 DEF CliTypes, Ending
  <1>11. ASSUME NEW c \in Conns, Establish(c) \/ LoopTop(c) \/ RunEnds(c)
         PROVE  CliTypes' /\ (Ending => Ending')
    <2>1. obj' \in [Conns -> Object]
      <3>1. CASE Establish(c) \/ LoopTop(c)
        <4>1. obj' = obj \/ obj' = [obj EXCEPT ![c].established = TRUE]
          BY <3>1 DEF Establish, LoopTop
        <4>2. obj \in [Conns -> Object]
          BY DEF CliTypes
        <4>. QED  BY <4>1, <4>2 DEF Object
      <3>2. CASE RunEnds(c)
        <4>1. (obj[c].sd /\ c = Stdio) \in BOOLEAN /\ obj[c] \in Object
          BY DEF CliTypes
        <4>2. obj' = [obj EXCEPT ![c] = [obj[c] EXCEPT !.sd = obj[c].sd /\ c = Stdio]]
          BY <3>2 DEF RunEnds, CliTypes
        <4>3. [obj[c] EXCEPT !.sd = obj[c].sd /\ c = Stdio] \in Object
          BY <4>1 DEF Object
        <4>. QED  BY <4>2, <4>3 DEF CliTypes
      <3>. QED  BY <1>11, <3>1, <3>2
    <2>2. rpc' \in [Conns -> {"none", "start", "tag", "top", "recv", "parse", "ended"}]
      BY <1>11 DEF Establish, LoopTop, RunEnds, Reader, CliTypes
    <2>. QED  BY <1>11, <2>1, <2>2 DEF Establish, LoopTop, RunEnds, CliTypes, Ending
  <1>12. ASSUME NEW c \in Conns, StartOutput(c)
         PROVE  CliTypes' /\ (Ending => Ending')
    <2>1. Tag("open") \in Written
      BY DEF Tag, Written
    <2>2. client' \in [Conns -> Client] /\ obj' \in [Conns -> Object]
      BY <1>12, <2>1, OutputsEffect DEF StartOutput
    <2>. QED  BY <1>12, <2>2 DEF StartOutput, Reader, CliTypes, Ending
  <1>13. ASSUME NEW c \in Conns, Recv(c) \/ Parse(c)
         PROVE  CliTypes' /\ (Ending => Ending')
    <2>1. client[c].inbox \in Seq(Nat) /\ client[c].inbox # <<>>
      BY <1>13 DEF Recv, Parse, Parsed, CliTypes, Client
    <2>2. Head(client[c].inbox) \in Nat /\ Tail(client[c].inbox) \in Seq(Nat)
      BY <2>1
    <2>3. events' \in Seq(Queued)
      <3>1. [conn |-> c, n |-> Head(client[c].inbox)] \in Queued
        BY <2>2 DEF Queued
      <3>2. events' = Append(events, [conn |-> c, n |-> Head(client[c].inbox)])
        BY <1>13 DEF Recv, Parse, Parsed
      <3>. QED  BY <3>1, <3>2 DEF CliTypes
    <2>. DEFINE cl == [client[c] EXCEPT !.inbox = Tail(@)]
    <2>4. cl \in Client
      <3>1. client[c] \in Client
        BY DEF CliTypes
      <3>. QED  BY <2>2, <3>1 DEF Client
    <2>5. client' = [client EXCEPT ![c] = cl]
      BY <1>13 DEF Recv, Parse, Parsed, CliTypes
    <2>6. client' \in [Conns -> Client]
      BY <2>4, <2>5 DEF CliTypes
    <2>. QED  BY <1>13, <2>3, <2>6 DEF Recv, Parse, Parsed, Reader, CliTypes, Ending
  <1>14. ASSUME NEW c \in Conns, World(c)
         PROVE  CliTypes' /\ (Ending => Ending')
    <2>1. client[c] \in Client
      BY DEF CliTypes
    <2>2. PICK cl \in Client : client' = [client EXCEPT ![c] = cl]
      <3>1. CASE Connect(c) \/ HangUp(c)
        <4>1. [client[c] EXCEPT !.up = TRUE] \in Client /\ [client[c] EXCEPT !.up = FALSE] \in Client
          BY <2>1 DEF Client
        <4>. QED  BY <3>1, <4>1 DEF Connect, HangUp, CliTypes
      <3>2. CASE SendCommand(c)
        <4>1. client[c].sent + 1 \in Nat /\ Append(client[c].inbox, client[c].sent + 1) \in Seq(Nat)
          BY <2>1 DEF Client
        <4>. DEFINE cl == [client[c] EXCEPT !.sent = @ + 1,
                                            !.inbox = Append(@, client[c].sent + 1)]
        <4>2. cl \in Client
          BY <2>1, <4>1 DEF Client
        <4>3. client' = [client EXCEPT ![c] = cl]
          BY <3>2, <2>1 DEF SendCommand, CliTypes, Client
        <4>. QED  BY <4>2, <4>3
      <3>. QED  BY <1>14, <3>1, <3>2 DEF World
    <2>3. client' \in [Conns -> Client]
      BY <2>2 DEF CliTypes
    <2>4. UNCHANGED <<obj, rpc, mpc, job, events, look>>
      BY <1>14 DEF World, Connect, SendCommand, HangUp
    <2>. QED  BY <2>3, <2>4 DEF CliTypes, Ending
  <1>15. CASE UNCHANGED vars
    BY <1>1, <1>15 DEF vars
  <1>. QED
    BY <1>2, <1>3, <1>4, <1>5, <1>6, <1>7, <1>8, <1>9, <1>10, <1>11, <1>12, <1>13, <1>14, <1>15
       DEF Next, Main, MainLoop, Run

---------------------------------------------------------------------------
\* The thread of a connection and its object.

LEMMA LifeInit == ASSUME Init, NEW c \in Conns PROVE LifeInv(c)
  <1>1. /\ obj[c] = IF c = Stdio THEN [NewObject("listener") EXCEPT !.established = TRUE]
                    ELSE NewObject("none")
        /\ rpc[c] = "none"
    BY DEF Init
  <1>2. CASE c = Stdio
    BY <1>1, <1>2 DEF LifeInv, NewObject
  <1>3. CASE c # Stdio
    BY <1>1, <1>3 DEF LifeInv, NewObject
  <1>. QED  BY <1>2, <1>3

\* A step that does not concern the connection.
LEMMA LifeKept ==
    ASSUME NEW c \in Conns, LifeInv(c),
           client'[c].up = client[c].up, client'[c].inbox = client[c].inbox,
           obj'[c] = obj[c], rpc'[c] = rpc[c], Ending => Ending'
    PROVE  LifeInv(c)'
  BY DEF LifeInv

\* Writing to connections: whoever fails has lost its client.
LEMMA LifeOutputs ==
    ASSUME CliTypes, NEW cs, NEW m \in Written, Outputs(cs, obj, m),
           NEW c \in Conns, LifeInv(c), rpc'[c] = rpc[c], Ending => Ending'
    PROVE  LifeInv(c)'
  <1>1. client'[c].up = client[c].up /\ client'[c].inbox = client[c].inbox
    BY OutputsEffect DEF CliTypes, Client
  <1>2. CASE obj'[c] = obj[c]
    BY <1>1, <1>2, LifeKept
  <1>3. CASE obj'[c] # obj[c]
    <2>1. /\ obj'[c].life = obj[c].life /\ obj'[c].established = obj[c].established
          /\ c # Stdio /\ obj[c].established /\ ~client[c].up
      BY <1>3, OutputsEffect
    <2>. QED  BY <1>1, <2>1 DEF LifeInv
  <1>. QED  BY <1>2, <1>3

LEMMA LifeStep ==
    ASSUME CliTypes, [Next]_vars, \A d \in Conns : LifeInv(d), NEW c \in Conns
    PROVE  LifeInv(c)'
  <1>0. (Ending => Ending') /\ LifeInv(c) /\ CliTypes'
    BY TypesStep
  <1>1. ASSUME UNCHANGED <<client, obj, rpc>> PROVE LifeInv(c)'
    BY <1>0, <1>1, LifeKept
  <1>2. CASE SetAllowExternalCommands
    <2>1. rpc'[c] \in {rpc[c], "top"} /\ (rpc'[c] # rpc[c] => c = Stdio)
      BY <1>2 DEF SetAllowExternalCommands, CliTypes
    <2>2. UNCHANGED <<client, obj>>
      BY <1>2 DEF SetAllowExternalCommands
    <2>. QED  BY <1>0, <2>1, <2>2 DEF LifeInv
  <1>3. CASE Log \/ Reply
    <2>1. Tag("log") \in Written /\ <<"reply", job.n>> \in Written
      BY DEF Tag, Written, CliTypes, Queued
    <2>. QED  BY <1>0, <1>3, <2>1, LifeOutputs DEF Log, Reply
  <1>4. CASE DeliverEvent \/ Exit \/ JoinServer \/ Gone \/ AcceptLoopEnds \/ UNCHANGED vars
    BY <1>1, <1>4 DEF DeliverEvent, Exit, JoinServer, Gone, AcceptLoopEnds, vars
  <1>5. ASSUME NEW e \in Conns, End(e), rpc' = rpc, Ending \/ ~obj[e].sd
        PROVE  LifeInv(c)'
    <2>1. CASE c # e
      BY <1>0, <1>5, <2>1, LifeKept, EndEffect
    <2>2. CASE c = e
      <3>1. /\ client'[c].up = client[c].up /\ client'[c].inbox = client[c].inbox
            /\ obj'[c].life = "ending" /\ obj'[c].established = obj[c].established
            /\ c = Stdio => obj'[c].sd
        <4>1. obj[c] \in Object /\ client[c] \in Client
          BY DEF CliTypes
        <4>2. /\ client'[c] = IF Writes(obj, c) /\ client[c].up
                               THEN [client[c] EXCEPT !.said = Append(@, Tag("close"))]
                               ELSE client[c]
              /\ obj'[c] = [obj[c] EXCEPT !.life = "ending", !.aborted = TRUE, !.sd = (c = Stdio)]
          BY <1>5, <2>2, EndEffect
        <4>3. client'[c].up = client[c].up /\ client'[c].inbox = client[c].inbox
          BY <4>1, <4>2 DEF Client
        <4>4. /\ obj'[c].life = "ending" /\ obj'[c].established = obj[c].established
              /\ c = Stdio => obj'[c].sd
          BY <4>1, <4>2 DEF Object
        <4>. QED  BY <4>3, <4>4
      <3>. QED  BY <1>0, <1>5, <2>2, <3>1 DEF LifeInv
    <2>. QED  BY <2>1, <2>2
  <1>6. CASE DestroyNext
    BY <1>5, <1>6 DEF DestroyNext, Listeners, Ending
  <1>7. CASE Erase
    <2>1. PICK e \in look : /\ \/ UNCHANGED <<client, obj>>
                               \/ End(e) /\ ~obj[e].sd
                            /\ rpc' = rpc
      BY <1>7 DEF Erase
    <2>2. e \in Conns
      BY DEF CliTypes, Conns
    <2>. QED  BY <1>1, <1>5, <2>1, <2>2
  <1>8. CASE JoinConnection \/ JoinErased
    <2>1. PICK e \in Conns : Joined(e)
      BY <1>8 DEF JoinConnection, JoinErased, Conns
    <2>2. UNCHANGED <<client, rpc>>
      BY <1>8 DEF JoinConnection, JoinErased
    <2>3. CASE c # e
      <3>1. obj'[c] = obj[c]
        BY <2>1, <2>3 DEF Joined, CliTypes
      <3>. QED  BY <1>0, <2>2, <3>1, LifeKept
    <2>4. CASE c = e
      <3>1. obj[c].life = "ending" /\ obj'[c] = [obj[c] EXCEPT !.life = "gone"] /\ obj[c] \in Object
        BY <2>1, <2>4 DEF Joined, CliTypes
      <3>2. /\ obj'[c].life = "gone" /\ obj'[c].sd = obj[c].sd
            /\ obj'[c].established = obj[c].established /\ obj'[c].aborted = obj[c].aborted
        BY <3>1 DEF Object
      <3>. QED  BY <1>0, <2>2, <3>1, <3>2 DEF LifeInv
    <2>. QED  BY <2>3, <2>4
  <1>9. CASE Accept \/ Add
    <2>1. PICK e \in Clients, l \in {"made", "listener"} :
              /\ obj' = [obj EXCEPT ![e].life = l]
              /\ obj[e].life = IF l = "made" THEN "none" ELSE "made"
              /\ rpc' = IF l = "made" THEN rpc ELSE [rpc EXCEPT ![e] = "start"]
      <3>1. CASE Accept
        BY <3>1 DEF Accept
      <3>2. CASE Add
        BY <3>2 DEF Add
      <3>. QED  BY <1>9, <3>1, <3>2
    <2>2. client' = client /\ e \in Conns /\ e # Stdio
      BY <1>9 DEF Accept, Add, Conns, Clients, Stdio
    <2>3. CASE c # e
      <3>1. obj'[c] = obj[c] /\ rpc'[c] = rpc[c]
        BY <2>1, <2>3 DEF CliTypes
      <3>. QED  BY <1>0, <2>2, <3>1, LifeKept
    <2>4. CASE c = e
      <3>1. /\ obj'[c] = [obj[c] EXCEPT !.life = l] /\ obj[c] \in Object
            /\ rpc'[c] = IF l = "made" THEN rpc[c] ELSE "start"
        BY <2>1, <2>2, <2>4 DEF CliTypes
      <3>2. /\ obj'[c].life = l /\ obj'[c].sd = obj[c].sd
            /\ obj'[c].established = obj[c].established /\ obj'[c].aborted = obj[c].aborted
        BY <3>1 DEF Object
      <3>. QED  BY <1>0, <2>1, <2>2, <2>4, <3>1, <3>2 DEF LifeInv
    <2>. QED  BY <2>3, <2>4
  <1>10. ASSUME NEW e \in Conns, Run(e) \/ World(e), c # e, ~StartOutput(e)
         PROVE  LifeInv(c)'
    <2>1. /\ client'[c].up = client[c].up /\ client'[c].inbox = client[c].inbox
          /\ obj'[c] = obj[c] /\ rpc'[c] = rpc[c]
      <3>1. CASE Establish(e) \/ LoopTop(e) \/ RunEnds(e)
        BY <1>10, <3>1 DEF Establish, LoopTop, RunEnds, Reader, CliTypes
      <3>2. CASE Recv(e) \/ Parse(e) \/ World(e)
        BY <1>10, <3>2 DEF Recv, Parse, Parsed, Reader, World, Connect, SendCommand, HangUp,
           CliTypes
      <3>. QED  BY <1>10, <3>1, <3>2 DEF Run
    <2>. QED  BY <1>0, <2>1, LifeKept
  <1>11. CASE Establish(c)
    <2>1. /\ rpc[c] = "start" /\ rpc'[c] = "tag" /\ client' = client
          /\ obj'[c] = [obj[c] EXCEPT !.established = TRUE] /\ obj[c] \in Object
      BY <1>11 DEF Establish, Reader, CliTypes
    <2>2. /\ obj'[c].life = obj[c].life /\ obj'[c].sd = obj[c].sd
          /\ obj'[c].established /\ obj'[c].aborted = obj[c].aborted
      BY <2>1 DEF Object
    <2>. QED  BY <1>0, <2>1, <2>2 DEF LifeInv
  <1>12. ASSUME NEW e \in Conns, StartOutput(e) PROVE LifeInv(c)'
    <2>1. Outputs({e}, obj, Tag("open")) /\ Tag("open") \in Written
      BY <1>12 DEF StartOutput, Tag, Written
    <2>2. rpc'[c] = IF c = e THEN "top" ELSE rpc[c]
      BY <1>12 DEF StartOutput, Reader, CliTypes
    <2>3. CASE c # e
      BY <1>0, <2>1, <2>2, <2>3, LifeOutputs
    <2>4. CASE c = e
      <3>1. rpc[c] = "tag"
        BY <1>12, <2>4 DEF StartOutput, Reader
      <3>2. client'[c].up = client[c].up /\ client'[c].inbox = client[c].inbox
        BY <2>1, OutputsEffect DEF CliTypes, Client
      <3>3. /\ obj'[c].life = obj[c].life /\ obj'[c].established = obj[c].established
            /\ obj'[c] = obj[c] \/ ~client[c].up
        BY <2>1, OutputsEffect
      <3>. QED  BY <1>0, <2>2, <2>4, <3>1, <3>2, <3>3 DEF LifeInv
    <2>. QED  BY <2>3, <2>4
  <1>13. CASE LoopTop(c)
    <2>1. /\ client' = client /\ obj' = obj
          /\ rpc[c] = "top" /\ rpc'[c] = (IF obj[c].sd THEN "recv" ELSE "ended")
          /\ obj[c].sd => client[c].inbox # <<>> \/ ~client[c].up
      BY <1>13 DEF LoopTop, Reader, CliTypes
    <2>. QED  BY <1>0, <2>1 DEF LifeInv
  <1>14. CASE Recv(c) \/ Parse(c)
    <2>1. /\ client'[c].up = client[c].up /\ obj' = obj
          /\ rpc[c] \in {"recv", "parse"} /\ rpc'[c] \in {"top", "parse"}
      BY <1>14 DEF Recv, Parse, Parsed, Reader, CliTypes, Client
    <2>. QED  BY <1>0, <2>1 DEF LifeInv
  <1>15. CASE RunEnds(c)
    <2>1. /\ rpc[c] \in {"top", "recv"} /\ rpc'[c] = "ended" /\ client' = client
          /\ obj[c] \in Object
          /\ \/ obj[c].sd /\ obj[c].aborted
             \/ rpc[c] = "recv" /\ (~obj[c].sd \/ client[c].inbox = <<>>)
      BY <1>15 DEF RunEnds, Reader, CliTypes
    <2>2. obj' = [obj EXCEPT ![c] = [obj[c] EXCEPT !.sd = obj[c].sd /\ c = Stdio]]
      BY <1>15 DEF RunEnds, CliTypes
    <2>3. /\ obj'[c].life = obj[c].life /\ obj'[c].established = obj[c].established
          /\ obj'[c].aborted = obj[c].aborted /\ (c = Stdio => obj'[c].sd = obj[c].sd)
      BY <2>1, <2>2 DEF CliTypes, Object
    <2>. QED  BY <1>0, <2>1, <2>3 DEF LifeInv
  <1>16. CASE Connect(c) \/ HangUp(c)
    <2>1. PICK b \in BOOLEAN : /\ client' = [client EXCEPT ![c].up = b]
                               /\ b => c # Stdio /\ obj[c].life = "none"
                               /\ ~b => obj[c].life # "none"
      BY <1>16 DEF Connect, HangUp, Connected
    <2>2. /\ client'[c].up = b /\ client'[c].inbox = client[c].inbox
          /\ UNCHANGED <<obj, rpc>>
      BY <1>16, <2>1 DEF Connect, HangUp, CliTypes, Client
    <2>. QED  BY <1>0, <2>1, <2>2 DEF LifeInv
  <1>17. CASE SendCommand(c)
    <2>1. /\ client'[c].up = client[c].up /\ UNCHANGED <<obj, rpc>>
          /\ client[c].up
      BY <1>17 DEF SendCommand, CliTypes, Client
    <2>2. client[c].inbox \in Seq(Nat) /\ client'[c].inbox = Append(client[c].inbox, client[c].sent + 1)
      BY <1>17 DEF SendCommand, CliTypes, Client
    <2>3. client'[c].inbox # <<>>
      BY <2>2
    <2>. QED  BY <1>0, <2>1, <2>3 DEF LifeInv
  <1>. QED
    BY <1>2, <1>3, <1>4, <1>6, <1>7, <1>8, <1>9, <1>10, <1>11, <1>12, <1>13, <1>14, <1>15,
       <1>16, <1>17 DEF Next, Main, MainLoop, Run, World

---------------------------------------------------------------------------
\* The queue of the events.

LEMMA OtherQueued ==
    ASSUME NEW queue \in Seq(Queued), NEW c, NEW from \in Nat, NEW to \in Nat,
           NEW e \in Queued, e.conn # c, QueuedAre(queue, c, from, to)
    PROVE  QueuedAre(Append(queue, e), c, from, to)
  <1>. DEFINE after == Append(queue, e)
              Own   == {i \in DOMAIN queue : queue[i].conn = c}
  <1>1. {i \in DOMAIN after : after[i].conn = c} = Own
    OBVIOUS
  <1>2. \A i \in Own : after[i] = queue[i]
    OBVIOUS
  <1>3. /\ \A i, j \in Own : i < j => queue[i].n < queue[j].n
        /\ \A i \in Own : queue[i].n \in from..to
        /\ \A n \in from..to : \E i \in Own : queue[i].n = n
    BY Zenon DEF QueuedAre
  <1>. HIDE DEF after, Own
  <1>4. /\ \A i, j \in Own : i < j => after[i].n < after[j].n
        /\ \A i \in Own : after[i].n \in from..to
        /\ \A n \in from..to : \E i \in Own : after[i].n = n
    BY <1>2, <1>3
  <1>5. QueuedAre(after, c, from, to)
    BY <1>1, <1>4, Zenon DEF QueuedAre
  <1>. QED  BY <1>5 DEF after

LEMMA NextQueued ==
    ASSUME NEW queue \in Seq(Queued), NEW c, NEW from \in Nat, NEW to \in Nat,
           from <= to + 1, NEW e \in Queued, e.conn = c, e.n = to + 1,
           QueuedAre(queue, c, from, to)
    PROVE  QueuedAre(Append(queue, e), c, from, to + 1)
  <1>. DEFINE after == Append(queue, e)
              Own == {i \in DOMAIN queue : queue[i].conn = c}
              last == Len(queue) + 1
  <1>1. /\ {i \in DOMAIN after : after[i].conn = c} = Own \cup {last}
        /\ \A i \in Own : after[i] = queue[i] /\ i < last /\ i \in Nat /\ queue[i].n \in Nat
        /\ after[last] = e /\ last \in Nat
    <2>1. /\ DOMAIN after = DOMAIN queue \cup {last} /\ after[last] = e /\ last \in Nat
          /\ \A i \in DOMAIN queue : after[i] = queue[i] /\ i < last /\ i \in Nat
      OBVIOUS
    <2>2. \A i \in DOMAIN queue : queue[i].n \in Nat
      <3>1. \A i \in DOMAIN queue : queue[i] \in Queued
        OBVIOUS
      <3>. QED  BY <3>1 DEF Queued
    <2>. QED  BY <2>1, <2>2
  <1>2. /\ \A i, j \in Own : i < j => queue[i].n < queue[j].n
        /\ \A i \in Own : queue[i].n \in from..to
        /\ \A n \in from..to : \E i \in Own : queue[i].n = n
    BY DEF QueuedAre
  <1>. HIDE DEF after, Own, last
  <1>3. ASSUME NEW i \in Own \cup {last}, NEW j \in Own \cup {last}, i < j
        PROVE  after[i].n < after[j].n
    BY <1>1, <1>2, <1>3
  <1>4. ASSUME NEW i \in Own \cup {last} PROVE after[i].n \in from..(to + 1)
    BY <1>1, <1>2
  <1>5. ASSUME NEW n \in from..(to + 1) PROVE \E i \in Own \cup {last} : after[i].n = n
    <2>1. CASE n = to + 1
      BY <1>1, <2>1
    <2>2. CASE n # to + 1
      <3>1. n \in from..to
        BY <2>2
      <3>. QED  BY <1>1, <1>2, <3>1
    <2>. QED  BY <2>1, <2>2
  <1>. QED  BY <1>1, <1>3, <1>4, <1>5 DEF QueuedAre, after

LEMMA FirstQueued ==
    ASSUME NEW queue \in Seq(Queued), queue # <<>>, NEW c, NEW from \in Nat, NEW to \in Nat,
           QueuedAre(queue, c, from, to)
    PROVE  /\ Head(queue).conn # c => QueuedAre(Tail(queue), c, from, to)
           /\ Head(queue).conn = c =>
                /\ Head(queue).n = from /\ from <= to
                /\ QueuedAre(Tail(queue), c, from + 1, to)
  <1>. DEFINE Own == {i \in DOMAIN queue : queue[i].conn = c}
              rest == Tail(queue)
              Left == {i \in DOMAIN rest : rest[i].conn = c}
  <1>1. /\ 1 \in DOMAIN queue /\ Head(queue) = queue[1]
        /\ \A i \in Own : i \in Nat /\ i >= 1 /\ queue[i].n \in Nat
        /\ \A i \in Left : i + 1 \in Own /\ i \in Nat /\ i >= 1 /\ rest[i] = queue[i + 1]
        /\ \A i \in Own : i > 1 => i - 1 \in Left /\ rest[i - 1] = queue[i]
    <2>1. /\ 1 \in DOMAIN queue /\ Head(queue) = queue[1]
          /\ \A i \in DOMAIN queue : i \in Nat /\ i >= 1
          /\ \A i \in DOMAIN rest : i + 1 \in DOMAIN queue /\ i \in Nat /\ i >= 1 /\ rest[i] = queue[i + 1]
          /\ \A i \in DOMAIN queue : i > 1 => i - 1 \in DOMAIN rest /\ rest[i - 1] = queue[i]
      OBVIOUS
    <2>2. \A i \in DOMAIN queue : queue[i].n \in Nat
      <3>1. \A i \in DOMAIN queue : queue[i] \in Queued
        OBVIOUS
      <3>. QED  BY <3>1 DEF Queued
    <2>. HIDE DEF rest
    <2>. QED  BY <2>1, <2>2
  <1>2. /\ \A i, j \in Own : i < j => queue[i].n < queue[j].n
        /\ \A i \in Own : queue[i].n \in from..to
        /\ \A n \in from..to : \E i \in Own : queue[i].n = n
    BY DEF QueuedAre
  <1>3. /\ \A i, j \in Left : i < j => rest[i].n < rest[j].n
        /\ \A i \in Left : rest[i].n \in from..to
        /\ (1 \in Own) <=> Head(queue).conn = c
    <2>1. (1 \in Own) <=> Head(queue).conn = c
      BY <1>1
    <2>. HIDE DEF Own, Left, rest
    <2>2. ASSUME NEW i \in Left, NEW j \in Left, i < j PROVE rest[i].n < rest[j].n
      <3>1. i + 1 \in Own /\ j + 1 \in Own /\ i + 1 < j + 1
        BY <1>1, <2>2
      <3>. QED  BY <1>1, <1>2, <3>1
    <2>3. ASSUME NEW i \in Left PROVE rest[i].n \in from..to
      BY <1>1, <1>2
    <2>. QED  BY <2>1, <2>2, <2>3
  <1>. HIDE DEF Own, Left, rest
  <1>4. ASSUME NEW n \in from..to, Head(queue).conn # c \/ n # queue[1].n
        PROVE  \E i \in Left : rest[i].n = n
    <2>1. PICK i \in Own : queue[i].n = n
      BY <1>2
    <2>2. i # 1
      BY <1>3, <1>4, <2>1
    <2>3. i > 1
      BY <1>1, <2>1, <2>2
    <2>4. i - 1 \in Left /\ rest[i - 1] = queue[i]
      BY <1>1, <2>1, <2>3
    <2>. QED  BY <2>1, <2>4
  <1>5. CASE Head(queue).conn # c
    <2>1. \A n \in from..to : \E i \in Left : rest[i].n = n
      BY <1>4, <1>5
    <2>. QED  BY <1>3, <1>5, <2>1 DEF QueuedAre, Left, rest
  <1>6. CASE Head(queue).conn = c
    <2>1. 1 \in Own /\ queue[1].n \in from..to /\ from <= to /\ queue[1].n \in Nat
      BY <1>1, <1>2, <1>3, <1>6
    <2>2. queue[1].n = from
      <3>1. PICK i \in Own : queue[i].n = from
        BY <1>2, <2>1
      <3>2. i > 1 => queue[1].n < queue[i].n
        BY <1>1, <1>2, <2>1
      <3>. QED  BY <1>1, <2>1, <3>1, <3>2
    <2>3. ASSUME NEW i \in Left PROVE rest[i].n \in (from + 1)..to
      <3>1. i + 1 \in Own /\ i \in Nat /\ i >= 1 /\ rest[i] = queue[i + 1]
        BY <1>1
      <3>2. 1 < i + 1
        BY <3>1
      <3>3. queue[1].n < queue[i + 1].n
        BY <1>2, <2>1, <3>1, <3>2
      <3>4. rest[i].n \in from..to
        BY <1>2, <3>1
      <3>. QED  BY <2>2, <3>1, <3>3, <3>4
    <2>4. \A n \in (from + 1)..to : \E i \in Left : rest[i].n = n
      BY <1>4, <2>2
    <2>. QED  BY <1>1, <1>3, <2>1, <2>2, <2>3, <2>4 DEF QueuedAre, Left, rest
  <1>. QED  BY <1>5, <1>6

---------------------------------------------------------------------------
\* Commands and replies.

LEMMA AnswerInit == ASSUME Init, NEW c \in Conns PROVE AnswerInv(c)
  <1>1. /\ client[c].sent = 0 /\ client[c].inbox = <<>>
        /\ client[c].said \in {<<>>, <<Tag("open")>>}
    BY DEF Init, NewClient
  <1>2. RepliesIn(client[c].said) = {} /\ Replies(c) = {}
    BY <1>1 DEF Replies, RepliesIn, Tag
  <1>3. Cardinality(Replies(c)) = 0
    BY <1>2, FS_EmptySet
  <1>4. Read(c) = 0 /\ DOMAIN client[c].inbox = {} /\ Numbered(client[c].said)
    <2>1. Len(<<>>) = 0 /\ DOMAIN <<>> = {}
      OBVIOUS
    <2>2. Numbered(client[c].said)
      BY <1>2 DEF Numbered
    <2>3. Len(client[c].inbox) = 0 /\ DOMAIN client[c].inbox = {}
      BY <1>1, <2>1, Zenon
    <2>4. client[c].sent = 0
      BY <1>1
    <2>5. Read(c) = 0
      BY <2>3, <2>4 DEF Read
    <2>. QED  BY <2>2, <2>3, <2>5
  <1>5. QueuedAre(events, c, 1, 0) /\ ~Executing(c)
    BY DEF Init, QueuedAre, Executing
  <1>6. Handed(c, 0)
    BY <1>3, <1>4, <1>5 DEF Handed
  <1>. QED  BY <1>4, <1>6 DEF AnswerInv

\* The replies are counted by natural numbers.
LEMMA RepliesCount ==
    ASSUME CliTypes, NEW c \in Conns
    PROVE  Cardinality(Replies(c)) \in Nat /\ Len(client[c].inbox) \in Nat
  BY RepliesFinite DEF CliTypes, Client, Replies

\* A step that neither reads nor executes a command of c.
LEMMA AnswersKept ==
    ASSUME NEW c \in Conns, AnswerInv(c),
           client'[c].sent = client[c].sent, client'[c].inbox = client[c].inbox,
           Replies(c)' = Replies(c), Numbered(client[c].said) => Numbered(client'[c].said),
           \A from, to \in Nat : QueuedAre(events, c, from, to) => QueuedAre(events', c, from, to),
           Executing(c)' <=> Executing(c), Executing(c) => job' = job,
           rpc[c] \in {"top", "recv", "parse", "ended"} => rpc'[c] \in {"top", "recv", "parse", "ended"},
           client'[c].up /\ ~Ending' => client[c].up /\ ~Ending
    PROVE  AnswerInv(c)'
  <1>1. Read(c)' = Read(c) /\ Read(c) \in Nat
    BY DEF Read, AnswerInv
  <1>2. PICK b \in 0..Read(c) : Handed(c, b)
    BY DEF AnswerInv
  <1>3. QueuedAre(events', c, b + 1, Read(c))
    <2>1. b + 1 \in Nat /\ QueuedAre(events, c, b + 1, Read(c))
      BY <1>1, <1>2 DEF Handed
    <2>. QED  BY <1>1, <2>1
  <1>4. Handed(c, b)'
    BY <1>1, <1>2, <1>3 DEF Handed
  <1>. QED  BY <1>1, <1>2, <1>4 DEF AnswerInv

\* A step of the log or of another connection.
LEMMA AnswersOutputs ==
    ASSUME CliTypes, NEW cs, NEW m \in Written, Outputs(cs, obj, m),
           NEW c \in Conns, AnswerInv(c), m[1] # "reply" \/ c \notin cs,
           events' = events, Executing(c)' <=> Executing(c), Executing(c) => job' = job,
           rpc[c] \in {"top", "recv", "parse", "ended"} => rpc'[c] \in {"top", "recv", "parse", "ended"},
           Ending => Ending'
    PROVE  AnswerInv(c)'
  <1>1. /\ client'[c].up = client[c].up /\ client'[c].inbox = client[c].inbox
        /\ client'[c].sent = client[c].sent
    BY OutputsEffect DEF CliTypes, Client
  <1>2. client[c].said \in Seq(Written) /\ client[c] \in Client
    BY DEF CliTypes, Client
  <1>3. \/ client'[c].said = client[c].said
        \/ m[1] # "reply" /\ client'[c].said = Append(client[c].said, m)
    BY <1>2, OutputsEffect DEF Client
  <1>4. Replies(c)' = Replies(c) /\ (Numbered(client[c].said) => Numbered(client'[c].said))
    BY <1>2, <1>3, OtherSaid DEF Replies
  <1>. QED  BY <1>1, <1>4, AnswersKept

LEMMA Recved ==
    ASSUME CliTypes, NEW c \in Conns, Recv(c) \/ Parse(c), AnswerInv(c)
    PROVE  AnswerInv(c)'
  <1>. DEFINE inbox == client[c].inbox
              e == [conn |-> c, n |-> Head(inbox)]
  <1>1. /\ client[c] \in Client /\ inbox \in Seq(Nat) /\ inbox # <<>>
        /\ rpc'[c] \in {"top", "parse"} /\ client'[c] = [client[c] EXCEPT !.inbox = Tail(@)]
        /\ events' = Append(events, e) /\ UNCHANGED <<mpc, job>>
    BY DEF Recv, Parse, Parsed, Reader, CliTypes, Client
  <1>2. /\ client'[c].up = client[c].up /\ client'[c].sent = client[c].sent
        /\ client'[c].said = client[c].said /\ client'[c].inbox = Tail(inbox)
        /\ client[c].sent \in Nat
    BY <1>1 DEF Client
  <1>3. /\ Len(inbox) \in Nat \ {0} /\ Len(Tail(inbox)) = Len(inbox) - 1
        /\ 1 \in DOMAIN inbox /\ Head(inbox) = inbox[1] /\ Head(inbox) \in Nat
        /\ \A i \in DOMAIN Tail(inbox) : i \in Nat /\ i + 1 \in DOMAIN inbox
                                         /\ Tail(inbox)[i] = inbox[i + 1]
    BY <1>1
  <1>. HIDE DEF inbox
  <1>4. Read(c)' = Read(c) + 1 /\ Read(c) \in Nat
    <2>1. /\ Read(c)' = client[c].sent - Len(Tail(inbox)) /\ Read(c) = client[c].sent - Len(inbox)
          /\ Read(c) \in Nat
      BY <1>2 DEF Read, AnswerInv, inbox
    <2>. QED  BY <1>2, <1>3, <2>1
  <1>5. /\ Head(inbox) = Read(c) + 1
        /\ \A i \in DOMAIN Tail(inbox) : Tail(inbox)[i] = Read(c) + 1 + i
    BY <1>3, <1>4 DEF AnswerInv, inbox
  <1>6. PICK b \in 0..Read(c) : Handed(c, b)
    BY DEF AnswerInv
  <1>7. QueuedAre(events', c, b + 1, Read(c) + 1)
    <2>1. e \in Queued /\ e.conn = c /\ e.n = Read(c) + 1
      BY <1>3, <1>5 DEF Queued
    <2>2. QueuedAre(events, c, b + 1, Read(c)) /\ events \in Seq(Queued)
      BY <1>6 DEF Handed, CliTypes
    <2>3. b + 1 \in Nat /\ b + 1 <= Read(c) + 1
      BY <1>4
    <2>. HIDE DEF e
    <2>. QED  BY <1>1, <1>4, <2>1, <2>2, <2>3, NextQueued
  <1>8. Executing(c)' <=> Executing(c)
    BY <1>1 DEF Executing
  <1>9. Replies(c)' = Replies(c) /\ (Ending' <=> Ending)
    BY <1>1, <1>2 DEF Replies, Ending
  <1>10. Handed(c, b)'
    BY <1>1, <1>2, <1>4, <1>6, <1>7, <1>8, <1>9 DEF Handed
  <1>11. b \in 0..(Read(c))'
    BY <1>4, <1>6
  <1>12. \A i \in DOMAIN client'[c].inbox : client'[c].inbox[i] = Read(c)' + i
    <2>1. \A i \in DOMAIN Tail(inbox) : Tail(inbox)[i] = Read(c)' + i
      BY <1>4, <1>5
    <2>. QED  BY <1>2, <2>1
  <1>13. Numbered(client'[c].said) /\ Read(c)' \in Nat /\ rpc'[c] \in {"top", "parse"}
    BY <1>1, <1>2, <1>4 DEF AnswerInv
  <1>. QED  BY <1>10, <1>11, <1>12, <1>13 DEF AnswerInv

LEMMA Sent ==
    ASSUME CliTypes, NEW c \in Conns, SendCommand(c), AnswerInv(c)
    PROVE  AnswerInv(c)'
  <1>. DEFINE inbox == client[c].inbox
              sent == client[c].sent
  <1>1. /\ client[c] \in Client /\ inbox \in Seq(Nat) /\ sent \in Nat
        /\ UNCHANGED <<obj, rpc, mpc, job, events>>
        /\ client'[c] = [client[c] EXCEPT !.sent = sent + 1, !.inbox = Append(inbox, sent + 1)]
    BY DEF SendCommand, CliTypes, Client
  <1>2. /\ client'[c].up = client[c].up /\ client'[c].sent = sent + 1
        /\ client'[c].said = client[c].said /\ client'[c].inbox = Append(inbox, sent + 1)
    BY <1>1 DEF Client
  <1>3. /\ Len(inbox) \in Nat /\ Len(Append(inbox, sent + 1)) = Len(inbox) + 1
        /\ \A i \in DOMAIN Append(inbox, sent + 1) :
             /\ i \in Nat
             /\ Append(inbox, sent + 1)[i] = IF i = Len(inbox) + 1 THEN sent + 1 ELSE inbox[i]
             /\ i # Len(inbox) + 1 => i \in DOMAIN inbox
    BY <1>1
  <1>4. Read(c) = sent - Len(inbox) /\ Read(c)' = (sent + 1) - (Len(inbox) + 1) /\ Read(c) \in Nat
    BY <1>2, <1>3 DEF Read, AnswerInv
  <1>. HIDE DEF inbox, sent
  <1>5. Read(c)' = Read(c) /\ sent + 1 = Read(c) + Len(inbox) + 1
    BY <1>1, <1>3, <1>4
  <1>6. \A i \in DOMAIN Append(inbox, sent + 1) : Append(inbox, sent + 1)[i] = Read(c) + i
    <2>1. \A i \in DOMAIN inbox : inbox[i] = Read(c) + i
      BY DEF AnswerInv, inbox
    <2>2. sent + 1 = Read(c) + (Len(inbox) + 1)
      BY <1>3, <1>4, <1>5
    <2>. QED  BY <1>3, <2>1, <2>2
  <1>7. PICK b \in 0..Read(c) : Handed(c, b)
    BY DEF AnswerInv
  <1>8. Handed(c, b)'
    BY <1>1, <1>2, <1>5, <1>7 DEF Handed, Executing, Replies, Ending
  <1>. QED  BY <1>1, <1>2, <1>4, <1>5, <1>6, <1>7, <1>8 DEF AnswerInv

LEMMA Delivered ==
    ASSUME CliTypes, "address" \notin Races, DeliverEvent, NEW c \in Conns,
           LifeInv(c), AnswerInv(c)
    PROVE  AnswerInv(c)'
  <1>. DEFINE e == Head(events)
  <1>1. /\ events \in Seq(Queued) /\ events # <<>> /\ events' = Tail(events) /\ e \in Queued
        /\ UNCHANGED <<client, obj, rpc>> /\ mpc = "idle"
    BY DEF DeliverEvent, CliTypes
  <1>2. /\ e.conn \in Registered => mpc' = "execute" /\ job'.conn = e.conn /\ job'.n = e.n
        /\ e.conn \notin Registered => mpc' = mpc /\ job' = job
    <2>1. Addressees(e) = IF e.conn \in Registered THEN {e.conn} ELSE {}
      BY DEF Addressees
    <2>. HIDE DEF e
    <2>2. \/ Addressees(e) = {} /\ mpc' = mpc /\ job' = job
          \/ \E d \in Addressees(e) : mpc' = "execute" /\ job' = [conn |-> d, n |-> e.n]
      BY DEF DeliverEvent, e
    <2>. QED  BY <2>1, <2>2
  <1>. HIDE DEF e
  <1>3. /\ Read(c)' = Read(c) /\ Read(c) \in Nat /\ Replies(c)' = Replies(c)
        /\ ~Ending /\ ~Ending' /\ ~Executing(c)
    BY <1>1, <1>2 DEF Read, AnswerInv, Replies, Ending, Executing
  <1>4. PICK b \in 0..Read(c) : Handed(c, b)
    BY DEF AnswerInv
  <1>5. QueuedAre(events, c, b + 1, Read(c)) /\ b + 1 \in Nat /\ b \in Nat
    BY <1>3, <1>4 DEF Handed
  <1>6. /\ e.conn # c => QueuedAre(events', c, b + 1, Read(c))
        /\ e.conn = c => /\ e.n = b + 1 /\ b + 1 <= Read(c)
                         /\ QueuedAre(events', c, (b + 1) + 1, Read(c))
    BY <1>1, <1>3, <1>5, FirstQueued DEF e
  <1>7. ASSUME NEW d \in 0..Read(c), Handed(c, d)' PROVE AnswerInv(c)'
    BY <1>1, <1>3, <1>7 DEF AnswerInv
  <1>8. CASE e.conn # c
    <2>1. ~Executing(c)'
      BY <1>1, <1>2, <1>8 DEF Executing
    <2>2. Handed(c, b)'
      BY <1>1, <1>3, <1>4, <1>6, <1>8, <2>1 DEF Handed
    <2>. QED  BY <1>4, <1>7, <2>2
  <1>9. CASE e.conn = c
    <2>1. b + 1 \in 0..Read(c)
      BY <1>3, <1>5, <1>6, <1>9
    <2>2. Cardinality(Replies(c)) <= b /\ (client[c].up => Cardinality(Replies(c)) = b)
      BY <1>3, <1>4 DEF Handed
    <2>3. Cardinality(Replies(c)) \in Nat
      BY RepliesCount
    <2>4. CASE c \in Registered
      <3>1. Executing(c)' /\ job'.n = b + 1
        BY <1>2, <1>6, <1>9, <2>4 DEF Executing
      <3>2. Cardinality(Replies(c)) <= b + 1 /\ b + 1 > 0 /\ (b + 1) - 1 = b
        BY <1>5, <2>2, <2>3
      <3>3. Handed(c, b + 1)'
        BY <1>1, <1>3, <1>6, <1>9, <2>2, <3>1, <3>2 DEF Handed
      <3>. QED  BY <1>7, <2>1, <3>3
    <2>5. CASE c \notin Registered
      <3>1. obj[c].life \in {"none", "gone"}
        BY <2>5 DEF Registered, CliTypes, Object, Lives
      <3>2. Read(c) > 0
        BY <1>3, <1>5, <1>6, <1>9
      <3>3. ~client[c].up
        BY <1>3, <3>1, <3>2 DEF LifeInv, AnswerInv
      <3>4. ~Executing(c)' /\ ~client'[c].up
        BY <1>1, <1>2, <1>9, <2>5, <3>3 DEF Executing
      <3>5. Cardinality(Replies(c)) <= b + 1
        BY <1>5, <2>2, <2>3
      <3>6. Handed(c, b + 1)'
        BY <1>1, <1>3, <1>6, <1>9, <3>4, <3>5 DEF Handed
      <3>. QED  BY <1>7, <2>1, <3>6
    <2>. QED  BY <2>4, <2>5
  <1>. QED  BY <1>8, <1>9

LEMMA Replied ==
    ASSUME CliTypes, Reply, NEW c \in Conns, LifeInv(c), AnswerInv(c)
    PROVE  AnswerInv(c)'
  <1>. DEFINE m == <<"reply", job.n>>
  <1>1. /\ m \in Written /\ job.n \in Nat /\ Outputs({job.conn}, obj, m)
        /\ events' = events /\ mpc' = "idle" /\ mpc = "execute" /\ rpc' = rpc
    BY DEF Reply, CliTypes, Queued, Written
  <1>2. ~Executing(c)' /\ ~Ending /\ ~Ending'
    BY <1>1 DEF Executing, Ending
  <1>3. CASE c # job.conn
    <2>1. ~Executing(c)
      BY <1>3 DEF Executing
    <2>. HIDE DEF m
    <2>. QED  BY <1>1, <1>2, <1>3, <2>1, AnswersOutputs
  <1>4. CASE c = job.conn
    <2>1. Executing(c) /\ Read(c) \in Nat
      BY <1>1, <1>4 DEF Executing, AnswerInv
    <2>2. PICK b \in 0..Read(c) : Handed(c, b)
      BY DEF AnswerInv
    <2>3. /\ job.n = b /\ b > 0 /\ Cardinality(Replies(c)) <= b /\ Read(c) > 0
          /\ client[c].up => Cardinality(Replies(c)) = b - 1
          /\ QueuedAre(events, c, b + 1, Read(c))
      BY <1>2, <2>1, <2>2 DEF Handed
    <2>4. client[c].up => Writes(obj, c)
      BY <1>2, <2>3 DEF AnswerInv, LifeInv, Writes
    <2>5. client'[c] = IF client[c].up THEN [client[c] EXCEPT !.said = Append(@, m)] ELSE client[c]
      <3>. HIDE DEF m
      <3>1. \A d \in Conns :
              client'[d] = IF d \in {job.conn} /\ Writes(obj, d) /\ client[d].up
                           THEN [client[d] EXCEPT !.said = Append(@, m)] ELSE client[d]
        BY <1>1, OutputsEffect
      <3>. QED  BY <1>4, <2>4, <3>1
    <2>6. client[c] \in Client /\ client[c].said \in Seq(Written)
      BY DEF CliTypes, Client
    <2>7. /\ client'[c].up = client[c].up /\ client'[c].inbox = client[c].inbox
          /\ client'[c].sent = client[c].sent
          /\ client'[c].said = IF client[c].up THEN Append(client[c].said, m) ELSE client[c].said
      BY <2>5, <2>6 DEF Client
    <2>8. Read(c)' = Read(c) /\ Cardinality(Replies(c)) \in Nat
      BY <2>7, RepliesCount DEF Read
    <2>9. /\ Cardinality(Replies(c)') <= b /\ Numbered(client'[c].said)
          /\ client[c].up => Cardinality(Replies(c)') = b
      <3>1. CASE client[c].up
        <4>1. /\ Cardinality(Replies(c)') = Cardinality(Replies(c)) + 1
              /\ Numbered(client[c].said) /\ b = Cardinality(Replies(c)) + 1 => Numbered(client'[c].said)
          BY <1>1, <2>3, <2>6, <2>7, <3>1, ReplySaid DEF Replies
        <4>. QED  BY <2>3, <2>8, <3>1, <4>1 DEF AnswerInv
      <3>2. CASE ~client[c].up
        BY <2>3, <2>7, <3>2 DEF Replies, AnswerInv
      <3>. QED  BY <3>1, <3>2
    <2>10. Handed(c, b)'
      BY <1>1, <1>2, <2>3, <2>7, <2>8, <2>9 DEF Handed
    <2>. QED  BY <1>1, <2>2, <2>7, <2>8, <2>9, <2>10 DEF AnswerInv
  <1>. QED  BY <1>3, <1>4

LEMMA AnswerStep ==
    ASSUME CliTypes, [Next]_vars, "address" \notin Races,
           NEW c \in Conns, LifeInv(c), AnswerInv(c)
    PROVE  AnswerInv(c)'
  <1>0. Ending => Ending'
    BY TypesStep
  <1>1. ASSUME UNCHANGED <<client, events>>, Executing(c)' <=> Executing(c),
               Executing(c) => job' = job,
               rpc[c] \in {"top", "recv", "parse", "ended"} => rpc'[c] \in {"top", "recv", "parse", "ended"}
        PROVE  AnswerInv(c)'
    BY <1>0, <1>1, AnswersKept DEF Replies
  <1>2. CASE SetAllowExternalCommands
    <2>1. ~Executing(c) /\ ~Executing(c)'
      BY <1>2 DEF SetAllowExternalCommands, Executing
    <2>2. rpc'[c] \in {rpc[c], "top"}
      BY <1>2 DEF SetAllowExternalCommands, CliTypes
    <2>. QED  BY <1>1, <1>2, <2>1, <2>2 DEF SetAllowExternalCommands
  <1>3. CASE Log
    <2>1. Outputs(Listeners, obj, Tag("log")) /\ Tag("log") \in Written /\ Tag("log")[1] # "reply"
      BY <1>3 DEF Log, Tag, Written
    <2>2. UNCHANGED <<events, rpc, mpc, job>>
      BY <1>3 DEF Log
    <2>. QED  BY <1>0, <2>1, <2>2, AnswersOutputs DEF Executing
  <1>4. CASE DeliverEvent
    BY <1>4, Delivered
  <1>5. CASE Reply
    BY <1>5, Replied
  <1>6. CASE Exit \/ JoinServer \/ Gone \/ AcceptLoopEnds \/ JoinConnection \/ JoinErased \/ Accept
             \/ UNCHANGED vars
    <2>1. UNCHANGED <<client, events, rpc, job>>
      BY <1>6 DEF Exit, JoinServer, Gone, AcceptLoopEnds, JoinConnection, JoinErased, Accept, vars
    <2>2. mpc' = mpc \/ (mpc # "execute" /\ mpc' # "execute")
      <3>1. CASE Exit \/ JoinServer \/ Gone
        BY <3>1 DEF Exit, JoinServer, Gone
      <3>2. CASE AcceptLoopEnds \/ JoinConnection \/ JoinErased \/ Accept \/ UNCHANGED vars
        BY <3>2 DEF AcceptLoopEnds, JoinConnection, JoinErased, Accept, vars
      <3>. QED  BY <1>6, <3>1, <3>2
    <2>. QED  BY <1>1, <2>1, <2>2 DEF Executing
  <1>7. CASE Add
    <2>1. PICK e \in Clients : obj[e].life = "made" /\ rpc' = [rpc EXCEPT ![e] = "start"]
      BY <1>7 DEF Add
    <2>2. rpc[c] \in {"top", "recv", "parse", "ended"} => rpc'[c] = rpc[c]
      BY <2>1 DEF LifeInv, CliTypes
    <2>. QED  BY <1>1, <1>7, <2>2 DEF Add, Executing
  <1>8. ASSUME NEW e \in Conns, End(e), UNCHANGED <<rpc, mpc, job, events>>
        PROVE  AnswerInv(c)'
    <2>1. Tag("close") \in Written /\ Tag("close")[1] # "reply"
      BY DEF Tag, Written
    <2>2. client[c] \in Client /\ client[c].said \in Seq(Written)
      BY DEF CliTypes, Client
    <2>3. client'[c] \in {client[c], [client[c] EXCEPT !.said = Append(@, Tag("close"))]}
      BY <1>8, EndEffect
    <2>4. /\ client'[c].up = client[c].up /\ client'[c].inbox = client[c].inbox
          /\ client'[c].sent = client[c].sent
          /\ client'[c].said \in {client[c].said, Append(client[c].said, Tag("close"))}
      BY <2>2, <2>3 DEF Client
    <2>5. Replies(c)' = Replies(c) /\ (Numbered(client[c].said) => Numbered(client'[c].said))
      BY <2>1, <2>2, <2>4, OtherSaid DEF Replies
    <2>. QED  BY <1>0, <1>8, <2>4, <2>5, AnswersKept DEF Executing
  <1>9. CASE DestroyNext
    BY <1>8, <1>9 DEF DestroyNext, Listeners
  <1>10. CASE Erase
    <2>1. PICK e \in look : UNCHANGED <<client, obj>> \/ End(e)
      BY <1>10 DEF Erase
    <2>2. e \in Conns /\ UNCHANGED <<rpc, mpc, job, events>>
      BY <1>10 DEF Erase, CliTypes, Conns
    <2>. QED  BY <1>1, <1>8, <2>1, <2>2 DEF Executing
  <1>11. ASSUME NEW e \in Conns, Establish(e) \/ LoopTop(e) \/ RunEnds(e)
         PROVE  AnswerInv(c)'
    <2>1. /\ UNCHANGED <<client, mpc, job, events>>
          /\ rpc[c] \in {"top", "recv", "parse", "ended"} => rpc'[c] \in {"top", "recv", "parse", "ended"}
      BY <1>11 DEF Establish, LoopTop, RunEnds, Reader, CliTypes
    <2>. QED  BY <1>1, <2>1 DEF Executing
  <1>12. ASSUME NEW e \in Conns, StartOutput(e) PROVE AnswerInv(c)'
    <2>1. Outputs({e}, obj, Tag("open")) /\ Tag("open") \in Written /\ Tag("open")[1] # "reply"
      BY <1>12 DEF StartOutput, Tag, Written
    <2>2. /\ UNCHANGED <<mpc, job, events>>
          /\ rpc[c] \in {"top", "recv", "parse", "ended"} => rpc'[c] \in {"top", "recv", "parse", "ended"}
      BY <1>12 DEF StartOutput, Reader, CliTypes
    <2>. QED  BY <1>0, <2>1, <2>2, AnswersOutputs DEF Executing
  <1>13. ASSUME NEW e \in Conns, Recv(e) \/ Parse(e), e # c PROVE AnswerInv(c)'
    <2>1. /\ client'[c] = client[c] /\ rpc'[c] = rpc[c] /\ UNCHANGED <<mpc, job>>
          /\ events' = Append(events, [conn |-> e, n |-> Head(client[e].inbox)])
          /\ client[e].inbox \in Seq(Nat) /\ client[e].inbox # <<>>
      BY <1>13 DEF Recv, Parse, Parsed, Reader, CliTypes, Client
    <2>2. [conn |-> e, n |-> Head(client[e].inbox)] \in Queued
      BY <2>1 DEF Queued
    <2>3. \A from, to \in Nat : QueuedAre(events, c, from, to) => QueuedAre(events', c, from, to)
      BY <1>13, <2>1, <2>2, OtherQueued DEF CliTypes
    <2>4. Replies(c)' = Replies(c)
      BY <2>1 DEF Replies
    <2>. QED  BY <1>0, <2>1, <2>3, <2>4, AnswersKept DEF Executing
  <1>14. CASE Recv(c) \/ Parse(c)
    BY <1>14, Recved
  <1>15. ASSUME NEW e \in Conns, World(e), e # c \/ HangUp(e) PROVE AnswerInv(c)'
    <2>1. /\ UNCHANGED <<rpc, mpc, job, events>>
          /\ client'[c].sent = client[c].sent /\ client'[c].inbox = client[c].inbox
          /\ client'[c].said = client[c].said /\ (client'[c].up => client[c].up)
      <3>1. CASE HangUp(e)
        BY <3>1 DEF HangUp, CliTypes, Client
      <3>2. CASE e # c
        BY <1>15, <3>2 DEF World, HangUp, Connect, SendCommand, CliTypes
      <3>. QED  BY <1>15, <3>1, <3>2
    <2>. QED  BY <1>0, <2>1, AnswersKept DEF Executing, Replies
  <1>16. CASE Connect(c)
    <2>1. /\ UNCHANGED <<rpc, mpc, job, events>>
          /\ client'[c].sent = client[c].sent /\ client'[c].inbox = client[c].inbox
          /\ client'[c].said = client[c].said
      BY <1>16 DEF Connect, CliTypes, Client
    <2>2. Read(c) = 0 /\ Read(c)' = 0
      <3>1. rpc[c] = "none"
        BY <1>16 DEF Connect, Connected, LifeInv
      <3>2. Read(c) \in Nat /\ ~(Read(c) > 0)
        BY <3>1 DEF AnswerInv
      <3>3. Read(c)' = Read(c)
        BY <2>1 DEF Read
      <3>. QED  BY <3>2, <3>3
    <2>3. Handed(c, 0) /\ Cardinality(Replies(c)) \in Nat
      BY <2>2, RepliesCount DEF AnswerInv
    <2>4. Cardinality(Replies(c)) = 0 /\ ~Executing(c)
      BY <2>3 DEF Handed
    <2>5. Handed(c, 0)'
      BY <2>1, <2>2, <2>3, <2>4 DEF Handed, Executing, Replies
    <2>. QED  BY <2>1, <2>2, <2>5 DEF AnswerInv
  <1>17. CASE SendCommand(c)
    BY <1>17, Sent
  <1>. QED
    BY <1>2, <1>3, <1>4, <1>5, <1>6, <1>7, <1>9, <1>10, <1>11, <1>12, <1>13, <1>14, <1>15,
       <1>16, <1>17 DEF Next, Main, MainLoop, Run, World

---------------------------------------------------------------------------
\* The element that is written.

LEMMA ElementInit == ASSUME Init, NEW c \in Conns PROVE ElementInv(c)
  <1>1. /\ client[c].said = IF c = Stdio THEN <<Tag("open")>> ELSE <<>>
        /\ rpc[c] = "none" /\ (obj[c].established => c = Stdio)
    BY DEF Init, NewClient, NewObject
  <1>2. Tag("open") # Tag("close")
    BY DEF Tag
  <1>3. Element(client[c].said) /\ ~Closed(client[c].said)
    <2>1. /\ Element(<<Tag("open")>>) /\ ~Closed(<<Tag("open")>>)
          /\ Element(<<>>) /\ ~Closed(<<>>)
      BY <1>2 DEF Element, Closed
    <2>. QED  BY <1>1, <2>1
  <1>. QED  BY <1>1, <1>3 DEF ElementInv, Writes

\* One more part of it, behind the opening tag and before the closing one.
LEMMA OneMore ==
    ASSUME NEW said \in Seq(Written), Element(said), said # <<>>, ~Closed(said),
           NEW m \in Written, m # Tag("open")
    PROVE  LET after == Append(said, m)
           IN  /\ Element(after) /\ after # <<>>
               /\ m # Tag("close") => ~Closed(after)
  <1>. DEFINE after == Append(said, m)
  <1>1. /\ Len(said) \in Nat \ {0} /\ Len(after) = Len(said) + 1 /\ DOMAIN said = 1..Len(said)
        /\ DOMAIN after = 1..(Len(said) + 1) /\ after # <<>>
        /\ \A i \in DOMAIN said : after[i] = said[i]
        /\ after[Len(said) + 1] = m
    OBVIOUS
  <1>. HIDE DEF after
  <1>2. ASSUME NEW i \in DOMAIN after
        PROVE  /\ after[i] = Tag("open") <=> i = 1
               /\ after[i] = Tag("close") => i = Len(said) + 1 /\ m = Tag("close")
    <2>1. CASE i \in DOMAIN said
      BY <1>1, <2>1 DEF Element, Closed
    <2>2. CASE i \notin DOMAIN said
      <3>1. i = Len(said) + 1 /\ i # 1
        BY <1>1, <2>2
      <3>. QED  BY <1>1, <3>1
    <2>. QED  BY <2>1, <2>2
  <1>. QED  BY <1>1, <1>2 DEF Element, Closed, after

\* A step that writes nothing to the connection.
LEMMA ElementKept ==
    ASSUME NEW c \in Conns, ElementInv(c), client'[c].said = client[c].said,
           rpc'[c] \in {"none", "start", "tag"} => rpc[c] \in {"none", "start", "tag"},
           Writes(obj', c) /\ client'[c].up /\ rpc'[c] # "tag" =>
             Writes(obj, c) /\ client[c].up /\ rpc[c] # "tag",
           IF c = Stdio
             THEN obj[c].life \in {"ending", "gone"} => obj'[c].life \in {"ending", "gone"}
             ELSE ~obj[c].sd => ~obj'[c].sd,
           Ending => Ending'
    PROVE  ElementInv(c)'
  <1>1. /\ Element(client'[c].said)
        /\ rpc'[c] \in {"none", "start", "tag"} /\ c # Stdio => client'[c].said = <<>>
        /\ Writes(obj', c) /\ client'[c].up /\ rpc'[c] # "tag" => client'[c].said # <<>>
    BY DEF ElementInv
  <1>2. Closed(client'[c].said) =>
          IF c = Stdio THEN Ending' /\ obj'[c].life \in {"ending", "gone"} ELSE ~obj'[c].sd
    BY DEF ElementInv
  <1>. QED  BY <1>1, <1>2 DEF ElementInv, Writes

\* A message of the log, or a reply.
LEMMA ElementOutputs ==
    ASSUME CliTypes, NEW cs, NEW m \in Written, m \notin {Tag("open"), Tag("close")},
           Outputs(cs, obj, m), NEW c \in Conns, c \in cs => rpc[c] # "tag",
           ElementInv(c), rpc'[c] = rpc[c], ~Ending, LifeInv(c)
    PROVE  ElementInv(c)'
  <1>1. client[c] \in Client /\ obj[c] \in Object /\ client[c].said \in Seq(Written)
    BY DEF CliTypes, Client
  <1>2. obj'[c].life = obj[c].life /\ (obj'[c] = obj[c] \/ (c # Stdio /\ ~obj'[c].sd))
    BY OutputsEffect
  <1>3. CASE c \in cs /\ Writes(obj, c) /\ client[c].up
    <2>1. client'[c].said = Append(client[c].said, m)
      <3>1. client'[c] = [client[c] EXCEPT !.said = Append(@, m)]
        BY <1>3, OutputsEffect
      <3>. QED  BY <1>1, <3>1, ClientSaid
    <2>2. client[c].said # <<>> /\ Element(client[c].said) /\ ~Closed(client[c].said)
      BY <1>3 DEF ElementInv, Writes
    <2>3. /\ Element(client'[c].said) /\ client'[c].said # <<>> /\ ~Closed(client'[c].said)
      BY <1>1, <2>1, <2>2, OneMore
    <2>4. ~(rpc[c] \in {"none", "start", "tag"} /\ c # Stdio)
      BY <2>2 DEF ElementInv
    <2>. QED  BY <2>3, <2>4 DEF ElementInv
  <1>4. CASE ~(c \in cs /\ Writes(obj, c) /\ client[c].up)
    <2>1. client'[c] = client[c]
      BY <1>4, OutputsEffect
    <2>2. Writes(obj', c) => Writes(obj, c)
      BY <1>2 DEF Writes
    <2>3. IF c = Stdio
            THEN obj[c].life \in {"ending", "gone"} => obj'[c].life \in {"ending", "gone"}
            ELSE ~obj[c].sd => ~obj'[c].sd
      BY <1>2
    <2>4. Ending => Ending'
      OBVIOUS
    <2>. QED  BY <2>1, <2>2, <2>3, <2>4, ElementKept
  <1>. QED  BY <1>3, <1>4

\* The opening tag of a connection.
LEMMA ElementOpened ==
    ASSUME CliTypes, NEW e \in Conns, StartOutput(e), NEW c \in Conns,
           ElementInv(c), LifeInv(c), Ending => Ending'
    PROVE  ElementInv(c)'
  <1>1. /\ Outputs({e}, obj, Tag("open")) /\ Tag("open") \in Written
        /\ rpc[e] = "tag" /\ rpc'[e] = "top" /\ (c # e => rpc'[c] = rpc[c])
    BY DEF StartOutput, Reader, Tag, Written, CliTypes
  <1>2. client[c] \in Client /\ obj[c] \in Object /\ client[c].said \in Seq(Written)
    BY DEF CliTypes, Client
  <1>3. obj'[c].life = obj[c].life /\ (obj'[c] = obj[c] \/ (c # Stdio /\ ~obj'[c].sd))
    BY <1>1, OutputsEffect
  <1>4. CASE c = e /\ Writes(obj, c) /\ client[c].up
    <2>1. client[c].said = <<>>
      BY <1>1, <1>4 DEF LifeInv, ElementInv
    <2>2. client'[c].said = Append(client[c].said, Tag("open"))
      <3>1. client'[c] = [client[c] EXCEPT !.said = Append(@, Tag("open"))]
        BY <1>1, <1>4, OutputsEffect
      <3>. QED  BY <1>1, <1>2, <3>1, ClientSaid
    <2>3. client'[c].said = <<Tag("open")>>
      BY <2>1, <2>2
    <2>4. Element(client'[c].said) /\ ~Closed(client'[c].said) /\ client'[c].said # <<>>
      BY <2>3 DEF Element, Closed, Tag
    <2>. QED  BY <1>1, <1>4, <2>4 DEF ElementInv
  <1>5. CASE ~(c = e /\ Writes(obj, c) /\ client[c].up)
    <2>1. client'[c] = client[c]
      BY <1>1, <1>5, OutputsEffect
    <2>2. Writes(obj', c) => Writes(obj, c)
      BY <1>3 DEF Writes
    <2>3. IF c = Stdio
            THEN obj[c].life \in {"ending", "gone"} => obj'[c].life \in {"ending", "gone"}
            ELSE ~obj[c].sd => ~obj'[c].sd
      BY <1>3
    <2>4. /\ rpc'[c] \in {"none", "start", "tag"} => rpc[c] \in {"none", "start", "tag"}
          /\ Writes(obj', c) /\ client'[c].up /\ rpc'[c] # "tag" =>
               Writes(obj, c) /\ client[c].up /\ rpc[c] # "tag"
      BY <1>1, <1>5, <2>1, <2>2
    <2>. QED  BY <2>1, <2>3, <2>4, ElementKept
  <1>. QED  BY <1>4, <1>5

\* The closing tag.
LEMMA ElementEnds ==
    ASSUME CliTypes, NEW e \in Conns, End(e), NEW c \in Conns, rpc' = rpc,
           ElementInv(c), LifeInv(c), Ending => Ending',
           \/ ~obj[e].sd /\ e # Stdio
           \/ Ending /\ obj[e].life = "listener" /\ rpc[e] # "tag"
    PROVE  ElementInv(c)'
  <1>1. /\ client[c] \in Client /\ obj[c] \in Object /\ client[c].said \in Seq(Written)
        /\ Tag("close") \in Written /\ Tag("close") # Tag("open")
    BY DEF CliTypes, Client, Tag, Written
  <1>2. CASE c # e
    <2>1. client'[c] = client[c] /\ obj'[c] = obj[c]
      BY <1>2, EndEffect
    <2>. QED  BY <2>1, ElementKept DEF Writes
  <1>3. CASE c = e
    <2>1. /\ obj'[c].life = "ending" /\ obj'[c].sd = (c = Stdio)
          /\ obj'[c].established = obj[c].established
      <3>1. obj'[c] = [obj[c] EXCEPT !.life = "ending", !.aborted = TRUE, !.sd = (c = Stdio)]
        BY <1>3, EndEffect
      <3>. QED  BY <1>1, <3>1 DEF Object
    <2>2. c = Stdio => Ending /\ obj[c].life = "listener"
      BY <1>3
    <2>3. CASE Writes(obj, c) /\ client[c].up
      <3>1. client'[c].said = Append(client[c].said, Tag("close"))
        <4>1. client'[c] = [client[c] EXCEPT !.said = Append(@, Tag("close"))]
          BY <1>3, <2>3, EndEffect
        <4>. QED  BY <1>1, <4>1, ClientSaid
      <3>2. /\ client[c].said # <<>> /\ Element(client[c].said) /\ ~Closed(client[c].said)
            /\ Ending
        BY <1>3, <2>2, <2>3 DEF ElementInv, Writes
      <3>3. Element(client'[c].said) /\ client'[c].said # <<>>
        BY <1>1, <3>1, <3>2, OneMore
      <3>4. ~(rpc[c] \in {"none", "start", "tag"} /\ c # Stdio)
        BY <3>2 DEF ElementInv
      <3>. QED  BY <2>1, <3>2, <3>3, <3>4 DEF ElementInv
    <2>4. CASE ~(Writes(obj, c) /\ client[c].up)
      <3>1. client'[c] = client[c]
        BY <1>3, <2>4, EndEffect
      <3>2. Writes(obj', c) => c = Stdio /\ obj[c].established
        BY <2>1 DEF Writes
      <3>3. /\ Element(client'[c].said)
            /\ rpc'[c] \in {"none", "start", "tag"} /\ c # Stdio => client'[c].said = <<>>
        BY <3>1 DEF ElementInv
      <3>4. Closed(client'[c].said) =>
              IF c = Stdio THEN Ending' /\ obj'[c].life \in {"ending", "gone"} ELSE ~obj'[c].sd
        BY <2>1, <2>2
      <3>5. Writes(obj', c) /\ client'[c].up => client'[c].said # <<>>
        <4>1. Writes(obj', c) => Writes(obj, c)
          BY <3>2 DEF Writes, LifeInv
        <4>. QED  BY <2>4, <3>1, <4>1
      <3>. QED  BY <3>3, <3>4, <3>5 DEF ElementInv, Writes
    <2>. QED  BY <2>3, <2>4
  <1>. QED  BY <1>2, <1>3

LEMMA ElementStep ==
    ASSUME CliTypes, [Next]_vars, "tag" \notin Races,
           NEW c \in Conns, LifeInv(c), AnswerInv(c), ElementInv(c)
    PROVE  ElementInv(c)'
  <1>0. Ending => Ending'
    BY TypesStep
  <1>1. ASSUME client'[c].said = client[c].said, client'[c].up => client[c].up,
               obj'[c] = obj[c], rpc'[c] = rpc[c]
        PROVE  ElementInv(c)'
    BY <1>0, <1>1, ElementKept DEF Writes
  <1>2. CASE SetAllowExternalCommands
    <2>1. /\ UNCHANGED <<client, obj>> /\ (c # Stdio => rpc'[c] = rpc[c])
          /\ c = Stdio => rpc'[c] = "top"
      BY <1>2 DEF SetAllowExternalCommands, CliTypes
    <2>2. c = Stdio => rpc[c] # "tag"
      BY DEF LifeInv
    <2>. QED  BY <1>0, <1>1, <2>1, <2>2, ElementKept DEF Writes
  <1>3. CASE Log
    <2>1. /\ Outputs(Listeners, obj, Tag("log")) /\ Tag("log") \in Written
          /\ Tag("log") \notin {Tag("open"), Tag("close")}
      BY <1>3 DEF Log, Tag, Written
    <2>2. rpc' = rpc /\ ~Ending /\ rpc[c] # "tag"
      BY <1>3 DEF Log, Ending, MayWrite
    <2>. QED  BY <2>1, <2>2, ElementOutputs
  <1>4. CASE Reply
    <2>. DEFINE m == <<"reply", job.n>>
    <2>1. m \in Written /\ m \notin {Tag("open"), Tag("close")} /\ Outputs({job.conn}, obj, m)
      BY <1>4 DEF Reply, Tag, CliTypes, Queued, Written
    <2>2. rpc' = rpc /\ ~Ending /\ mpc = "execute"
      BY <1>4 DEF Reply, Ending
    <2>3. c = job.conn => rpc[c] \in {"top", "recv", "parse", "ended"}
      <3>1. Read(c) \in Nat
        BY DEF AnswerInv
      <3>2. c = job.conn => Read(c) > 0
        BY <2>2, <3>1 DEF AnswerInv, Handed, Executing
      <3>. QED  BY <3>2 DEF AnswerInv
    <2>. HIDE DEF m
    <2>. QED  BY <2>1, <2>2, <2>3, ElementOutputs
  <1>5. CASE DeliverEvent \/ Exit \/ JoinServer \/ Gone \/ AcceptLoopEnds \/ UNCHANGED vars
    BY <1>1, <1>5 DEF DeliverEvent, Exit, JoinServer, Gone, AcceptLoopEnds, vars
  <1>6. CASE DestroyNext
    <2>1. PICK e \in Listeners : MayWrite(e) /\ End(e)
      BY <1>6 DEF DestroyNext
    <2>2. e \in Conns /\ Ending /\ obj[e].life = "listener" /\ rpc[e] # "tag" /\ rpc' = rpc
      BY <1>6, <2>1 DEF DestroyNext, Listeners, Ending, MayWrite
    <2>. QED  BY <1>0, <2>1, <2>2, ElementEnds
  <1>7. CASE Erase
    <2>1. PICK e \in look : UNCHANGED <<client, obj>> \/ (~obj[e].sd /\ End(e))
      BY <1>7 DEF Erase
    <2>2. e \in Conns /\ e # Stdio /\ rpc' = rpc
      BY <1>7 DEF Erase, CliTypes, Conns, Clients, Stdio
    <2>. QED  BY <1>0, <1>1, <2>1, <2>2, ElementEnds
  <1>8. CASE JoinConnection \/ JoinErased
    <2>1. PICK e \in Conns : Joined(e)
      BY <1>8 DEF JoinConnection, JoinErased, Conns
    <2>2. UNCHANGED <<client, rpc>>
      BY <1>8 DEF JoinConnection, JoinErased
    <2>3. obj[c] \in Object /\ obj'[c] \in {obj[c], [obj[c] EXCEPT !.life = "gone"]}
      BY <2>1 DEF Joined, CliTypes
    <2>4. /\ obj'[c].sd = obj[c].sd /\ obj'[c].established = obj[c].established
          /\ obj'[c].life \in {obj[c].life, "gone"}
      BY <2>3 DEF Object
    <2>. QED  BY <1>0, <2>2, <2>4, ElementKept DEF Writes
  <1>9. CASE Accept \/ Add
    <2>1. PICK e \in Clients, l \in {"made", "listener"} :
              /\ obj' = [obj EXCEPT ![e].life = l]
              /\ obj[e].life = IF l = "made" THEN "none" ELSE "made"
              /\ rpc' = IF l = "made" THEN rpc ELSE [rpc EXCEPT ![e] = "start"]
      <3>1. CASE Accept
        BY <3>1 DEF Accept
      <3>2. CASE Add
        BY <3>2 DEF Add
      <3>. QED  BY <1>9, <3>1, <3>2
    <2>2. client' = client /\ e \in Conns /\ e # Stdio
      BY <1>9 DEF Accept, Add, Conns, Clients, Stdio
    <2>3. CASE c # e
      BY <1>1, <2>1, <2>2, <2>3 DEF CliTypes
    <2>4. CASE c = e
      <3>1. /\ obj[c] \in Object /\ obj'[c] = [obj[c] EXCEPT !.life = l]
            /\ rpc'[c] \in {rpc[c], "start"} /\ rpc[c] = "none"
        BY <2>1, <2>2, <2>4 DEF CliTypes, LifeInv
      <3>2. obj'[c].sd = obj[c].sd /\ obj'[c].established = obj[c].established
        BY <3>1 DEF Object
      <3>. QED  BY <1>0, <2>2, <2>4, <3>1, <3>2, ElementKept DEF Writes
    <2>. QED  BY <2>3, <2>4
  <1>10. ASSUME NEW e \in Conns, Run(e) \/ World(e), c # e, ~StartOutput(e)
         PROVE  ElementInv(c)'
    <2>1. client'[c] = client[c] /\ obj'[c] = obj[c] /\ rpc'[c] = rpc[c]
      <3>1. CASE Establish(e) \/ LoopTop(e) \/ RunEnds(e)
        BY <1>10, <3>1 DEF Establish, LoopTop, RunEnds, Reader, CliTypes
      <3>2. CASE Recv(e) \/ Parse(e) \/ World(e)
        BY <1>10, <3>2 DEF Recv, Parse, Parsed, Reader, World, Connect, SendCommand, HangUp,
           CliTypes
      <3>. QED  BY <1>10, <3>1, <3>2 DEF Run
    <2>. QED  BY <1>1, <2>1
  <1>11. CASE Establish(c)
    <2>1. /\ rpc[c] = "start" /\ rpc'[c] = "tag" /\ client' = client
          /\ obj'[c] = [obj[c] EXCEPT !.established = TRUE] /\ obj[c] \in Object
      BY <1>11 DEF Establish, Reader, CliTypes
    <2>2. obj'[c].life = obj[c].life /\ obj'[c].sd = obj[c].sd
      BY <2>1 DEF Object
    <2>. QED  BY <1>0, <2>1, <2>2, ElementKept
  <1>12. ASSUME NEW e \in Conns, StartOutput(e) PROVE ElementInv(c)'
    BY <1>0, <1>12, ElementOpened
  <1>13. CASE LoopTop(c)
    <2>1. /\ UNCHANGED <<client, obj>> /\ rpc[c] = "top" /\ rpc'[c] \in {"recv", "ended"}
      BY <1>13 DEF LoopTop, Reader, CliTypes
    <2>. QED  BY <1>0, <2>1, ElementKept DEF Writes
  <1>14. CASE Recv(c) \/ Parse(c)
    <2>1. /\ client'[c].said = client[c].said /\ client'[c].up = client[c].up
          /\ obj' = obj /\ rpc[c] \in {"recv", "parse"} /\ rpc'[c] \in {"top", "parse"}
      BY <1>14 DEF Recv, Parse, Parsed, Reader, CliTypes, Client
    <2>. QED  BY <1>0, <2>1, ElementKept DEF Writes
  <1>15. CASE RunEnds(c)
    <2>1. /\ rpc[c] \in {"top", "recv"} /\ rpc'[c] = "ended" /\ client' = client
          /\ obj[c] \in Object
      BY <1>15 DEF RunEnds, Reader, CliTypes
    <2>2. obj' = [obj EXCEPT ![c] = [obj[c] EXCEPT !.sd = obj[c].sd /\ c = Stdio]]
      BY <1>15 DEF RunEnds, CliTypes
    <2>3. /\ obj'[c].life = obj[c].life /\ obj'[c].established = obj[c].established
          /\ (obj'[c].sd => obj[c].sd)
      BY <2>1, <2>2 DEF CliTypes, Object
    <2>. QED  BY <1>0, <2>1, <2>3, ElementKept DEF Writes
  <1>16. CASE Connect(c)
    <2>1. /\ client'[c].said = client[c].said /\ UNCHANGED <<obj, rpc>>
          /\ obj[c].life = "none"
      BY <1>16 DEF Connect, Connected, CliTypes, Client
    <2>2. ~Writes(obj', c)
      BY <2>1 DEF LifeInv, Writes
    <2>. QED  BY <1>0, <2>1, <2>2, ElementKept
  <1>17. CASE SendCommand(c) \/ HangUp(c)
    <2>1. /\ client'[c].said = client[c].said /\ UNCHANGED <<obj, rpc>> /\ client[c].up
      BY <1>17 DEF SendCommand, HangUp, CliTypes, Client
    <2>. QED  BY <1>1, <2>1
  <1>. QED
    BY <1>2, <1>3, <1>4, <1>5, <1>6, <1>7, <1>8, <1>9, <1>10, <1>11, <1>12, <1>13, <1>14, <1>15,
       <1>16, <1>17 DEF Next, Main, MainLoop, Run, World

---------------------------------------------------------------------------
\* The replies are numbered, and the commands that were answered were sent.
LEMMA AnswersInOrder ==
    ASSUME CliTypes, \A c \in Conns : AnswerInv(c)
    PROVE  RepliesInOrder
  <1>1. ASSUME NEW c \in Conns
        PROVE  Cardinality(Replies(c)) <= client[c].sent
    <2>1. PICK b \in 0..Read(c) : Handed(c, b)
      BY DEF AnswerInv
    <2>2. Cardinality(Replies(c)) <= b /\ Cardinality(Replies(c)) \in Nat /\ Len(client[c].inbox) \in Nat
      BY <2>1, RepliesCount DEF Handed
    <2>3. Read(c) <= client[c].sent /\ Read(c) \in Nat /\ client[c].sent \in Nat
      BY <2>2 DEF Read, AnswerInv, CliTypes, Client
    <2>. QED  BY <2>1, <2>2, <2>3
  <1>. QED  BY <1>1 DEF RepliesInOrder, AnswerInv

LEMMA AnswersInvariant ==
    ASSUME "address" \notin Races
    PROVE  Spec => [](CliTypes /\ \A c \in Conns : LifeInv(c) /\ AnswerInv(c))
  <1>. DEFINE Inv == CliTypes /\ \A c \in Conns : LifeInv(c) /\ AnswerInv(c)
  <1>1. Init => Inv
    BY TypesInit, LifeInit, AnswerInit
  <1>2. Inv /\ [Next]_vars => Inv'
    BY TypesStep, LifeStep, AnswerStep
  <1>. QED  BY <1>1, <1>2, PTL DEF Spec

(* Every client gets the replies to its own commands, one each, in the order *)
(* it sent them, for any number of clients, commands and messages: whatever  *)
(* the threads interleave, also while a connection is destroyed and while    *)
(* the main thread writes before the opening tag, as long as no new          *)
(* connection is given the address of one whose commands are still queued    *)
(* (CliConnection::execute(), signalEvent()).                                *)
THEOREM RepliesAreInOrder ==
    ASSUME "address" \notin Races
    PROVE  Spec => []RepliesInOrder
  <1>. DEFINE Inv == CliTypes /\ \A c \in Conns : LifeInv(c) /\ AnswerInv(c)
  <1>1. Spec => []Inv
    BY AnswersInvariant
  <1>2. Inv => RepliesInOrder
    BY AnswersInOrder
  <1>. HIDE DEF Inv
  <1>. QED  BY <1>1, <1>2, PTL

(* What is written to a client is one element, for any number of clients,    *)
(* commands and messages: the opening tag first, once, and nothing behind    *)
(* the closing one, as long as the main thread does not write between        *)
(* established = true and startOutput(), and no address is given again       *)
(* (startOutput(), end(), output()).                                         *)
THEOREM OutputIsOneElement ==
    ASSUME "address" \notin Races, "tag" \notin Races
    PROVE  Spec => []OneElement
  <1>. DEFINE Inv == CliTypes /\ \A c \in Conns : LifeInv(c) /\ AnswerInv(c)
              One == \A c \in Conns : ElementInv(c)
  <1>1. Init => One
    BY ElementInit
  <1>2. Inv /\ One /\ [Next]_vars => One'
    BY ElementStep
  <1>3. One => OneElement
    BY DEF ElementInv, Element, OneElement
  <1>4. Spec => []Inv
    BY AnswersInvariant
  <1>. HIDE DEF Inv, One
  <1>. QED  BY <1>1, <1>2, <1>3, <1>4, PTL DEF Spec

==============================================================================
