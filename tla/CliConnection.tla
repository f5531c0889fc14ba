----------------------------- MODULE CliConnection ----------------------------
(* External control of openMSX: programs connect to a socket (CliServer.cc), *)
(* or write to stdin, and send commands; a thread of each connection reads   *)
(* them (CliConnection.cc), an event takes each one to the main thread,      *)
(* which executes it and writes the reply and the log (GlobalCliComm.cc).    *)
(* Connections that the client closed are destroyed by the thread of the     *)
(* server, when the next client comes.                                       *)
EXTENDS Integers, FiniteSets, SequencesExt

CONSTANTS NumClients,   \* programs that connect to the socket, in this order
          MaxCommands,  \* bound: commands of all together
          MaxLogs,      \* bound: messages in the log
          Races         \* the interleavings of RaceKinds that are allowed

\* "erase": a connection is destroyed while the main thread executes its
\*    command.
\* "tag": the main thread writes between established = true and startOutput().
\* "address": a new connection gets the address of a destroyed one, which is
\*    the id in the events that are still queued.
RaceKinds == {"erase", "tag", "address"}

ASSUME ConstantsAssumption ==
    /\ {NumClients, MaxCommands, MaxLogs} \subseteq Nat
    /\ Races \subseteq RaceKinds

\* The connection to stdin and stdout, and those to the clients.
Stdio   == 0
Clients == 1..NumClients
Conns   == Clients \cup {Stdio}

VARIABLES client,    \* the other end of each connection
          obj,       \* the CliConnection objects
          rpc,       \* where the thread of each one is
          spc, look, \* the thread of the server; listeners to look at
          mpc, job,  \* the main thread; the command it executes
          events,    \* CliCommandEvents, in order
          logs       \* messages that were logged

vars == <<client, obj, rpc, spc, look, mpc, job, events, logs>>

NoJob == [conn |-> Stdio, n |-> 0]
Command == [conn : Conns, n : 1..MaxCommands]
\* What is written: the tag that opens or closes all, a log, the n-th reply.
Message == {"open", "close", "log", "reply"} \X (0..MaxCommands)
Tag(kind) == <<kind, 0>>

\* up: the client did not close its end; sent: commands it sent; inbox: those
\* that were not parsed; said: what was written to it.
NewClient == [up |-> FALSE, sent |-> 0, inbox |-> <<>>, said |-> <<>>]

\* sd: the descriptor is not OPENMSX_INVALID_SOCKET.
NewObject(life) == [life |-> life, sd |-> TRUE, established |-> FALSE, aborted |-> FALSE]

\* StdioConnection is made while the command line is parsed, and writes the tag.
Init ==
    /\ client = [c \in Conns |->
         IF c = Stdio THEN [NewClient EXCEPT !.up = TRUE, !.said = <<Tag("open")>>]
         ELSE NewClient]
    /\ obj = [c \in Conns |->
         IF c = Stdio THEN [NewObject("listener") EXCEPT !.established = TRUE]
         ELSE NewObject("none")]
    /\ rpc = [c \in Conns |-> "none"]
    /\ spc = "none" /\ look = {}
    /\ mpc = "starting" /\ job = NoJob
    /\ events = <<>> /\ logs = 0

---------------------------------------------------------------------------
(* What the threads share.                                                   *)

\* Objects whose event listener is registered: until they are destroyed.
Registered == {c \in Conns : obj[c].life \in {"made", "listener", "ending"}}

\* GlobalCliComm::listeners
Listeners == {c \in Conns : obj[c].life \in {"listener", "ending"}}

\* GlobalCliComm::mutex: addListener() has it.
MutexFree == spc \notin {"look", "join"}

\* A variant of Writes: it is not tested whether the tag was sent.
WritesUntested(o, c) == o[c].sd

\* output(): whether it writes.
Writes(o, c) == o[c].established /\ o[c].sd

\* output() of one message to the connections in cs: whoever is gone misses it,
\* and the failure closes the connection and ends its thread.
Outputs(cs, o, what) ==
    /\ client' = [c \in Conns |->
         IF c \in cs /\ Writes(o, c) /\ client[c].up
         THEN [client[c] EXCEPT !.said = Append(@, what)] ELSE client[c]]
    /\ \E failing \in SUBSET {c \in cs \ {Stdio} : Writes(o, c) /\ ~client[c].up} :
         obj' = [c \in Conns |->
           IF c \in failing THEN [o[c] EXCEPT !.sd = FALSE, !.aborted = TRUE]
           ELSE o[c]]

\* The main thread may write to c at this moment.
MayWrite(c) == rpc[c] = "tag" => "tag" \in Races

---------------------------------------------------------------------------
(* The main thread.                                                          *)

\* Reactor::runStartupScripts() lets connections start, and then the server is
\* made; the connections of the server are started when they are added.
SetAllowExternalCommands ==
    /\ mpc = "starting" /\ mpc' = "idle"
    /\ rpc' = [rpc EXCEPT ![Stdio] = "top"]
    /\ spc' = "poll"
    /\ UNCHANGED <<client, obj, look, job, events, logs>>

\* GlobalCliComm::log(), and update()
Log ==
    /\ mpc \in {"idle", "execute"} /\ MutexFree /\ logs < MaxLogs
    /\ \A c \in Conns : MayWrite(c)
    /\ Outputs(Listeners, obj, Tag("log"))
    /\ logs' = logs + 1
    /\ UNCHANGED <<rpc, spc, look, mpc, job, events>>

\* A variant of Addressees: the id is not compared.
Everyone(e) == Registered

\* CliConnection::signalEvent() is called for each connection, and compares
\* the address in the event with its own.
Addressees(e) ==
    IF e.conn \in Registered THEN {e.conn}
    ELSE IF "address" \in Races THEN Registered \cap Clients
    ELSE {}

DeliverEvent ==
    /\ mpc = "idle" /\ events # <<>>
    /\ events' = Tail(events)
    /\ \/ /\ Addressees(Head(events)) = {}
          /\ UNCHANGED <<mpc, job>>
       \/ \E c \in Addressees(Head(events)) :
            mpc' = "execute" /\ job' = [conn |-> c, n |-> Head(events).n]
    /\ UNCHANGED <<client, obj, rpc, spc, look, logs>>

\* executeCommand() has returned: the reply.
Reply ==
    /\ mpc = "execute" /\ mpc' = "idle" /\ job' = NoJob
    /\ Outputs({job.conn}, obj, <<"reply", job.n>>)
    /\ UNCHANGED <<rpc, spc, look, events, logs>>

\* main() ends: the destructor of the server, that of GlobalCliComm, which ends
\* and destroys the connections one after the other.
Exit ==
    /\ mpc = "idle" /\ mpc' = "joinServer"
    /\ UNCHANGED <<client, obj, rpc, spc, look, job, events, logs>>

JoinServer ==
    /\ mpc = "joinServer" /\ spc = "ended" /\ mpc' = "destroy"
    /\ UNCHANGED <<client, obj, rpc, spc, look, job, events, logs>>

\* CliConnection::end(): the closing tag, close() and poller.abort().
Ended(c) == [obj EXCEPT ![c].life = "ending", ![c].aborted = TRUE,
                        ![c].sd = (c = Stdio)]

End(c) ==
    /\ client' = [client EXCEPT ![c].said =
         IF Writes(obj, c) /\ client[c].up THEN Append(@, Tag("close")) ELSE @]
    /\ obj' = Ended(c)

DestroyNext ==
    /\ mpc = "destroy" /\ \A c \in Conns : obj[c].life # "ending"
    /\ \E c \in Listeners : MayWrite(c) /\ End(c)
    /\ UNCHANGED <<rpc, spc, look, mpc, job, events, logs>>

\* The thread is joined, and the object is no more.
Joined(c) ==
    /\ obj[c].life = "ending" /\ rpc[c] \in {"none", "ended"}
    /\ obj' = [obj EXCEPT ![c].life = "gone"]

JoinConnection ==
    /\ mpc = "destroy" /\ \E c \in Conns : Joined(c)
    /\ UNCHANGED <<client, rpc, spc, look, mpc, job, events, logs>>

Gone ==
    /\ mpc \in {"destroy", "gone"} /\ Listeners = {} /\ mpc' = "gone"
    /\ UNCHANGED <<client, obj, rpc, spc, look, job, events, logs>>

---------------------------------------------------------------------------
(* The server: CliServer::mainLoop(), and addListener() in its thread.       *)

Server(from, to) == spc = from /\ spc' = to

\* exitAcceptLoop() was called.
Exiting == mpc \in {"joinServer", "destroy", "gone"}

\* The first client of those that wait: the connection is made and listens to
\* events; addListener() takes the mutex and looks at every listener there is.
Accept ==
    /\ Server("poll", "look") /\ ~Exiting
    /\ \E c \in Clients :
         /\ client[c].up /\ obj[c].life = "none" /\ obj[c - 1].life # "none"
         /\ obj' = [obj EXCEPT ![c].life = "made"]
    /\ look' = Listeners \ {Stdio}
    /\ UNCHANGED <<client, rpc, mpc, job, events, logs>>

AcceptLoopEnds ==
    /\ Exiting /\ Server("poll", "ended")
    /\ UNCHANGED <<client, obj, rpc, look, mpc, job, events, logs>>

\* isClosed(): the destructor ends the connection, and joins its thread.
Erase ==
    /\ \E c \in look :
         /\ look' = look \ {c}
         /\ IF obj[c].sd THEN spc' = "look" /\ UNCHANGED <<client, obj>>
            ELSE End(c) /\ spc' = "join"
    /\ spc = "look"
    /\ UNCHANGED <<rpc, mpc, job, events, logs>>

JoinErased ==
    /\ Server("join", "look")
    /\ \E c \in Clients : Joined(c) /\ (job.conn = c => "erase" \in Races)
    /\ UNCHANGED <<client, rpc, look, mpc, job, events, logs>>

\* A variant of Add: the connection is never started.
AddUnstarted ==
    /\ Server("look", "poll") /\ look = {}
    /\ \E c \in Clients :
         /\ obj[c].life = "made"
         /\ obj' = [obj EXCEPT ![c].life = "listener"]
    /\ UNCHANGED <<client, rpc, look, mpc, job, events, logs>>

\* push_back(), and start()
Add ==
    /\ Server("look", "poll") /\ look = {}
    /\ \E c \in Clients :
         /\ obj[c].life = "made"
         /\ obj' = [obj EXCEPT ![c].life = "listener"]
         /\ rpc' = [rpc EXCEPT ![c] = "start"]
    /\ UNCHANGED <<client, look, mpc, job, events, logs>>

---------------------------------------------------------------------------
(* The thread of a connection: SocketConnection::run().                      *)

Reader(c, from, to) == rpc[c] = from /\ rpc' = [rpc EXCEPT ![c] = to]

Establish(c) ==
    /\ Reader(c, "start", "tag")
    /\ obj' = [obj EXCEPT ![c].established = TRUE]
    /\ UNCHANGED <<client, spc, look, mpc, job, events, logs>>

StartOutput(c) ==
    /\ Reader(c, "tag", "top")
    /\ Outputs({c}, obj, Tag("open"))
    /\ UNCHANGED <<spc, look, mpc, job, events, logs>>

\* The test of sd (without the mutex), and poll() that returns.
LoopTop(c) ==
    /\ obj[c].sd => ~obj[c].aborted /\ (client[c].inbox # <<>> \/ ~client[c].up)
    /\ Reader(c, "top", IF obj[c].sd THEN "recv" ELSE "ended")
    /\ UNCHANGED <<client, obj, spc, look, mpc, job, events, logs>>

\* execute() for the next command in what recv() returned, as the parser finds
\* it complete: it may be the last one in the buffer, or not.
Parsed(c, from) ==
    /\ client[c].inbox # <<>>
    /\ \/ Reader(c, from, "top")
       \/ Len(client[c].inbox) > 1 /\ Reader(c, from, "parse")
    /\ events' = Append(events, [conn |-> c, n |-> Head(client[c].inbox)])
    /\ client' = [client EXCEPT ![c].inbox = Tail(@)]
    /\ UNCHANGED <<obj, spc, look, mpc, job, logs>>

\* recv() needs the socket; the rest of the buffer is parsed without it.
Recv(c)  == obj[c].sd /\ Parsed(c, "recv")
Parse(c) == Parsed(c, "parse")

\* poll() was aborted, or recv() fails: closeSocket() at the end of run(); a
\* StdioConnection closes nothing.
RunEnds(c) ==
    /\ \/ obj[c].sd /\ obj[c].aborted /\ Reader(c, "top", "ended")
       \/ (~obj[c].sd \/ client[c].inbox = <<>>) /\ Reader(c, "recv", "ended")
    /\ obj' = [obj EXCEPT ![c].sd = @ /\ c = Stdio]
    /\ UNCHANGED <<client, spc, look, mpc, job, events, logs>>

Run(c) == Establish(c) \/ StartOutput(c) \/ LoopTop(c) \/ Recv(c)
          \/ Parse(c) \/ RunEnds(c)

---------------------------------------------------------------------------
(* External: the clients.                                                    *)

Connected == {c \in Conns : client[c].up \/ obj[c].life # "none"}

Connect(c) ==
    /\ c # Stdio /\ c - 1 \in Connected /\ c \notin Connected
    /\ mpc # "starting" /\ ~Exiting
    /\ client' = [client EXCEPT ![c].up = TRUE]
    /\ UNCHANGED <<obj, rpc, spc, look, mpc, job, events, logs>>

SendCommand(c) ==
    /\ client[c].up /\ MapThenSumSet(LAMBDA d : client[d].sent, Conns) < MaxCommands
    /\ client' = [client EXCEPT ![c].sent = @ + 1,
                                ![c].inbox = Append(@, client[c].sent + 1)]
    /\ UNCHANGED <<obj, rpc, spc, look, mpc, job, events, logs>>

HangUp(c) ==
    /\ c # Stdio /\ client[c].up /\ obj[c].life # "none"
    /\ client' = [client EXCEPT ![c].up = FALSE]
    /\ UNCHANGED <<obj, rpc, spc, look, mpc, job, events, logs>>

---------------------------------------------------------------------------
Main ==
    \/ SetAllowExternalCommands \/ Log \/ DeliverEvent \/ Reply
    \/ Exit \/ JoinServer \/ DestroyNext \/ JoinConnection \/ Gone

MainLoop == Accept \/ AcceptLoopEnds \/ Erase \/ JoinErased \/ Add

World(c) == Connect(c) \/ SendCommand(c) \/ HangUp(c)

Next == Main \/ MainLoop \/ \E c \in Conns : Run(c) \/ World(c)

\* Threads that can run do, the main loop executes the events, and an exit
\* that has begun is completed.
Fairness ==
    /\ WF_vars(SetAllowExternalCommands) /\ WF_vars(DeliverEvent) /\ WF_vars(Reply)
    /\ WF_vars(JoinServer \/ DestroyNext \/ JoinConnection \/ Gone)
    /\ WF_vars(MainLoop)
    /\ \A c \in Conns : WF_vars(Run(c))

Spec == Init /\ [][Next]_vars /\ Fairness

---------------------------------------------------------------------------
TypeOK ==
    /\ \A c \in Conns :
         /\ client[c].up \in BOOLEAN /\ client[c].sent \in 0..MaxCommands
         /\ client[c].inbox \in Seq(1..MaxCommands) /\ client[c].said \in Seq(Message)
         /\ obj[c] \in [life : {"none", "made", "listener", "ending", "gone"},
                        sd : BOOLEAN, established : BOOLEAN, aborted : BOOLEAN]
         /\ rpc[c] \in {"none", "start", "tag", "top", "recv", "parse", "ended"}
    /\ spc \in {"none", "poll", "look", "join", "ended"}
    /\ look \subseteq Clients
    /\ mpc \in {"starting", "idle", "execute", "joinServer", "destroy", "gone"}
    /\ job \in Command \cup {NoJob}
    /\ events \in Seq(Command) /\ logs \in 0..MaxLogs

\* Where the replies are in what was written.
RepliesIn(said) == {i \in DOMAIN said : said[i][1] = "reply"}
Replies(c) == RepliesIn(client[c].said)

\* The i-th reply is to the i-th command.
Numbered(said) == \A i \in RepliesIn(said) :
    said[i][2] = Cardinality({j \in RepliesIn(said) : j <= i})

(* Every client gets the replies to its own commands, one each, in the order *)
(* it sent them, however the threads, the clients and the log interleave     *)
(* (CliConnection::execute(), signalEvent()).                                *)
RepliesInOrder ==
    \A c \in Conns :
        /\ Cardinality(Replies(c)) <= client[c].sent
        /\ Numbered(client[c].said)

(* What is written to a client is one element: it starts with the opening    *)
(* tag, which is sent once, and nothing follows the closing tag, although    *)
(* three threads write to it (startOutput(), end(), output()).               *)
OneElement ==
    \A c \in Conns : LET said == client[c].said IN
        \A i \in DOMAIN said :
            /\ said[i] = Tag("open") <=> i = 1
            /\ said[i] = Tag("close") => i = Len(said)

(* A client that wrote commands gets all the replies in the end, unless it   *)
(* leaves or openMSX exits; also when it wrote before openMSX had started,   *)
(* and whatever the server destroys meanwhile.                               *)
Unanswered(c) == Cardinality(Replies(c)) < client[c].sent
Answered ==
    \A c \in Conns : Unanswered(c) ~> ~Unanswered(c) \/ ~client[c].up \/ Exiting
===========================================================================
