----------------------------- MODULE UnapiWorkers ----------------------------
(* Name lookups and echoes of the UNAPI network cartridge, and how the       *)
(* device ends (src/src/unapinet/UnapiNet.cc).  The emulation thread hands a *)
(* request to a worker, which sleeps on a condition variable, makes a call   *)
(* that blocks, and publishes what came of it; a reset may come in between,  *)
(* and the destructor joins both workers.                                    *)
EXTENDS Naturals, SequencesExt

CONSTANTS Names,       \* names that are looked up
          None,
          QueueSize,   \* MAX_ICMP_QUEUE
          MaxEchoes,   \* bound: echoes asked for
          MaxResets    \* bound: resets

ASSUME ConstantsAssumption ==
    /\ None \notin Names
    /\ QueueSize \in Nat \ {0} /\ {MaxEchoes, MaxResets} \subseteq Nat

VARIABLES running,  \* the device is not being destroyed
          main,     \* where the emulation thread is
          wpc,      \* where each worker is
          request,  \* dns.request, and icmpRequest while icmpPending
          job,      \* a worker's local: what it works at
          dns,      \* status, and the answer
          asked,    \* not in the code: the name the MSX asked for last, if it
                    \* did since the last reset
          echo      \* icmpGeneration, icmpReplies; the number of echoes asked

mainVars == <<running, main, asked>>
vars == <<mainVars, wpc, request, job, dns, echo>>

Workers == {"icmp", "dns"}
\* The n-th echo that was asked for, after the resets gen.
Echo  == [n : 1..MaxEchoes, gen : 0..MaxResets]
\* What icmpWorkerLoop() copies: the request, and the generation of that moment.
EchoJob == [echo : Echo, gen : 0..MaxResets]
Idle  == [status |-> "Idle", answer |-> None]
Statuses == {"Idle", "InProgress", "Complete", "Error"}

\* test: about to take the mutex and test what it waits for; parking: it found
\* nothing to do and still has the mutex; parked: it waits without it.
WorkerPCs == {"test", "parking", "parked", "call", "ended"}
\* The steps of the destructor for each worker, and before and after them.
MainPCs == {"command", "resetIcmp"} \cup {"icmpLock", "icmpNotify", "icmpJoin",
                                        "dnsLock", "dnsNotify", "dnsJoin", "gone"}

Init ==
    /\ running = TRUE /\ main = "command" /\ asked = None
    /\ wpc = [w \in Workers |-> "test"]
    /\ request = [w \in Workers |-> None] /\ job = [w \in Workers |-> None]
    /\ dns = Idle
    /\ echo = [gen |-> 0, replies |-> <<>>, count |-> 0]

\* Between a test that failed and the wait, the worker has the mutex.
MutexFree(w) == wpc[w] # "parking"

\* Mutant: the notify is left out.
Unnotified(w) == wpc
\* notify_one(), notify_all(): there is one that may wait.
Notified(w) == IF wpc[w] = "parked" THEN [wpc EXCEPT ![w] = "test"] ELSE wpc

---------------------------------------------------------------------------
\* The emulation thread: commands of the MSX.

Command == main = "command"

\* cmdDnsQuery(): an address is its own answer, another name is for the worker.
DnsQuery(name) ==
    /\ Command /\ MutexFree("dns")
    /\ dns.status # "InProgress"
    /\ asked' = name
    /\ \/ /\ dns' = [status |-> "Complete", answer |-> name]
          /\ UNCHANGED <<wpc, request>>
       \/ /\ dns' = [status |-> "InProgress", answer |-> None]
          /\ request' = [request EXCEPT !["dns"] = name]
          /\ wpc' = Notified("dns")
    /\ UNCHANGED <<running, main, job, echo>>

\* cmdIcmpSend(): it replaces an echo that no worker has begun.
IcmpSend ==
    /\ Command /\ MutexFree("icmp")
    /\ echo.count < MaxEchoes
    /\ echo' = [echo EXCEPT !.count = @ + 1]
    /\ request' = [request EXCEPT !["icmp"] = [n |-> echo'.count, gen |-> echo.gen]]
    /\ wpc' = Notified("icmp")
    /\ UNCHANGED <<mainVars, job, dns>>

\* cmdIcmpRecv()
IcmpRecv ==
    /\ Command /\ MutexFree("icmp")
    /\ echo.replies # <<>>
    /\ echo' = [echo EXCEPT !.replies = Tail(@)]
    /\ UNCHANGED <<mainVars, wpc, request, job, dns>>

\* Mutant: an echo that no worker has begun stays.
KeepsEcho(w) == IF w = "icmp" THEN request ELSE [request EXCEPT ![w] = None]
Disowned(w) == [request EXCEPT ![w] = None]

\* reset(): first the lookups, then the echoes, each under its mutex.
ResetDns ==
    /\ Command /\ MutexFree("dns")
    /\ echo.gen < MaxResets
    /\ main' = "resetIcmp"
    /\ dns' = Idle /\ asked' = None
    /\ request' = Disowned("dns")
    /\ UNCHANGED <<running, wpc, job, echo>>

ResetIcmp ==
    /\ main = "resetIcmp" /\ MutexFree("icmp")
    /\ main' = "command"
    /\ echo' = [echo EXCEPT !.gen = @ + 1, !.replies = <<>>]
    /\ request' = Disowned("icmp")
    /\ UNCHANGED <<running, asked, wpc, job, dns>>

---------------------------------------------------------------------------
\* The workers: dnsWorkerLoop(), icmpWorkerLoop().

WorkerOnly == UNCHANGED mainVars

\* The test of wait(), and what is copied under the mutex: the name stays as the
\* token of the lookup, the echo is taken.
Test(w) ==
    /\ wpc[w] = "test"
    /\ IF ~running
       THEN wpc' = [wpc EXCEPT ![w] = "ended"] /\ UNCHANGED <<request, job>>
       ELSE IF request[w] = None
       THEN wpc' = [wpc EXCEPT ![w] = "parking"] /\ UNCHANGED <<request, job>>
       ELSE /\ wpc' = [wpc EXCEPT ![w] = "call"]
            /\ IF w = "dns"
               THEN job' = [job EXCEPT ![w] = request[w]] /\ UNCHANGED request
               ELSE /\ job' = [job EXCEPT ![w] = [echo |-> request[w], gen |-> echo.gen]]
                    /\ request' = [request EXCEPT ![w] = None]
    /\ UNCHANGED <<dns, echo>> /\ WorkerOnly

Park(w) ==
    /\ wpc[w] = "parking"
    /\ wpc' = [wpc EXCEPT ![w] = "parked"]
    /\ UNCHANGED <<request, job, dns, echo>> /\ WorkerOnly

\* A condition variable may also wake without a reason.
WakeSpuriously(w) ==
    /\ wpc[w] = "parked"
    /\ wpc' = Notified(w)
    /\ UNCHANGED <<request, job, dns, echo>> /\ WorkerOnly

Return(w) == wpc' = [wpc EXCEPT ![w] = "test"] /\ job' = [job EXCEPT ![w] = None]

\* Mutant: whatever was looked up is published.
PublishAll == TRUE
\* "dns.request == hostname"
StillAsked == request["dns"] = job["dns"]

\* getaddrinfo() has returned, with an address or without.
PublishName ==
    /\ wpc["dns"] = "call" /\ Return("dns")
    /\ IF StillAsked
       THEN /\ request' = [request EXCEPT !["dns"] = None]
            /\ \E status \in {"Complete", "Error"} : dns' = [status |-> status, answer |-> job["dns"]]
       ELSE UNCHANGED <<request, dns>>
    /\ UNCHANGED echo /\ WorkerOnly

\* A full queue loses its oldest reply.
Queued(q, r) == Append(IF Len(q) >= QueueSize THEN Tail(q) ELSE q, r)

\* IcmpSendEcho() has returned, with a reply or without.
PublishEcho ==
    /\ wpc["icmp"] = "call" /\ Return("icmp")
    /\ \/ /\ echo.gen = job["icmp"].gen
          /\ echo' = [echo EXCEPT !.replies = Queued(@, job["icmp"].echo)]
       \/ UNCHANGED echo
    /\ UNCHANGED <<request, dns>> /\ WorkerOnly

WorkerLoop(w) == Test(w) \/ Park(w) \/ (IF w = "dns" THEN PublishName ELSE PublishEcho)

---------------------------------------------------------------------------
\* ~UnapiNet().  The socket thread is joined before; it tests running in every
\* pass.

Goto(from, to) == main = from /\ main' = to
OnlyMain == UNCHANGED <<asked, request, job, dns, echo>>

Stop ==
    /\ Goto("command", "icmpLock")
    /\ running' = FALSE
    /\ UNCHANGED wpc /\ OnlyMain

\* Mutant: the empty critical section is left out.
NoCriticalSection(w) == TRUE
\* The mutex is taken and released.
CriticalSection(w) == MutexFree(w)

EndWorker(w, lock, notify, join, next) ==
    \/ Goto(lock, notify) /\ CriticalSection(w) /\ UNCHANGED <<running, wpc>> /\ OnlyMain
    \/ Goto(notify, join) /\ wpc' = Notified(w) /\ UNCHANGED running /\ OnlyMain
    \/ Goto(join, next) /\ wpc[w] = "ended" /\ UNCHANGED <<running, wpc>> /\ OnlyMain

Destructor == \/ EndWorker("icmp", "icmpLock", "icmpNotify", "icmpJoin", "dnsLock")
              \/ EndWorker("dns", "dnsLock", "dnsNotify", "dnsJoin", "gone")

---------------------------------------------------------------------------
Next == \/ \E name \in Names : DnsQuery(name)
        \/ IcmpSend \/ IcmpRecv \/ ResetDns \/ ResetIcmp
        \/ \E w \in Workers : WorkerLoop(w) \/ WakeSpuriously(w)
        \/ Stop \/ Destructor

\* The workers run and their calls return; a destructor that has begun goes on.
\* Nothing is assumed of the MSX, and no wake-up comes without a notify.
Spec == Init /\ [][Next]_vars /\ WF_vars(Destructor)
             /\ \A w \in Workers : WF_vars(WorkerLoop(w))

---------------------------------------------------------------------------
TypeOK ==
    /\ running \in BOOLEAN /\ main \in MainPCs /\ asked \in Names \cup {None}
    /\ wpc \in [Workers -> WorkerPCs]
    /\ request["dns"] \in Names \cup {None} /\ request["icmp"] \in Echo \cup {None}
    /\ job["dns"] \in Names \cup {None} /\ job["icmp"] \in EchoJob \cup {None}
    /\ dns \in [status : Statuses, answer : Names \cup {None}]
    /\ echo.gen \in 0..MaxResets /\ echo.replies \in Seq(Echo) /\ echo.count \in 0..MaxEchoes

\* "request.has_value() iff status == InProgress" (UnapiNet.hh), and what DNS_STATUS
\* tells the MSX is about the name it asked for last: a lookup that ends after a
\* reset stays silent (reset(), dnsWorkerLoop()).
AnswerIsForQuestion ==
    /\ (request["dns"] # None) = (dns.status = "InProgress")
    /\ (asked = None) = (dns.status = "Idle")
    /\ dns.status \in {"Complete", "Error"} => dns.answer = asked

\* "an echo still in flight must not repopulate the queue we just cleared"
\* (reset()): the replies are to echoes asked for since the last reset, in the
\* order in which they were asked for, and no more than fit.
NoEchoAcrossReset ==
    /\ \A i \in DOMAIN echo.replies : echo.replies[i].gen = echo.gen
    /\ \A i, j \in DOMAIN echo.replies : i < j => echo.replies[i].n < echo.replies[j].n
    /\ Len(echo.replies) <= QueueSize

\* A lookup that was started ends, whatever lookups were given up before it
\* (cmdDnsQuery(), dnsWorkerLoop()).
QueryAnswered == dns.status = "InProgress" ~> dns.status # "InProgress" \/ ~running

\* "Without it ... the join would wait forever" (~UnapiNet()): both joins end.
ShutdownEnds == ~running ~> main = "gone"
=============================================================================
