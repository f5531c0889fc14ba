-------------------------- MODULE UnapiWorkersProofs --------------------------
(* For any names, queue size and number of echoes and resets: what the MSX   *)
(* is told of a lookup is about the name it asked for, and no reply to an    *)
(* echo survives a reset or arrives out of order.                            *)
EXTENDS UnapiWorkers, TLAPS

---------------------------------------------------------------------------
(* Lookups.                                                                  *)

DnsTypes ==
    /\ asked \in Names \cup {None}
    /\ wpc \in [Workers -> WorkerPCs]
    /\ DOMAIN request = Workers /\ DOMAIN job = Workers
    /\ request["dns"] \in Names \cup {None}
    /\ dns \in [status : Statuses, answer : Names \cup {None}]

\* The token of a lookup is the name asked for, and a worker has a name.
DnsTokens ==
    /\ request["dns"] # None => request["dns"] = asked
    /\ wpc["dns"] = "call" => job["dns"] \in Names

DnsInv == DnsTypes /\ DnsTokens /\ AnswerIsForQuestion

dnsVars == <<asked, dns, request["dns"], job["dns"]>>

\* A notified worker was not at work, and is not.
LEMMA NotifiedTypes ==
    ASSUME wpc \in [Workers -> WorkerPCs], NEW w \in Workers
    PROVE  /\ Notified(w) \in [Workers -> WorkerPCs]
           /\ \A v \in Workers : Notified(w)[v] = "call" <=> wpc[v] = "call"
  BY DEF Notified, WorkerPCs

\* Steps that leave the lookups alone.
LEMMA DnsUnchanged ==
    ASSUME DnsInv, UNCHANGED dnsVars, wpc' \in [Workers -> WorkerPCs],
           DOMAIN request' = Workers, DOMAIN job' = Workers,
           wpc'["dns"] = "call" => wpc["dns"] = "call"
    PROVE  DnsInv'
  BY DEF DnsInv, DnsTypes, DnsTokens, AnswerIsForQuestion, dnsVars

LEMMA InitDns == Init => DnsInv
  BY ConstantsAssumption
     DEF Init, DnsInv, DnsTypes, DnsTokens, AnswerIsForQuestion, Idle, Workers, WorkerPCs, Statuses

LEMMA NextDns == DnsInv /\ [Next]_vars => DnsInv'
  <1>. SUFFICES ASSUME DnsInv, [Next]_vars PROVE DnsInv'
    OBVIOUS
  <1>. USE DEF DnsInv
  <1>0. /\ "dns" \in Workers /\ "icmp" \in Workers /\ "dns" # "icmp"
        /\ \A w \in Workers : w = "dns" \/ w = "icmp"
    BY DEF Workers
  <1>1. ASSUME NEW name \in Names, DnsQuery(name) PROVE DnsInv'
    <2>1. asked' = name /\ name # None /\ job' = job
      BY <1>1, ConstantsAssumption DEF DnsQuery
    <2>2. CASE /\ dns' = [status |-> "Complete", answer |-> name]
               /\ UNCHANGED <<wpc, request>>
      <3>1. request["dns"] = None
        BY <1>1 DEF DnsQuery, AnswerIsForQuestion
      <3>. QED  BY <2>1, <2>2, <3>1 DEF DnsTypes, DnsTokens, AnswerIsForQuestion, Statuses
    <2>3. CASE /\ dns' = [status |-> "InProgress", answer |-> None]
               /\ request' = [request EXCEPT !["dns"] = name]
               /\ wpc' = Notified("dns")
      <3>1. request'["dns"] = name /\ DOMAIN request' = Workers
        BY <2>3, <1>0 DEF DnsTypes
      <3>2. wpc' \in [Workers -> WorkerPCs] /\ (wpc'["dns"] = "call" <=> wpc["dns"] = "call")
        BY <2>3, <1>0, NotifiedTypes DEF DnsTypes
      <3>. QED  BY <2>1, <2>3, <3>1, <3>2
                DEF DnsTypes, DnsTokens, AnswerIsForQuestion, Statuses
    <2>. QED  BY <1>1, <2>2, <2>3 DEF DnsQuery
  <1>2. CASE IcmpSend
    <2>1. UNCHANGED dnsVars /\ DOMAIN request' = Workers /\ DOMAIN job' = Workers
      BY <1>2, <1>0 DEF IcmpSend, dnsVars, mainVars, DnsTypes
    <2>2. wpc' \in [Workers -> WorkerPCs] /\ (wpc'["dns"] = "call" <=> wpc["dns"] = "call")
      BY <1>2, <1>0, NotifiedTypes DEF IcmpSend, DnsTypes
    <2>. QED  BY <2>1, <2>2, DnsUnchanged
  <1>3. CASE IcmpRecv \/ ResetIcmp \/ Stop \/ UNCHANGED vars
    <2>1. UNCHANGED dnsVars /\ wpc' = wpc /\ DOMAIN request' = Workers /\ DOMAIN job' = Workers
      BY <1>3, <1>0 DEF IcmpRecv, ResetIcmp, Stop, Disowned, OnlyMain, dnsVars, mainVars, vars,
                        DnsTypes
    <2>. QED  BY <2>1, DnsUnchanged DEF DnsTypes
  <1>4. CASE ResetDns
    <2>1. request'["dns"] = None /\ DOMAIN request' = Workers
      BY <1>4, <1>0 DEF ResetDns, Disowned, DnsTypes
    <2>. QED  BY <1>4, <2>1
              DEF ResetDns, Idle, DnsTypes, DnsTokens, AnswerIsForQuestion, Statuses
  <1>5. ASSUME NEW w \in Workers, Test(w) PROVE DnsInv'
    <2>1. /\ UNCHANGED <<asked, dns>> /\ wpc' \in [Workers -> WorkerPCs]
          /\ DOMAIN request' = Workers /\ DOMAIN job' = Workers
      BY <1>5 DEF Test, WorkerOnly, mainVars, DnsTypes, WorkerPCs
    <2>2. request'["dns"] = request["dns"]
      BY <1>5, <1>0 DEF Test, DnsTypes
    <2>3. CASE w = "dns"
      <3>1. wpc'["dns"] = "call" => job'["dns"] = request["dns"] /\ request["dns"] # None
        BY <1>5, <1>0, <2>3 DEF Test, DnsTypes
      <3>. QED  BY <2>1, <2>2, <3>1 DEF DnsTypes, DnsTokens, AnswerIsForQuestion
    <2>4. CASE w = "icmp"
      <3>1. job'["dns"] = job["dns"] /\ wpc'["dns"] = wpc["dns"]
        BY <1>5, <1>0, <2>4 DEF Test, DnsTypes
      <3>. QED  BY <2>1, <2>2, <3>1, DnsUnchanged DEF dnsVars
    <2>. QED  BY <1>0, <2>3, <2>4
  <1>6. ASSUME NEW w \in Workers, Park(w) \/ WakeSpuriously(w) PROVE DnsInv'
    <2>1. UNCHANGED dnsVars /\ DOMAIN request' = Workers /\ DOMAIN job' = Workers
      BY <1>6 DEF Park, WakeSpuriously, WorkerOnly, dnsVars, mainVars, DnsTypes
    <2>2. wpc' \in [Workers -> WorkerPCs] /\ (wpc'["dns"] = "call" => wpc["dns"] = "call")
      <3>1. CASE Park(w)
        BY <3>1, <1>0 DEF Park, DnsTypes, WorkerPCs
      <3>2. CASE WakeSpuriously(w)
        BY <3>2, <1>0, NotifiedTypes DEF WakeSpuriously, DnsTypes
      <3>. QED  BY <1>6, <3>1, <3>2
    <2>. QED  BY <2>1, <2>2, DnsUnchanged
  <1>7. CASE PublishName
    <2>1. /\ wpc' \in [Workers -> WorkerPCs] /\ wpc'["dns"] = "test"
          /\ DOMAIN job' = Workers /\ asked' = asked /\ job["dns"] \in Names
      BY <1>7, <1>0 DEF PublishName, Return, WorkerOnly, mainVars, DnsTypes, WorkerPCs, DnsTokens
    <2>2. CASE StillAsked
      <3>1. /\ request' = [request EXCEPT !["dns"] = None]
            /\ \E status \in {"Complete", "Error"} :
                  dns' = [status |-> status, answer |-> job["dns"]]
        BY <1>7, <2>2 DEF PublishName
      <3>2. request["dns"] = job["dns"] /\ request["dns"] # None /\ asked = job["dns"]
        BY <2>1, <2>2, ConstantsAssumption DEF StillAsked, DnsTokens
      <3>3. request'["dns"] = None /\ DOMAIN request' = Workers
        BY <3>1, <1>0 DEF DnsTypes
      <3>. QED  BY <2>1, <3>1, <3>2, <3>3
                DEF DnsTypes, DnsTokens, AnswerIsForQuestion, Statuses
    <2>3. CASE ~StillAsked
      <3>1. UNCHANGED <<request, dns>>
        BY <1>7, <2>3 DEF PublishName
      <3>. QED  BY <2>1, <3>1 DEF DnsTypes, DnsTokens, AnswerIsForQuestion
    <2>. QED  BY <2>2, <2>3
  <1>8. CASE PublishEcho
    <2>1. /\ wpc' \in [Workers -> WorkerPCs] /\ wpc'["dns"] = wpc["dns"]
          /\ DOMAIN job' = Workers /\ DOMAIN request' = Workers /\ UNCHANGED dnsVars
      BY <1>8, <1>0 DEF PublishEcho, Return, WorkerOnly, mainVars, dnsVars, DnsTypes, WorkerPCs
    <2>. QED  BY <2>1, DnsUnchanged
  <1>9. CASE Destructor
    <2>1. UNCHANGED dnsVars /\ DOMAIN request' = Workers /\ DOMAIN job' = Workers
      BY <1>9 DEF Destructor, EndWorker, OnlyMain, dnsVars, DnsTypes
    <2>2. wpc' = wpc \/ wpc' = Notified("icmp") \/ wpc' = Notified("dns")
      BY <1>9 DEF Destructor, EndWorker
    <2>3. wpc' \in [Workers -> WorkerPCs] /\ (wpc'["dns"] = "call" <=> wpc["dns"] = "call")
      BY <2>2, <1>0, NotifiedTypes DEF DnsTypes
    <2>. QED  BY <2>1, <2>3, DnsUnchanged
  <1>. QED  BY <1>1, <1>2, <1>3, <1>4, <1>5, <1>6, <1>7, <1>8, <1>9
            DEF Next, WorkerLoop

(* DNS_STATUS is about the name of the last DNS_QUERY since the last reset,  *)
(* and a lookup that was given up stays silent, for any names.               *)
THEOREM AnswersAreForQuestions == Spec => []AnswerIsForQuestion
  <1>1. DnsInv => AnswerIsForQuestion
    BY DEF DnsInv
  <1>. QED  BY <1>1, InitDns, NextDns, PTL DEF Spec

---------------------------------------------------------------------------
(* Echoes.                                                                   *)

AnyEcho == [n : Nat, gen : Nat]
AnyJob  == [echo : AnyEcho, gen : Nat]

EchoTypes ==
    /\ wpc \in [Workers -> WorkerPCs]
    /\ DOMAIN request = Workers /\ DOMAIN job = Workers
    /\ request["icmp"] \in AnyEcho \cup {None}
    /\ echo \in [gen : Nat, replies : Seq(AnyEcho), count : Nat]
    /\ wpc["icmp"] = "call" => job["icmp"] \in AnyJob

\* An echo e that has still to be answered comes after the replies there are.
Later(e) ==
    /\ e.gen = echo.gen /\ e.n <= echo.count
    /\ \A i \in DOMAIN echo.replies : echo.replies[i].n < e.n

\* The echo that waits, and the one at work unless a reset disowned it.
EchoOrder ==
    /\ \A i \in DOMAIN echo.replies : echo.replies[i].n <= echo.count
    /\ request["icmp"] # None => Later(request["icmp"])
    /\ wpc["icmp"] = "call" /\ job["icmp"].gen = echo.gen =>
         /\ Later(job["icmp"].echo)
         /\ request["icmp"] # None => job["icmp"].echo.n < request["icmp"].n
    /\ wpc["icmp"] = "call" => job["icmp"].gen <= echo.gen

EchoInv == EchoTypes /\ EchoOrder /\ NoEchoAcrossReset

echoVars == <<echo, request["icmp"], job["icmp"]>>

LEMMA EchoUnchanged ==
    ASSUME EchoInv, UNCHANGED echoVars, wpc' \in [Workers -> WorkerPCs],
           DOMAIN request' = Workers, DOMAIN job' = Workers,
           wpc'["icmp"] = "call" => wpc["icmp"] = "call"
    PROVE  EchoInv'
  BY DEF EchoInv, EchoTypes, EchoOrder, NoEchoAcrossReset, Later, echoVars

LEMMA InitEcho == Init => EchoInv
  BY ConstantsAssumption
     DEF Init, EchoInv, EchoTypes, EchoOrder, NoEchoAcrossReset, Workers, WorkerPCs

\* The queue without its first element, if there is one.
LEMMA TailOfReplies ==
    ASSUME NEW q \in Seq(AnyEcho), q # <<>>
    PROVE  /\ Tail(q) \in Seq(AnyEcho) /\ Len(Tail(q)) = Len(q) - 1
           /\ \A i \in DOMAIN Tail(q) : i + 1 \in DOMAIN q /\ Tail(q)[i] = q[i + 1]
  OBVIOUS

LEMMA OneLess ==
    ASSUME NEW a \in Nat, NEW b, NEW c \in Nat, b = a - 1, a <= c
    PROVE  b < c
  OBVIOUS

\* Queued() keeps an order that the new reply fits, and the bound.
LEMMA QueuedEffect ==
    ASSUME NEW q \in Seq(AnyEcho), NEW r \in AnyEcho, Len(q) <= QueueSize,
           \A i, j \in DOMAIN q : i < j => q[i].n < q[j].n,
           \A i \in DOMAIN q : q[i].n < r.n /\ q[i].gen = r.gen
    PROVE  /\ Queued(q, r) \in Seq(AnyEcho) /\ Len(Queued(q, r)) <= QueueSize
           /\ \A i, j \in DOMAIN Queued(q, r) : i < j => Queued(q, r)[i].n < Queued(q, r)[j].n
           /\ \A i \in DOMAIN Queued(q, r) : Queued(q, r)[i].n <= r.n /\ Queued(q, r)[i].gen = r.gen
  <1>. DEFINE kept == IF Len(q) >= QueueSize THEN Tail(q) ELSE q
  <1>1. /\ kept \in Seq(AnyEcho) /\ Len(kept) < QueueSize
        /\ \A i, j \in DOMAIN kept : i < j => kept[i].n < kept[j].n
        /\ \A i \in DOMAIN kept : kept[i].n < r.n /\ kept[i].gen = r.gen
    <2>1. CASE Len(q) >= QueueSize
      <3>1. q # <<>> /\ kept = Tail(q) /\ QueueSize \in Nat
        BY <2>1, ConstantsAssumption
      <3>2. /\ Tail(q) \in Seq(AnyEcho) /\ Len(Tail(q)) = Len(q) - 1
            /\ \A i \in DOMAIN Tail(q) : i + 1 \in DOMAIN q /\ Tail(q)[i] = q[i + 1]
        BY <3>1, TailOfReplies
      <3>3. Len(Tail(q)) < QueueSize
        <4>1. Len(q) \in Nat
          OBVIOUS
        <4>2. Len(Tail(q)) = Len(q) - 1
          BY <3>2
        <4>3. Len(q) <= QueueSize /\ QueueSize \in Nat
          BY <3>1
        <4>. QED  BY <4>1, <4>2, <4>3, OneLess
      <3>4. \A i, j \in DOMAIN Tail(q) : i < j => Tail(q)[i].n < Tail(q)[j].n
        <4>1. SUFFICES ASSUME NEW i \in DOMAIN Tail(q), NEW j \in DOMAIN Tail(q), i < j
                       PROVE  Tail(q)[i].n < Tail(q)[j].n
          OBVIOUS
        <4>2. i \in Int /\ j \in Int
          BY <3>2
        <4>. QED  BY <3>2, <4>1, <4>2
      <3>. QED  BY <3>1, <3>2, <3>3, <3>4
    <2>2. CASE ~(Len(q) >= QueueSize)
      BY <2>2, ConstantsAssumption
    <2>. QED  BY <2>1, <2>2
  <1>. HIDE DEF kept
  <1>2. Queued(q, r) = Append(kept, r)
    BY DEF Queued, kept
  <1>3. /\ Append(kept, r) \in Seq(AnyEcho) /\ Len(Append(kept, r)) = Len(kept) + 1
        /\ DOMAIN Append(kept, r) = 1..(Len(kept) + 1) /\ DOMAIN kept = 1..Len(kept)
        /\ Append(kept, r)[Len(kept) + 1] = r
        /\ \A i \in 1..Len(kept) : Append(kept, r)[i] = kept[i]
    BY <1>1
  <1>4. \A i \in 1..Len(kept) : kept[i] \in AnyEcho
    BY <1>1
  <1>5. Len(Append(kept, r)) <= QueueSize
    BY <1>1, <1>3, ConstantsAssumption
  <1>6. ASSUME NEW i \in 1..(Len(kept) + 1), NEW j \in 1..(Len(kept) + 1), i < j
        PROVE  Append(kept, r)[i].n < Append(kept, r)[j].n
    <2>0. Len(kept) \in Nat
      BY <1>1
    <2>1. i \in 1..Len(kept) /\ (j \in 1..Len(kept) \/ j = Len(kept) + 1)
      BY <1>6, <2>0
    <2>2. Append(kept, r)[i] = kept[i]
      BY <1>3, <2>1
    <2>3. CASE j \in 1..Len(kept)
      <3>1. Append(kept, r)[j] = kept[j]
        BY <1>3, <2>3
      <3>. QED  BY <1>1, <1>3, <1>6, <2>1, <2>2, <2>3, <3>1
    <2>4. CASE j = Len(kept) + 1
      <3>1. Append(kept, r)[j] = r
        BY <1>3, <2>4
      <3>. QED  BY <1>1, <1>3, <2>1, <2>2, <3>1
    <2>. QED  BY <2>1, <2>3, <2>4
  <1>7. ASSUME NEW i \in 1..(Len(kept) + 1)
        PROVE  Append(kept, r)[i].n <= r.n /\ Append(kept, r)[i].gen = r.gen
    <2>1. CASE i = Len(kept) + 1
      <3>1. Append(kept, r)[i] = r
        BY <1>3, <2>1
      <3>2. r.n \in Nat
        BY DEF AnyEcho
      <3>. QED  BY <3>1, <3>2
    <2>2. CASE i # Len(kept) + 1
      <3>1. i \in 1..Len(kept)
        BY <1>1, <2>2
      <3>2. /\ Append(kept, r)[i] = kept[i] /\ kept[i].n < r.n /\ kept[i].gen = r.gen
            /\ kept[i].n \in Nat /\ r.n \in Nat
        BY <1>1, <1>3, <1>4, <3>1 DEF AnyEcho
      <3>. QED  BY <3>2
    <2>. QED  BY <2>1, <2>2
  <1>. QED  BY <1>2, <1>3, <1>5, <1>6, <1>7

LEMMA NextEcho == EchoInv /\ [Next]_vars => EchoInv'
  <1>. SUFFICES ASSUME EchoInv, [Next]_vars PROVE EchoInv'
    OBVIOUS
  <1>. USE DEF EchoInv
  <1>0. /\ "dns" \in Workers /\ "icmp" \in Workers /\ "dns" # "icmp"
        /\ \A w \in Workers : w = "dns" \/ w = "icmp"
    BY DEF Workers
  <1>a. /\ echo.gen \in Nat /\ echo.count \in Nat /\ echo.replies \in Seq(AnyEcho)
        /\ \A i \in DOMAIN echo.replies : echo.replies[i] \in AnyEcho
    BY DEF EchoTypes
  <1>1. ASSUME NEW name \in Names, DnsQuery(name) PROVE EchoInv'
    <2>1. UNCHANGED echoVars /\ DOMAIN request' = Workers /\ DOMAIN job' = Workers
      BY <1>1, <1>0 DEF DnsQuery, echoVars, EchoTypes
    <2>2. wpc' \in [Workers -> WorkerPCs] /\ (wpc'["icmp"] = "call" <=> wpc["icmp"] = "call")
      BY <1>1, <1>0, NotifiedTypes DEF DnsQuery, EchoTypes
    <2>. QED  BY <2>1, <2>2, EchoUnchanged
  <1>2. CASE IcmpSend
    <2>0. PICK r : r = [n |-> echo.count + 1, gen |-> echo.gen]
      OBVIOUS
    <2>1. /\ echo'.gen = echo.gen /\ echo'.replies = echo.replies /\ echo'.count = echo.count + 1
          /\ echo' \in [gen : Nat, replies : Seq(AnyEcho), count : Nat]
      BY <1>2, <1>a DEF IcmpSend, EchoTypes
    <2>2. request'["icmp"] = r /\ r \in AnyEcho /\ DOMAIN request' = Workers /\ job' = job
      BY <1>2, <1>0, <1>a, <2>0, <2>1 DEF IcmpSend, EchoTypes, AnyEcho
    <2>3. wpc' \in [Workers -> WorkerPCs] /\ (wpc'["icmp"] = "call" <=> wpc["icmp"] = "call")
      BY <1>2, <1>0, NotifiedTypes DEF IcmpSend, EchoTypes
    <2>4. EchoTypes' /\ NoEchoAcrossReset'
      BY <2>1, <2>2, <2>3 DEF EchoTypes, NoEchoAcrossReset
    <2>5. \A i \in DOMAIN echo.replies : echo.replies[i].n \in Nat /\ echo.replies[i].n < r.n
      BY <1>a, <2>0 DEF EchoOrder, AnyEcho
    <2>6. Later(r)'
      BY <1>a, <2>0, <2>1, <2>5 DEF Later
    <2>7. ASSUME wpc["icmp"] = "call", job["icmp"].gen = echo.gen
          PROVE  Later(job["icmp"].echo)' /\ job["icmp"].echo.n < r.n
      <3>1. Later(job["icmp"].echo) /\ job["icmp"].echo.n \in Nat
        BY <2>7 DEF EchoOrder, EchoTypes, AnyJob, AnyEcho
      <3>2. job["icmp"].echo.n < r.n /\ job["icmp"].echo.n <= echo.count + 1
        BY <3>1, <1>a, <2>0 DEF Later
      <3>. QED  BY <1>a, <2>1, <2>2, <3>1, <3>2 DEF Later
    <2>8. \A i \in DOMAIN echo'.replies : echo'.replies[i].n <= echo'.count
      BY <1>a, <2>0, <2>1, <2>5
    <2>9. EchoOrder'
      BY <2>1, <2>2, <2>3, <2>6, <2>7, <2>8 DEF EchoOrder
    <2>. QED  BY <2>4, <2>9
  <1>3. CASE IcmpRecv
    <2>1. /\ echo.replies # <<>> /\ UNCHANGED <<wpc, request, job>>
          /\ echo' = [echo EXCEPT !.replies = Tail(echo.replies)]
      BY <1>3 DEF IcmpRecv
    <2>2. /\ echo'.replies = Tail(echo.replies) /\ echo'.gen = echo.gen /\ echo'.count = echo.count
      BY <2>1 DEF EchoTypes
    <2>3. /\ Tail(echo.replies) \in Seq(AnyEcho) /\ Len(Tail(echo.replies)) = Len(echo.replies) - 1
          /\ \A i \in DOMAIN Tail(echo.replies) :
               /\ i + 1 \in DOMAIN echo.replies
               /\ Tail(echo.replies)[i] = echo.replies[i + 1]
      BY <1>a, <2>1, TailOfReplies
    <2>4. EchoTypes'
      BY <2>1, <2>2, <2>3 DEF EchoTypes
    <2>5. NoEchoAcrossReset'
      <3>1. Len(echo'.replies) <= QueueSize
        BY <1>a, <2>2, <2>3, ConstantsAssumption DEF NoEchoAcrossReset
      <3>2. \A i \in DOMAIN echo'.replies : echo'.replies[i].gen = echo'.gen
        BY <2>2, <2>3 DEF NoEchoAcrossReset
      <3>3. ASSUME NEW i \in DOMAIN echo'.replies, NEW j \in DOMAIN echo'.replies, i < j
            PROVE  echo'.replies[i].n < echo'.replies[j].n
        <4>1. i \in Int /\ j \in Int
          BY <2>2, <2>3
        <4>. QED  BY <2>2, <2>3, <3>3, <4>1 DEF NoEchoAcrossReset
      <3>. QED  BY <3>1, <3>2, <3>3 DEF NoEchoAcrossReset
    <2>6. \A e \in AnyEcho : Later(e) => Later(e)'
      BY <2>2, <2>3 DEF Later
    <2>7. EchoOrder'
      <3>1. request["icmp"] # None => Later(request["icmp"])'
        BY <2>1, <2>6 DEF EchoOrder, EchoTypes, Later
      <3>2. wpc["icmp"] = "call" /\ job["icmp"].gen = echo.gen => Later(job["icmp"].echo)'
        BY <2>1, <2>6 DEF EchoOrder, EchoTypes, AnyJob, Later
      <3>3. \A i \in DOMAIN echo'.replies : echo'.replies[i].n <= echo'.count
        BY <2>2, <2>3 DEF EchoOrder
      <3>. QED  BY <2>1, <2>2, <3>1, <3>2, <3>3 DEF EchoOrder, Later
    <2>. QED  BY <2>4, <2>5, <2>7
  <1>4. CASE ResetIcmp
    <2>0. <<>> \in Seq(AnyEcho)
      OBVIOUS
    <2>a. /\ request'["icmp"] = None /\ DOMAIN request' = Workers /\ UNCHANGED <<wpc, job>>
          /\ echo' = [echo EXCEPT !.gen = echo.gen + 1, !.replies = <<>>]
      BY <1>4, <1>0 DEF ResetIcmp, Disowned, EchoTypes
    <2>b. echo \in [gen : Nat, replies : Seq(AnyEcho), count : Nat] /\ echo.gen + 1 \in Nat
      BY <1>a DEF EchoTypes
    <2>1. /\ request'["icmp"] = None /\ DOMAIN request' = Workers /\ UNCHANGED <<wpc, job>>
          /\ echo'.gen = echo.gen + 1 /\ echo'.replies = <<>> /\ echo'.count = echo.count
          /\ echo' \in [gen : Nat, replies : Seq(AnyEcho), count : Nat]
      BY <2>0, <2>a, <2>b
    <2>2. EchoTypes' /\ NoEchoAcrossReset'
      BY <2>1, ConstantsAssumption DEF EchoTypes, NoEchoAcrossReset
    <2>3. wpc["icmp"] = "call" => job["icmp"].gen <= echo.gen /\ job["icmp"].gen \in Nat
      BY DEF EchoOrder, EchoTypes, AnyJob
    <2>4. wpc["icmp"] = "call" => job["icmp"].gen # echo'.gen /\ job["icmp"].gen <= echo'.gen
      BY <1>a, <2>1, <2>3
    <2>5. EchoOrder'
      BY <2>1, <2>4 DEF EchoOrder
    <2>. QED  BY <2>2, <2>5
  <1>5. CASE ResetDns \/ Stop \/ UNCHANGED vars
    <2>1. UNCHANGED echoVars /\ wpc' = wpc /\ DOMAIN request' = Workers /\ DOMAIN job' = Workers
      BY <1>5, <1>0 DEF ResetDns, Stop, Disowned, OnlyMain, echoVars, mainVars, vars, EchoTypes
    <2>. QED  BY <2>1, EchoUnchanged DEF EchoTypes
  <1>6. ASSUME NEW w \in Workers, Test(w) PROVE EchoInv'
    <2>1. /\ echo' = echo /\ wpc' \in [Workers -> WorkerPCs]
          /\ DOMAIN request' = Workers /\ DOMAIN job' = Workers
      BY <1>6 DEF Test, WorkerOnly, mainVars, EchoTypes, WorkerPCs
    <2>2. CASE w = "dns"
      <3>1. UNCHANGED echoVars /\ wpc'["icmp"] = wpc["icmp"]
        BY <1>6, <1>0, <2>1, <2>2 DEF Test, echoVars, EchoTypes
      <3>. QED  BY <2>1, <3>1, EchoUnchanged
    <2>3. CASE w = "icmp" /\ wpc'["icmp"] # "call"
      <3>1. UNCHANGED echoVars
        BY <1>6, <1>0, <2>1, <2>3 DEF Test, echoVars, EchoTypes
      <3>. QED  BY <2>1, <2>3, <3>1, EchoUnchanged
    <2>4. CASE w = "icmp" /\ wpc'["icmp"] = "call"
      <3>1. /\ request["icmp"] # None /\ request'["icmp"] = None
            /\ job'["icmp"] = [echo |-> request["icmp"], gen |-> echo.gen]
        BY <1>6, <1>0, <2>4 DEF Test, EchoTypes
      <3>2. Later(request["icmp"]) /\ request["icmp"] \in AnyEcho
        BY <3>1 DEF EchoOrder, EchoTypes
      <3>3. EchoTypes' /\ NoEchoAcrossReset'
        BY <1>a, <2>1, <3>1, <3>2 DEF EchoTypes, AnyJob, NoEchoAcrossReset
      <3>4. EchoOrder'
        BY <1>a, <2>1, <3>1, <3>2 DEF EchoOrder, Later
      <3>. QED  BY <3>3, <3>4
    <2>. QED  BY <1>0, <2>2, <2>3, <2>4
  <1>7. ASSUME NEW w \in Workers, Park(w) \/ WakeSpuriously(w) PROVE EchoInv'
    <2>1. UNCHANGED echoVars /\ DOMAIN request' = Workers /\ DOMAIN job' = Workers
      BY <1>7 DEF Park, WakeSpuriously, WorkerOnly, echoVars, mainVars, EchoTypes
    <2>2. wpc' \in [Workers -> WorkerPCs] /\ (wpc'["icmp"] = "call" => wpc["icmp"] = "call")
      <3>1. CASE Park(w)
        BY <3>1, <1>0 DEF Park, EchoTypes, WorkerPCs
      <3>2. CASE WakeSpuriously(w)
        BY <3>2, <1>0, NotifiedTypes DEF WakeSpuriously, EchoTypes
      <3>. QED  BY <1>7, <3>1, <3>2
    <2>. QED  BY <2>1, <2>2, EchoUnchanged
  <1>8. CASE PublishName
    <2>1. /\ wpc' \in [Workers -> WorkerPCs] /\ wpc'["icmp"] = wpc["icmp"]
          /\ DOMAIN job' = Workers /\ DOMAIN request' = Workers /\ UNCHANGED echoVars
      BY <1>8, <1>0 DEF PublishName, Return, WorkerOnly, mainVars, echoVars, EchoTypes, WorkerPCs
    <2>. QED  BY <2>1, EchoUnchanged
  <1>9. CASE PublishEcho
    <2>1. /\ wpc' \in [Workers -> WorkerPCs] /\ wpc'["icmp"] = "test" /\ wpc["icmp"] = "call"
          /\ DOMAIN job' = Workers /\ request' = request
      BY <1>9, <1>0 DEF PublishEcho, Return, EchoTypes, WorkerPCs
    <2>2. CASE echo' = echo
      BY <2>1, <2>2 DEF EchoTypes, EchoOrder, NoEchoAcrossReset, Later
    <2>3. CASE /\ echo.gen = job["icmp"].gen
               /\ echo' = [echo EXCEPT !.replies = Queued(@, job["icmp"].echo)]
      <3>. DEFINE r == job["icmp"].echo
      <3>1. r \in AnyEcho /\ Later(r) /\ (request["icmp"] # None => r.n < request["icmp"].n)
        BY <2>1, <2>3 DEF EchoTypes, EchoOrder, AnyJob
      <3>. HIDE DEF r
      <3>2. /\ Len(echo.replies) <= QueueSize
            /\ \A i, j \in DOMAIN echo.replies : i < j => echo.replies[i].n < echo.replies[j].n
            /\ \A i \in DOMAIN echo.replies :
                 echo.replies[i].n < r.n /\ echo.replies[i].gen = r.gen
        BY <3>1 DEF NoEchoAcrossReset, Later
      <3>. DEFINE q == Queued(echo.replies, r)
      <3>3. /\ q \in Seq(AnyEcho) /\ Len(q) <= QueueSize
            /\ \A i, j \in DOMAIN q : i < j => q[i].n < q[j].n
            /\ \A i \in DOMAIN q : q[i].n <= r.n /\ q[i].gen = r.gen
        BY <1>a, <3>1, <3>2, QueuedEffect
      <3>. HIDE DEF q
      <3>4. echo'.replies = q /\ echo'.gen = echo.gen /\ echo'.count = echo.count
        BY <2>3 DEF EchoTypes, q, r
      <3>5. \A i \in DOMAIN q : q[i] \in AnyEcho
        BY <3>3
      <3>6. EchoTypes'
        <4>1. echo' \in [gen : Nat, replies : Seq(AnyEcho), count : Nat]
          BY <2>3, <3>3, <1>a DEF EchoTypes, q, r
        <4>. QED  BY <2>1, <4>1 DEF EchoTypes
      <3>7. NoEchoAcrossReset'
        BY <3>1, <3>3, <3>4 DEF NoEchoAcrossReset, Later
      <3>8. \A i \in DOMAIN q : q[i].n \in Nat /\ r.n \in Nat /\ q[i].n <= echo.count
        BY <1>a, <3>1, <3>3, <3>5 DEF AnyEcho, Later
      <3>9. request["icmp"] # None => Later(request["icmp"])'
        <4>1. SUFFICES ASSUME request["icmp"] # None PROVE Later(request["icmp"])'
          OBVIOUS
        <4>2. request["icmp"] \in AnyEcho /\ Later(request["icmp"]) /\ r.n < request["icmp"].n
          BY <4>1, <3>1 DEF EchoTypes, EchoOrder
        <4>3. \A i \in DOMAIN q : q[i].n < request["icmp"].n
          BY <4>2, <3>3, <3>8 DEF AnyEcho
        <4>. QED  BY <2>1, <3>4, <4>2, <4>3 DEF Later
      <3>10. EchoOrder'
        BY <2>1, <3>4, <3>8, <3>9 DEF EchoOrder
      <3>. QED  BY <3>6, <3>7, <3>10
    <2>. QED  BY <1>9, <2>2, <2>3 DEF PublishEcho
  <1>10. CASE Destructor
    <2>1. UNCHANGED echoVars /\ DOMAIN request' = Workers /\ DOMAIN job' = Workers
      BY <1>10 DEF Destructor, EndWorker, OnlyMain, echoVars, EchoTypes
    <2>2. wpc' = wpc \/ wpc' = Notified("icmp") \/ wpc' = Notified("dns")
      BY <1>10 DEF Destructor, EndWorker
    <2>3. wpc' \in [Workers -> WorkerPCs] /\ (wpc'["icmp"] = "call" <=> wpc["icmp"] = "call")
      BY <2>2, <1>0, NotifiedTypes DEF EchoTypes
    <2>. QED  BY <2>1, <2>3, EchoUnchanged
  <1>. QED  BY <1>1, <1>2, <1>3, <1>4, <1>5, <1>6, <1>7, <1>8, <1>9, <1>10
            DEF Next, WorkerLoop

(* No reply to an echo is read after the reset that followed the request,    *)
(* replies keep the order of the requests, and the queue keeps its bound,    *)
(* for any bound and any number of echoes and resets (reset(),               *)
(* icmpWorkerLoop()).                                                        *)
THEOREM NoEchoSurvivesReset == Spec => []NoEchoAcrossReset
  <1>1. EchoInv => NoEchoAcrossReset
    BY DEF EchoInv
  <1>. QED  BY <1>1, InitEcho, NextEcho, PTL DEF Spec
===========================================================================
