---------------------------- MODULE UdpProxyProofs ----------------------------
(***************************************************************************)
(* Proofs about proxy() of network.c and its workers, for any number of    *)
(* datagrams, clients, ports and threads, and any faults.  The layers: who *)
(* has which datagram, whose are the blocks, whose are the descriptors,    *)
(* whose are the ports and the answers that come to them.                  *)
(***************************************************************************)
EXTENDS UdpProxyProperties, Numbers, FiniteSetTheorems, TLAPS

-----------------------------------------------------------------------------
(* The layers of the invariant *)

\* The worker holds a socket, has sent its request, or has closed the socket again.
HasSocket == {"ask", "wait", "blocked", "answered", "timeout"}
Sent == {"wait", "blocked", "answered", "timeout"}
Late == {"closed", "free", "ended"}

\* The main thread works on the datagram it received last, which has no worker yet;
\* a worker has a copy of its own datagram and of the address it came from.
DatagramOK ==
  /\ main = "bind" \/ BindFailed => next = None /\ client_fd = None
  /\ main = "create" => current = next
  /\ main \in {"copy", "create"} => next \in Requests /\ worker[next] = "none"
  /\ main = "copy" => addr \in Clients /\ recv_buffer = next
  /\ \A r \in Requests :
       /\ r > next => worker[r] = "none" /\ info[r].client = None
       /\ worker[r] # "none" \/ (main = "create" /\ r = next) =>
            info[r].client \in Clients /\ info[r].bytes = r

\* A descriptor is the number of one socket; only the socket of a failed bind has a
\* number that nobody knows.
Listens == main \notin {"bind", "returned"}
Holders == {r \in Requests : worker[r] \in HasSocket}

DescriptorOK ==
  /\ IsFiniteSet(open)
  /\ \A r \in Requests : IF r \in Holders THEN fd[r] \in open ELSE fd[r] = None
  /\ \A q, r \in Holders : fd[q] = fd[r] => q = r
  /\ Listens => client_fd \in open /\ \A r \in Holders : fd[r] # client_fd
  /\ ~BindFailed => \A n \in open : (\E r \in Holders : n = fd[r]) \/ (Listens /\ n = client_fd)
  /\ Cardinality(open) = Cardinality(Holders) + (IF Listens \/ BindFailed THEN 1 ELSE 0)
  /\ \A n \in open : n <= 1 + Cardinality(Threads)

\* No two workers have one port, and what was sent from a port was sent by the worker
\* that has it, or by one that had it before; and so an answer of the server that comes
\* to it.
PortOK ==
  /\ \A r \in Requests : port[r] # None => worker[r] \in Sent
  /\ \A q, r \in Requests : port[q] = port[r] /\ port[q] # None => q = r
  /\ \A d \in outgoing : port[d.about] = d.from \/ worker[d.about] \in Late
  /\ \A a \in incoming : /\ port[a.about] = a.to \/ worker[a.about] \in Late
                         /\ a.about \in Forwarded
  /\ \A r \in Requests : worker[r] \in {"answered", "closed"} =>
       /\ answer[r] \in Forwarded \cup {Stranger}
       /\ answer[r] \notin {r, Stranger} => worker[answer[r]] \in Late

\* A worker replies once.
ReplyOK == \A x \in replies : worker[x.by] \in {"free", "ended"}

IInv ==
  TypeOK /\ DatagramOK /\ HeapOwned /\ DescriptorOK /\ PortOK /\ ReplyOK /\ StrayAnswersAreLate

-----------------------------------------------------------------------------
(* Descriptors *)

\* The lowest free descriptor exists, and is at most one more than there are open ones.
LEMMA NewFdIsFree ==
  ASSUME IsFiniteSet(open), open \subseteq Nat \ {None}
  PROVE  NewFd \in 1 .. Cardinality(open) + 1 /\ NewFd \notin open
<1> DEFINE limit == Cardinality(open) + 1
           free  == (1 .. limit) \ open
           Unused(n) == n \notin open /\ 1 .. n - 1 \subseteq open
<1>1. limit \in Nat /\ Cardinality(open) \in Nat BY FS_CardinalityType
<1>2. free # {}
  <2>1. SUFFICES ASSUME 1 .. limit \subseteq open PROVE FALSE OBVIOUS
  <2>2. Cardinality(1 .. limit) <= Cardinality(open) BY <2>1, FS_Subset
  <2>3. Cardinality(1 .. limit) = limit BY <1>1, FS_Interval
  <2> QED BY <1>1, <2>2, <2>3
<1>3. PICK m \in free : \A n \in free : m <= n
  <2>1. free \in SUBSET Nat BY <1>1
  <2> QED BY <1>2, <2>1, LeastNumber
<1>4. 1 .. m - 1 \subseteq open BY <1>1, <1>3
<1>5. m \in 1 .. limit /\ Unused(m) BY <1>3, <1>4
<1> QED BY <1>5 DEF NewFd

-----------------------------------------------------------------------------
(* Types *)

LEMMA InitTyped == Init => TypeOK
<1> SUFFICES ASSUME Init PROVE TypeOK OBVIOUS
<1>1. [client |-> None, bytes |-> None] \in Datagram BY DEF Datagram
<1> QED BY <1>1 DEF Init, TypeOK, Working, None

\* A message that names a worker's datagram is in the range of the messages.
LEMMA TypeStep ==
  ASSUME IInv, [Next]_vars
  PROVE  TypeOK'
<1>0. TypeOK /\ DatagramOK /\ PortOK BY DEF IInv
<1>fd. NewFd \in Nat \ {None}
  <2>1. IsFiniteSet(open) /\ open \subseteq Nat \ {None} BY <1>0 DEF IInv, DescriptorOK, TypeOK
  <2>2. NewFd \in 1 .. Cardinality(open) + 1 /\ Cardinality(open) \in Nat
    BY <2>1, NewFdIsFree, FS_CardinalityType
  <2> QED BY <2>2 DEF None
<1>1. CASE Bind \/ BindError \/ Check \/ Close
  BY <1>0, <1>1, <1>fd DEF Bind, BindError, Check, Close, TypeOK, mainThread, sockets, network
<1>2. CASE Copy \/ Create
  <2>1. CASE Copy
    <3>1. next \in Requests /\ addr \in Clients /\ recv_buffer \in Requests
      BY <1>0, <2>1 DEF Copy, DatagramOK, TypeOK
    <3>2. info' \in [Requests -> Datagram]
      BY <1>0, <2>1, <3>1 DEF Copy, TypeOK, Datagram
    <3>3. heap' \subseteq {"info", "buffer", "answer"} \X Requests
      BY <1>0, <2>1, <3>1 DEF Copy, TypeOK
    <3> QED BY <1>0, <2>1, <3>1, <3>2, <3>3 DEF Copy, TypeOK, sockets, network
  <2>2. CASE Create
    <3>1. worker' \in [Requests -> {"none", "refused", "ended"} \cup Working]
      BY <1>0, <2>2 DEF Create, TypeOK, Working
    <3> QED BY <1>0, <2>2, <3>1 DEF Create, TypeOK, sockets, network
  <2> QED BY <1>2, <2>1, <2>2
<1>3. ASSUME NEW c \in Clients, Receive(c) PROVE TypeOK'
  BY <1>0, <1>3 DEF Receive, TypeOK, sockets, network
<1>4. CASE SetProxyExit \/ ServerAnswers \/ Lose
  <2>1. incoming' \subseteq [to : Ports, about : Requests]
    BY <1>0, <1>4 DEF SetProxyExit, ServerAnswers, Lose, TypeOK, sockets
  <2>2. /\ PROXY_EXIT' \in BOOLEAN
        /\ UNCHANGED <<mainThread, info, worker, answer, heap, fd, open, client_fd, port, outgoing, replies>>
    BY <1>0, <1>4 DEF SetProxyExit, ServerAnswers, Lose, TypeOK, sockets
  <2> QED BY <1>0, <2>1, <2>2 DEF TypeOK, mainThread
<1>5. ASSUME NEW r \in Requests, Start(r) PROVE TypeOK'
  <2>1. worker' \in [Requests -> {"none", "refused", "ended"} \cup Working]
    BY <1>0, <1>5 DEF Start, Step, TypeOK, Working
  <2>2. fd' \in [Requests -> Nat] /\ open' \subseteq Nat \ {None}
    BY <1>0, <1>5, <1>fd DEF Start, TypeOK
  <2>3. heap' \subseteq {"info", "buffer", "answer"} \X Requests
    BY <1>0, <1>5 DEF Start, TypeOK
  <2> QED BY <1>0, <1>5, <2>1, <2>2, <2>3 DEF Start, TypeOK, mainThread, network
<1>6. ASSUME NEW r \in Requests, Ask(r) PROVE TypeOK'
  BY <1>0, <1>6 DEF Ask, Step, TypeOK, Working, mainThread, sockets, network, DatagramOK
<1>7. ASSUME NEW r \in Requests, AskError(r) \/ Timeout(r) \/ Interrupted(r) \/ ReplyError(r) \/ Free(r) PROVE TypeOK'
  BY <1>0, <1>7 DEF AskError, Timeout, Interrupted, ReplyError, Free, Step, TypeOK, Working, mainThread, sockets, network
<1>8. ASSUME NEW r \in Requests, Answered(r) \/ StrangerAnswers(r) PROVE TypeOK'
  BY <1>0, <1>8 DEF Answered, StrangerAnswers, Step, TypeOK, Working, mainThread, sockets, network
<1>9. ASSUME NEW r \in Requests, CloseSocket(r) PROVE TypeOK'
  <2>1. worker' \in [Requests -> {"none", "refused", "ended"} \cup Working]
    BY <1>0, <1>9 DEF CloseSocket, TypeOK, Working
  <2>2. /\ port' \in [Requests -> Ports \cup {None}] /\ fd' \in [Requests -> Nat]
        /\ open' \subseteq Nat \ {None}
    BY <1>0, <1>9 DEF CloseSocket, TypeOK, None
  <2> QED BY <1>0, <1>9, <2>1, <2>2 DEF CloseSocket, TypeOK, mainThread, network
<1>10. ASSUME NEW r \in Requests, Reply(r) PROVE TypeOK'
  <2>1. worker' \in [Requests -> {"none", "refused", "ended"} \cup Working]
    BY <1>0, <1>10 DEF Reply, Step, TypeOK, Working
  <2>2. worker[r] = "closed" /\ answer[r] \in Forwarded \cup {Stranger}
    BY <1>0, <1>10 DEF Reply, Step, PortOK
  <2>3. answer[r] \in Requests \cup {Stranger} /\ info[r].client \in Clients
    BY <1>0, <2>2 DEF Forwarded, TypeOK, DatagramOK
  <2>4. replies' \subseteq [by : Requests, to : Clients, about : Requests \cup {Stranger}]
    BY <1>0, <1>10, <2>3 DEF Reply, SendTo, TypeOK
  <2> QED BY <1>0, <1>10, <2>1, <2>4 DEF Reply, TypeOK, mainThread, sockets, network
<1>11. CASE UNCHANGED vars
  BY <1>0, <1>11 DEF vars, mainThread, sockets, network, TypeOK
<1> QED
  BY <1>1, <1>2, <1>3, <1>4, <1>5, <1>6, <1>7, <1>8, <1>9, <1>10, <1>11
  DEF Next, MainStep, WorkerStep, Environment

-----------------------------------------------------------------------------
(* Datagrams *)

AnyWorkerStep(r) == WorkerStep(r) \/ Interrupted(r) \/ StrangerAnswers(r)

\* A step of a worker moves that worker only, which is one that runs, and leaves what
\* belongs to the main thread alone.
LEMMA WorkerMoves ==
  ASSUME TypeOK, NEW r \in Requests, AnyWorkerStep(r)
  PROVE  /\ UNCHANGED <<main, current, next, addr, recv_buffer, info, client_fd, PROXY_EXIT>>
         /\ worker[r] \in Working
         /\ worker'[r] \in {"ended"} \cup (Working \ {"start"})
         /\ \A q \in Requests : q # r => worker'[q] = worker[q]
         /\ worker' = [worker EXCEPT ![r] = worker'[r]]
<1> USE DEF TypeOK, Working, Step, mainThread, sockets
<1>1. CASE Start(r) \/ Ask(r) \/ AskError(r) \/ Timeout(r) \/ Interrupted(r)
  BY <1>1 DEF Start, Ask, AskError, Timeout, Interrupted
<1>2. CASE Answered(r) \/ StrangerAnswers(r) BY <1>2 DEF Answered, StrangerAnswers
<1>3. CASE CloseSocket(r) BY <1>3 DEF CloseSocket
<1>4. CASE Reply(r) \/ ReplyError(r) \/ Free(r) BY <1>4 DEF Reply, ReplyError, Free
<1> QED BY <1>1, <1>2, <1>3, <1>4 DEF AnyWorkerStep, WorkerStep

\* The steps of the network, and of the signal that ends the proxy.
LEMMA NetworkMoves ==
  ASSUME SetProxyExit \/ ServerAnswers \/ Lose
  PROVE  UNCHANGED <<main, current, next, addr, recv_buffer, info, worker, fd, open, client_fd, port,
                     answer, heap, outgoing, replies>>
BY DEF SetProxyExit, ServerAnswers, Lose, mainThread, sockets

LEMMA VarsUnchanged ==
  ASSUME UNCHANGED vars
  PROVE  /\ UNCHANGED <<main, current, next, addr, recv_buffer, info, worker, fd, open, client_fd, port>>
         /\ UNCHANGED <<answer, heap, outgoing, incoming, replies, PROXY_EXIT>>
BY DEF vars, mainThread, sockets

LEMMA DatagramInit == Init => DatagramOK
BY RequestsAssumption DEF Init, DatagramOK, None

LEMMA DatagramStep ==
  ASSUME IInv, [Next]_vars
  PROVE  DatagramOK'
<1>0. TypeOK /\ DatagramOK BY DEF IInv
<1>n. next \in Nat /\ Requests \subseteq Nat BY <1>0, RequestsAssumption DEF TypeOK, None
<1>1. CASE Bind \/ BindError \/ Check \/ Close
  <2>1. UNCHANGED <<current, next, addr, recv_buffer, info, worker>> /\ main \notin {"copy", "create"}
    BY <1>1 DEF Bind, BindError, Check, Close
  <2>2. main' \notin {"copy", "create"} BY <1>1 DEF Bind, BindError, Check, Close
  <2>3. main' = "bind" \/ BindFailed' => next = None /\ client_fd' = None
    <3>1. DescriptorOK BY DEF IInv
    <3>2. CASE Bind \/ BindError \/ Check
      BY <1>0, <3>2 DEF Bind, BindError, Check, BindFailed, DatagramOK
    <3>3. CASE Close
      <4>1. client_fd \in open /\ client_fd' = client_fd /\ main' = "returned"
        BY <3>1, <3>3 DEF Close, DescriptorOK, Listens
      <4> QED BY <1>0, <4>1 DEF TypeOK, BindFailed
    <3> QED BY <1>1, <3>2, <3>3
  <2> QED BY <1>0, <2>1, <2>2, <2>3 DEF DatagramOK
<1>2. CASE Copy
  <2>1. /\ info'[next] = [client |-> addr, bytes |-> recv_buffer]
        /\ \A q \in Requests : q # next => info'[q] = info[q]
    BY <1>0, <1>2 DEF Copy, TypeOK, DatagramOK
  <2>2. /\ main' = "create" /\ current' = next /\ UNCHANGED <<next, worker>>
        /\ addr \in Clients /\ recv_buffer = next /\ worker[next] = "none" /\ next \in Requests
    BY <1>0, <1>2 DEF Copy, DatagramOK
  <2>3. main' # "bind" /\ ~BindFailed' BY <2>2 DEF BindFailed
  <2>4. \A r \in Requests :
          /\ r > next' => worker'[r] = "none" /\ info'[r].client = None
          /\ worker'[r] # "none" \/ r = next' =>
               info'[r].client \in Clients /\ info'[r].bytes = r
    BY <1>0, <1>n, <2>1, <2>2 DEF DatagramOK
  <2> QED BY <2>2, <2>3, <2>4 DEF DatagramOK
<1>3. CASE Create
  <2>1. current = next /\ next \in Requests /\ main' = "check" /\ UNCHANGED <<next, info>>
    BY <1>0, <1>3 DEF Create, DatagramOK
  <2>2. \A q \in Requests : q # next => worker'[q] = worker[q]
    BY <1>0, <1>3, <2>1 DEF Create, TypeOK
  <2> QED BY <1>0, <1>n, <1>3, <2>1, <2>2 DEF Create, DatagramOK, BindFailed
<1>4. ASSUME NEW c \in Clients, Receive(c) PROVE DatagramOK'
  BY <1>0, <1>n, <1>4 DEF Receive, DatagramOK, TypeOK, BindFailed
<1>5. ASSUME NEW r \in Requests, AnyWorkerStep(r) PROVE DatagramOK'
  <2>1. worker[r] # "none" BY <1>0, <1>5, WorkerMoves DEF Working
  <2>2. /\ UNCHANGED <<main, current, next, addr, recv_buffer, info, client_fd>>
        /\ \A q \in Requests : q # r => worker'[q] = worker[q]
    BY <1>0, <1>5, WorkerMoves
  <2> QED BY <1>0, <2>1, <2>2 DEF DatagramOK, BindFailed
<1>6. CASE SetProxyExit \/ ServerAnswers \/ Lose
  BY <1>0, <1>6, NetworkMoves DEF DatagramOK, BindFailed
<1>7. CASE UNCHANGED vars
  BY <1>0, <1>7, VarsUnchanged DEF DatagramOK, BindFailed
<1> QED
  BY <1>1, <1>2, <1>3, <1>4, <1>5, <1>6, <1>7 DEF Next, MainStep, Environment, AnyWorkerStep

-----------------------------------------------------------------------------
(* Blocks *)

LEMMA HeapInit == Init => HeapOwned
BY DEF Init, HeapOwned, Working

LEMMA HeapStep ==
  ASSUME IInv, [Next]_vars
  PROVE  HeapOwned'
<1>0. TypeOK /\ DatagramOK /\ HeapOwned BY DEF IInv
<1>1. CASE Bind \/ BindError \/ Check \/ Close
  BY <1>0, <1>1 DEF Bind, BindError, Check, Close, HeapOwned, mainThread, sockets
<1>2. CASE Copy
  BY <1>0, <1>2 DEF Copy, HeapOwned, DatagramOK, Working
<1>3. CASE Create
  <2>1. current = next /\ next \in Requests /\ main' = "check" /\ UNCHANGED <<current, heap>>
    BY <1>0, <1>3 DEF Create, DatagramOK
  <2>2. \A q \in Requests : q # next => worker'[q] = worker[q]
    BY <1>0, <1>3, <2>1 DEF Create, TypeOK
  <2>3. worker'[next] \in {"start", "refused"}
    BY <1>0, <1>3, <2>1 DEF Create, TypeOK
  <2>4. worker[next] = "none" /\ main = "create" BY <1>0, <1>3 DEF Create, DatagramOK
  <2> QED BY <1>0, <2>1, <2>2, <2>3, <2>4 DEF HeapOwned, Working
<1>4. ASSUME NEW c \in Clients, Receive(c) PROVE HeapOwned'
  BY <1>0, <1>4 DEF Receive, HeapOwned
<1>5. ASSUME NEW r \in Requests, Start(r) PROVE HeapOwned'
  <2>1. worker[r] = "start" /\ worker'[r] = "ask" /\ \A q \in Requests : q # r => worker'[q] = worker[q]
    BY <1>0, <1>5 DEF Start, Step, TypeOK
  <2>2. UNCHANGED <<main, current>> /\ heap' = heap \cup {<<"answer", r>>}
    BY <1>5 DEF Start, mainThread
  <2> QED BY <1>0, <2>1, <2>2 DEF HeapOwned, Working
<1>6. ASSUME NEW r \in Requests, Free(r) PROVE HeapOwned'
  <2>1. worker[r] = "free" /\ worker'[r] = "ended" /\ \A q \in Requests : q # r => worker'[q] = worker[q]
    BY <1>0, <1>6 DEF Free, Step, TypeOK
  <2>2. /\ UNCHANGED <<main, current>>
        /\ heap' = heap \ {<<"answer", r>>, <<"buffer", r>>, <<"info", r>>}
    BY <1>6 DEF Free, mainThread
  <2>3. ~(main = "create" /\ r = current) BY <1>0, <2>1 DEF DatagramOK
  <2> QED BY <1>0, <2>1, <2>2, <2>3 DEF HeapOwned, Working
<1>7. ASSUME NEW r \in Requests, AnyWorkerStep(r), ~Start(r), ~Free(r) PROVE HeapOwned'
  <2>1. UNCHANGED <<main, current, heap>>
    BY <1>7, WorkerMoves, <1>0
    DEF AnyWorkerStep, WorkerStep, Ask, AskError, Answered, Timeout, Interrupted,
        StrangerAnswers, CloseSocket, Reply, ReplyError
  <2>2. worker[r] \in Working \ {"start"} /\ worker'[r] \in Working \ {"start"}
    BY <1>0, <1>7
    DEF AnyWorkerStep, WorkerStep, Ask, AskError, Answered, Timeout, Interrupted,
        StrangerAnswers, CloseSocket, Reply, ReplyError,
        Step, TypeOK, Working
  <2>3. \A q \in Requests : q # r => worker'[q] = worker[q] BY <1>0, <1>7, WorkerMoves
  <2> QED BY <1>0, <2>1, <2>2, <2>3 DEF HeapOwned
<1>8. CASE SetProxyExit \/ ServerAnswers \/ Lose
  BY <1>0, <1>8, NetworkMoves DEF HeapOwned
<1>9. CASE UNCHANGED vars
  BY <1>0, <1>9, VarsUnchanged DEF HeapOwned
<1> QED
  BY <1>1, <1>2, <1>3, <1>4, <1>5, <1>6, <1>7, <1>8, <1>9 DEF Next, MainStep, Environment, AnyWorkerStep

-----------------------------------------------------------------------------
(* Descriptors and their owners *)

LEMMA WorkersAreFew ==
  /\ IsFiniteSet(Threads) /\ Cardinality(Threads) \in Nat
  /\ IsFiniteSet(Holders) /\ Cardinality(Holders) \in Nat
  /\ IsFiniteSet(Threads') /\ Cardinality(Threads') \in Nat
<1>1. Threads \in SUBSET Requests /\ Holders \in SUBSET Requests /\ Threads' \in SUBSET Requests
  BY DEF Threads, Holders
<1> QED BY <1>1, LimitsAssumption, FS_Subset, FS_CardinalityType

\* A proxy whose bind has failed starts no thread.
LEMMA NoHolders == DatagramOK /\ BindFailed => Threads = {} /\ Holders = {}
<1> SUFFICES ASSUME DatagramOK, BindFailed PROVE Threads = {} /\ Holders = {} OBVIOUS
<1>1. \A r \in Requests : worker[r] = "none" BY RequestsAssumption DEF DatagramOK, None
<1> QED BY <1>1 DEF Threads, Holders, HasSocket

LEMMA DescriptorInit == Init => DescriptorOK
<1> SUFFICES ASSUME Init PROVE DescriptorOK OBVIOUS
<1>1. Holders = {} /\ ~Listens /\ ~BindFailed /\ open = {}
  BY DEF Init, Holders, HasSocket, Listens, BindFailed
<1>2. \A r \in Requests : fd[r] = None BY DEF Init
<1> QED BY <1>1, <1>2, FS_EmptySet DEF DescriptorOK

\* Neither the set of open descriptors nor who uses them changes.
LEMMA DescriptorKept ==
  ASSUME TypeOK, DescriptorOK, UNCHANGED <<open, fd, client_fd>>, Listens' <=> Listens,
         BindFailed' <=> BindFailed, Holders' = Holders, Threads \subseteq Threads'
  PROVE  DescriptorOK'
<1>1. Cardinality(Threads) <= Cardinality(Threads') BY WorkersAreFew, FS_Subset
<1>2. \A n \in open : n <= 1 + Cardinality(Threads')
  BY <1>1, WorkersAreFew DEF DescriptorOK, TypeOK
<1> QED BY <1>2 DEF DescriptorOK

LEMMA DescriptorStep ==
  ASSUME IInv, [Next]_vars
  PROVE  DescriptorOK'
<1>0. TypeOK /\ DatagramOK /\ DescriptorOK BY DEF IInv
<1>1. /\ NewFd \in 1 .. Cardinality(open) + 1 /\ NewFd \notin open
      /\ Cardinality(open) \in Nat /\ IsFiniteSet(open) /\ open \subseteq Nat \ {None}
  BY <1>0, NewFdIsFree, FS_CardinalityType DEF DescriptorOK, TypeOK
<1>2. CASE Bind
  <2>1. /\ ~Listens /\ Listens' /\ ~BindFailed /\ ~BindFailed'
        /\ client_fd' = NewFd /\ open' = open \cup {NewFd} /\ UNCHANGED <<fd, worker>>
    BY <1>2 DEF Bind, Listens, BindFailed
  <2>2. Holders' = Holders /\ Threads' = Threads BY <2>1 DEF Holders, Threads
  <2>3. Cardinality(open') = Cardinality(open) + 1 /\ IsFiniteSet(open')
    BY <1>1, <2>1, FS_AddElement
  <2>4. \A r \in Holders : fd[r] \in open BY <1>0 DEF DescriptorOK, Holders
  <2>5. NewFd <= 1 + Cardinality(Threads)
    <3>1. Holders \subseteq Threads BY DEF Holders, Threads, HasSocket
    <3>2. Cardinality(Holders) <= Cardinality(Threads) BY <3>1, WorkersAreFew, FS_Subset
    <3>3. Cardinality(open) = Cardinality(Holders) BY <1>0, <2>1, WorkersAreFew DEF DescriptorOK
    <3> QED BY <1>1, <3>2, <3>3, WorkersAreFew
  <2>6. \A n \in open' : n <= 1 + Cardinality(Threads') BY <1>0, <2>1, <2>2, <2>5 DEF DescriptorOK
  <2>7. /\ \A r \in Requests : IF r \in Holders' THEN fd'[r] \in open' ELSE fd'[r] = None
        /\ \A q, r \in Holders' : fd'[q] = fd'[r] => q = r
        /\ client_fd' \in open' /\ \A r \in Holders' : fd'[r] # client_fd'
        /\ \A n \in open' : (\E r \in Holders' : n = fd'[r]) \/ n = client_fd'
    BY <1>0, <1>1, <2>1, <2>2, <2>4 DEF DescriptorOK
  <2>8. Cardinality(open') = Cardinality(Holders') + 1
    BY <1>0, <2>1, <2>2, <2>3, WorkersAreFew DEF DescriptorOK
  <2> QED BY <2>1, <2>3, <2>6, <2>7, <2>8 DEF DescriptorOK
<1>3. CASE Close
  <2>1. /\ Listens /\ ~Listens' /\ ~BindFailed
        /\ open' = open \ {client_fd} /\ UNCHANGED <<fd, client_fd, worker>>
    BY <1>3 DEF Close, Listens, BindFailed
  <2>2. Holders' = Holders /\ Threads' = Threads BY <2>1 DEF Holders, Threads
  <2>3. client_fd \in open /\ \A r \in Holders : fd[r] # client_fd BY <1>0, <2>1 DEF DescriptorOK
  <2>9. ~BindFailed' BY <1>0, <2>1, <2>3 DEF BindFailed, TypeOK
  <2>4. Cardinality(open') = Cardinality(open) - 1 /\ IsFiniteSet(open')
    BY <1>1, <2>1, <2>3, FS_RemoveElement
  <2>5. Cardinality(open') = Cardinality(Holders')
    BY <1>0, <1>1, <2>1, <2>2, <2>4, WorkersAreFew DEF DescriptorOK
  <2>6. \A n \in open' : n <= 1 + Cardinality(Threads') BY <1>0, <2>1, <2>2 DEF DescriptorOK
  <2>7. /\ \A r \in Requests : IF r \in Holders' THEN fd'[r] \in open' ELSE fd'[r] = None
        /\ \A q, r \in Holders' : fd'[q] = fd'[r] => q = r
        /\ \A n \in open' : \E r \in Holders' : n = fd'[r]
    BY <1>0, <2>1, <2>2, <2>3 DEF DescriptorOK
  <2>8. Cardinality(Holders') \in Nat BY <2>2, WorkersAreFew
  <2> QED BY <2>1, <2>4, <2>5, <2>6, <2>7, <2>8, <2>9 DEF DescriptorOK
<1>10. CASE BindError
  <2>1. /\ main = "bind" /\ open' = open \cup {NewFd} /\ UNCHANGED <<fd, client_fd, worker>>
        /\ ~Listens /\ ~Listens' /\ ~BindFailed
    BY <1>10 DEF BindError, Listens, BindFailed
  <2>2. \A r \in Requests : worker[r] = "none" /\ fd[r] = None
    <3>3. next = None BY <1>0, <2>1 DEF DatagramOK
    <3>4. \A r \in Requests : r > next => worker[r] = "none" BY <1>0 DEF DatagramOK
    <3>1. \A r \in Requests : worker[r] = "none" BY <3>3, <3>4, RequestsAssumption DEF None
    <3>2. \A r \in Requests : r \notin Holders BY <3>1 DEF Holders, HasSocket
    <3> QED BY <1>0, <3>1, <3>2 DEF DescriptorOK
  <2>3. Holders = {} /\ Holders' = {} BY <2>1, <2>2 DEF Holders, HasSocket
  <2>4. open = {} BY <1>0, <2>1, <2>3 DEF DescriptorOK
  <2>8. Cardinality({}) = 0 BY FS_EmptySet
  <2>9. NewFd = 1 /\ open' = {NewFd} BY <1>1, <2>1, <2>4, <2>8
  <2>5. /\ Cardinality(Holders') = 0 /\ NewFd = 1
        /\ Cardinality(open') = 1 /\ IsFiniteSet(open')
    BY <2>3, <2>8, <2>9, FS_Singleton
  <2>6. BindFailed'
    <3>1. client_fd = None BY <1>0, <2>1 DEF DatagramOK
    <3> QED BY <1>10, <2>1, <3>1 DEF BindError, BindFailed
  <2>7. \A n \in open' : n <= 1 + Cardinality(Threads')
    BY <2>1, <2>4, <2>5, WorkersAreFew
  <2> QED BY <2>1, <2>2, <2>3, <2>5, <2>6, <2>7 DEF DescriptorOK
<1>4. CASE Check \/ Copy \/ \E c \in Clients : Receive(c)
  <2>1. UNCHANGED <<open, fd, client_fd, worker, Listens, BindFailed>>
    BY <1>4 DEF Check, Copy, Receive, Listens, BindFailed, sockets
  <2>2. UNCHANGED <<Holders, Threads>> BY <2>1 DEF Holders, Threads
  <2> QED BY <1>0, <2>1, <2>2, DescriptorKept
<1>5. CASE Create
  <2>1. UNCHANGED <<open, fd, client_fd, Listens, BindFailed>>
    BY <1>5 DEF Create, Listens, BindFailed, sockets
  <2>2. /\ current \in Requests /\ worker[current] = "none" /\ worker'[current] \in {"start", "refused"}
        /\ \A q \in Requests : q # current => worker'[q] = worker[q]
    BY <1>0, <1>5 DEF Create, DatagramOK, TypeOK
  <2>3. Holders' = Holders BY <2>2 DEF Holders, HasSocket
  <2>4. Threads \subseteq Threads' BY <2>2 DEF Threads
  <2> QED BY <1>0, <2>1, <2>3, <2>4, DescriptorKept
<1>6. ASSUME NEW r \in Requests, Start(r) PROVE DescriptorOK'
  <2>1. /\ open' = open \cup {NewFd} /\ fd'[r] = NewFd /\ \A q \in Requests : q # r => fd'[q] = fd[q]
        /\ worker[r] = "start" /\ worker'[r] = "ask" /\ \A q \in Requests : q # r => worker'[q] = worker[q]
        /\ UNCHANGED <<client_fd, main>>
    BY <1>0, <1>6 DEF Start, Step, TypeOK, mainThread
  <2>2. r \notin Holders /\ Holders' = Holders \cup {r} /\ Threads' = Threads /\ Holders' \subseteq Threads
    BY <2>1 DEF Holders, HasSocket, Threads
  <2>3. Listens' = Listens /\ BindFailed' = BindFailed /\ ~BindFailed
    BY <1>0, <2>1, NoHolders DEF Listens, BindFailed, Threads
  <2>4. Cardinality(open') = Cardinality(open) + 1 /\ IsFiniteSet(open')
    BY <1>1, <2>1, FS_AddElement
  <2>5. Cardinality(Holders') = Cardinality(Holders) + 1 BY <2>2, WorkersAreFew, FS_AddElement
  <2>6. Cardinality(open) = Cardinality(Holders) + (IF Listens THEN 1 ELSE 0) BY <1>0, <2>3 DEF DescriptorOK
  <2>7. Cardinality(open') = Cardinality(Holders') + (IF Listens' THEN 1 ELSE 0)
    BY <2>3, <2>4, <2>5, <2>6, WorkersAreFew
  <2>8. NewFd <= 1 + Cardinality(Threads')
    <3>1. Cardinality(Holders') <= Cardinality(Threads) BY <2>2, WorkersAreFew, FS_Subset
    <3> QED BY <1>1, <2>2, <2>5, <2>6, <3>1, WorkersAreFew
  <2>9. \A n \in open' : n <= 1 + Cardinality(Threads') BY <1>0, <2>1, <2>2, <2>8 DEF DescriptorOK
  <2>10. /\ \A q \in Requests : q \in Holders => fd[q] \in open
         /\ \A q \in Requests : q \notin Holders => fd[q] = None
         /\ \A q \in Holders : q \in Requests /\ q # r
    BY <1>0, <2>2 DEF DescriptorOK, Holders
  <2>11. /\ \A q \in Requests : IF q \in Holders' THEN fd'[q] \in open' ELSE fd'[q] = None
         /\ \A p, q \in Holders' : fd'[p] = fd'[q] => p = q
         /\ Listens' => client_fd' \in open' /\ \A q \in Holders' : fd'[q] # client_fd'
    BY <1>0, <1>1, <2>1, <2>2, <2>3, <2>10 DEF DescriptorOK
  <2>12. \A n \in open' : (\E q \in Holders' : n = fd'[q]) \/ (Listens' /\ n = client_fd')
    BY <1>0, <2>1, <2>2, <2>3, <2>10 DEF DescriptorOK
  <2> QED BY <2>3, <2>4, <2>7, <2>9, <2>11, <2>12 DEF DescriptorOK
<1>7. ASSUME NEW r \in Requests, CloseSocket(r) PROVE DescriptorOK'
  <2>1. /\ open' = open \ {fd[r]} /\ fd'[r] = None /\ \A q \in Requests : q # r => fd'[q] = fd[q]
        /\ worker[r] \in {"answered", "timeout"} /\ worker'[r] \in {"closed", "free"}
        /\ \A q \in Requests : q # r => worker'[q] = worker[q]
        /\ UNCHANGED <<client_fd, main>>
    BY <1>0, <1>7 DEF CloseSocket, TypeOK, mainThread
  <2>2. r \in Holders /\ Holders' = Holders \ {r} /\ Threads' = Threads
    BY <2>1 DEF Holders, HasSocket, Threads
  <2>3. Listens' = Listens /\ BindFailed' = BindFailed /\ ~BindFailed
    BY <1>0, <2>1, NoHolders DEF Listens, BindFailed, Threads
  <2>4. fd[r] \in open BY <1>0, <2>2 DEF DescriptorOK
  <2>5. Cardinality(open') = Cardinality(open) - 1 /\ IsFiniteSet(open')
    BY <1>1, <2>1, <2>4, FS_RemoveElement
  <2>6. Cardinality(Holders') = Cardinality(Holders) - 1 BY <2>2, WorkersAreFew, FS_RemoveElement
  <2>7. Cardinality(open') = Cardinality(Holders') + (IF Listens' THEN 1 ELSE 0)
    BY <1>0, <1>1, <2>3, <2>5, <2>6, WorkersAreFew DEF DescriptorOK
  <2>8. \A n \in open' : n <= 1 + Cardinality(Threads') BY <1>0, <2>1, <2>2 DEF DescriptorOK
  <2>9. /\ \A q \in Requests : q \in Holders => fd[q] \in open
        /\ \A q \in Requests : q \notin Holders => fd[q] = None
        /\ \A q \in Holders' : q \in Requests /\ q # r /\ q \in Holders
    BY <1>0, <2>2 DEF DescriptorOK, Holders
  <2>10. /\ \A q \in Requests : IF q \in Holders' THEN fd'[q] \in open' ELSE fd'[q] = None
         /\ \A p, q \in Holders' : fd'[p] = fd'[q] => p = q
         /\ Listens' => client_fd' \in open' /\ \A q \in Holders' : fd'[q] # client_fd'
    BY <1>0, <2>1, <2>2, <2>3, <2>9 DEF DescriptorOK
  <2>11. \A n \in open' : (\E q \in Holders' : n = fd'[q]) \/ (Listens' /\ n = client_fd')
    BY <1>0, <2>1, <2>2, <2>3, <2>9 DEF DescriptorOK
  <2> QED BY <2>3, <2>5, <2>7, <2>8, <2>10, <2>11 DEF DescriptorOK
<1>8. ASSUME NEW r \in Requests, AnyWorkerStep(r), ~Start(r), ~CloseSocket(r) PROVE DescriptorOK'
  <2>1. UNCHANGED <<open, fd, client_fd, main>>
    BY <1>0, <1>8, WorkerMoves
    DEF AnyWorkerStep, WorkerStep, Ask, AskError, Answered, Timeout, Interrupted,
        StrangerAnswers, Reply, ReplyError, Free, sockets
  <2>2. worker[r] \in HasSocket <=> worker'[r] \in HasSocket
    BY <1>0, <1>8
    DEF AnyWorkerStep, WorkerStep, Ask, AskError, Answered, Timeout, Interrupted,
        StrangerAnswers, Reply, ReplyError, Free, Step, TypeOK,
        HasSocket
  <2>3. /\ \A q \in Requests : q # r => worker'[q] = worker[q]
        /\ worker'[r] \notin {"none", "refused"}
    BY <1>0, <1>8, WorkerMoves DEF Working
  <2>4. /\ Holders' = Holders /\ Threads \subseteq Threads'
        /\ Listens' = Listens /\ BindFailed' = BindFailed
    BY <2>1, <2>2, <2>3 DEF Holders, Threads, Listens, BindFailed
  <2> QED BY <1>0, <2>1, <2>4, DescriptorKept
<1>9. CASE UNCHANGED vars \/ SetProxyExit \/ ServerAnswers \/ Lose
  <2>1. UNCHANGED <<open, fd, client_fd, main, worker>> BY <1>9, VarsUnchanged, NetworkMoves
  <2>2. UNCHANGED <<Listens, BindFailed, Holders, Threads>>
    BY <2>1 DEF Listens, BindFailed, Holders, Threads
  <2> QED BY <1>0, <2>1, <2>2, DescriptorKept
<1> QED
  BY <1>2, <1>3, <1>4, <1>5, <1>6, <1>7, <1>8, <1>9, <1>10
  DEF Next, MainStep, Environment, AnyWorkerStep

-----------------------------------------------------------------------------
(* Ports and answers *)

LEMMA PortInit == Init => PortOK /\ ReplyOK /\ StrayAnswersAreLate
BY DEF Init, PortOK, ReplyOK, StrayAnswersAreLate, Forwarded

\* What the workers' sockets have on their way stays, and so does every worker that sent
\* it: where it was, or behind the end of its socket.
LEMMA PortKept ==
  ASSUME TypeOK, PortOK, UNCHANGED <<port, outgoing, answer>>, incoming' \subseteq incoming,
         \A q \in Requests : /\ worker[q] \in Sent => worker'[q] \in Sent
                             /\ worker[q] \in Late => worker'[q] \in Late
                             /\ worker'[q] \in {"answered", "closed"} => worker[q] \in {"answered", "closed"}
  PROVE  PortOK'
<1>1. Forwarded' = Forwarded /\ Forwarded \subseteq Requests BY DEF Forwarded, TypeOK
<1>2. \A r \in Requests : port'[r] # None => worker'[r] \in Sent BY DEF PortOK
<1>3. \A q, r \in Requests : port'[q] = port'[r] /\ port'[q] # None => q = r BY DEF PortOK
<1>4. \A d \in outgoing' : port'[d.about] = d.from \/ worker'[d.about] \in Late
  BY DEF PortOK, TypeOK
<1>5. \A a \in incoming' : /\ port'[a.about] = a.to \/ worker'[a.about] \in Late
                           /\ a.about \in Forwarded'
  BY <1>1 DEF PortOK, TypeOK
<1>6. \A r \in Requests : worker'[r] \in {"answered", "closed"} =>
        /\ answer'[r] \in Forwarded' \cup {Stranger}
        /\ answer'[r] \notin {r, Stranger} => worker'[answer'[r]] \in Late
  BY <1>1 DEF PortOK
<1> QED BY <1>2, <1>3, <1>4, <1>5, <1>6 DEF PortOK

LEMMA PortStep ==
  ASSUME IInv, [Next]_vars
  PROVE  PortOK'
<1>0. TypeOK /\ DatagramOK /\ PortOK BY DEF IInv
<1>1. CASE Bind \/ BindError \/ Check \/ Close \/ Copy \/ \E c \in Clients : Receive(c)
  <2>1. UNCHANGED <<port, outgoing, incoming, answer, worker>>
    BY <1>1 DEF Bind, BindError, Check, Close, Copy, Receive, sockets, network
  <2> QED BY <1>0, <2>1, PortKept
<1>2. CASE Create
  <2>1. UNCHANGED <<port, outgoing, incoming, answer>> BY <1>2 DEF Create, sockets
  <2>2. /\ current \in Requests /\ worker[current] = "none" /\ worker'[current] \in {"start", "refused"}
        /\ \A q \in Requests : q # current => worker'[q] = worker[q]
    BY <1>0, <1>2 DEF Create, DatagramOK, TypeOK
  <2> QED BY <1>0, <2>1, <2>2, PortKept DEF Sent, Late
<1>3. ASSUME NEW r \in Requests,
             Start(r) \/ AskError(r) \/ Timeout(r) \/ Interrupted(r) \/ Reply(r) \/ ReplyError(r) \/ Free(r)
      PROVE  PortOK'
  <2>1. UNCHANGED <<port, outgoing, incoming, answer>>
    BY <1>3 DEF Start, AskError, Timeout, Interrupted, Reply, ReplyError, Free, sockets, network
  <2>2. /\ \/ worker[r] = "start" /\ worker'[r] = "ask"
           \/ worker[r] = "ask" /\ worker'[r] = "wait"
           \/ worker[r] = "wait" /\ worker'[r] \in {"timeout", "blocked"}
           \/ worker[r] = "closed" /\ worker'[r] = "free"
           \/ worker[r] = "free" /\ worker'[r] = "ended"
        /\ \A q \in Requests : q # r => worker'[q] = worker[q]
    BY <1>0, <1>3 DEF Start, AskError, Timeout, Interrupted, Reply, ReplyError, Free, Step, TypeOK
  <2> QED BY <1>0, <2>1, <2>2, PortKept DEF Sent, Late
<1>4. ASSUME NEW r \in Requests, Ask(r) PROVE PortOK'
  <2>1. PICK p \in Ports \ {port[q] : q \in Requests} :
          /\ port' = [port EXCEPT ![r] = p]
          /\ outgoing' = outgoing \cup {[from |-> p, about |-> info[r].bytes]}
    BY <1>4 DEF Ask
  <2>2. /\ worker[r] = "ask" /\ worker'[r] = "wait" /\ \A q \in Requests : q # r => worker'[q] = worker[q]
        /\ UNCHANGED <<answer, incoming>>
    BY <1>0, <1>4 DEF Ask, Step, TypeOK
  <2>3. port'[r] = p /\ p # None /\ \A q \in Requests : port[q] # p /\ (q # r => port'[q] = port[q])
    BY <1>0, <2>1, NoneAssumption DEF TypeOK
  <2>4. info[r].bytes = r BY <1>0, <2>2 DEF DatagramOK
  <2>5. port[r] = None BY <1>0, <2>2 DEF PortOK, Sent
  <2>6. Forwarded' = Forwarded \cup {r}
    <3> DEFINE d == [from |-> p, about |-> r]
    <3>1. outgoing' = outgoing \cup {d} /\ d.about = r BY <2>1, <2>4
    <3> HIDE DEF d
    <3> QED BY <3>1 DEF Forwarded
  <2>7. \A d \in outgoing : d.from # None /\ d.about \in Requests BY <1>0, NoneAssumption DEF TypeOK
  <2>8. \A d \in outgoing' : port'[d.about] = d.from \/ worker'[d.about] \in Late
    <3> SUFFICES ASSUME NEW d \in outgoing' PROVE port'[d.about] = d.from \/ worker'[d.about] \in Late
      OBVIOUS
    <3>1. CASE d = [from |-> p, about |-> r] BY <2>3, <3>1
    <3>2. CASE d \in outgoing BY <1>0, <2>2, <2>3, <2>5, <2>7, <3>2 DEF PortOK, Late
    <3> QED BY <2>1, <2>4, <3>1, <3>2
  <2>9. \A a \in incoming : a.to # None /\ a.about \in Requests BY <1>0, NoneAssumption DEF TypeOK
  <2>10. \A a \in incoming' : /\ port'[a.about] = a.to \/ worker'[a.about] \in Late
                              /\ a.about \in Forwarded'
    BY <1>0, <2>2, <2>3, <2>5, <2>6, <2>9 DEF PortOK, Late
  <2>11. /\ \A q \in Requests : port'[q] # None => worker'[q] \in Sent
         /\ \A q, t \in Requests : port'[q] = port'[t] /\ port'[q] # None => q = t
    BY <1>0, <2>2, <2>3 DEF PortOK, Sent
  <2>12. Forwarded \subseteq Requests BY <1>0 DEF Forwarded, TypeOK
  <2>13. \A q \in Requests : worker'[q] \in {"answered", "closed"} =>
           /\ answer'[q] \in Forwarded' \cup {Stranger}
           /\ answer'[q] \notin {q, Stranger} => worker'[answer'[q]] \in Late
    BY <1>0, <2>2, <2>6, <2>12 DEF PortOK, Late
  <2> QED BY <2>8, <2>10, <2>11, <2>13 DEF PortOK
<1>5. ASSUME NEW r \in Requests, Answered(r) PROVE PortOK'
  <2>1. PICK a \in incoming : /\ a.to = port[r]
                              /\ answer' = [answer EXCEPT ![r] = a.about]
                              /\ incoming' \in {incoming, incoming \ {a}}
    BY <1>5 DEF Answered
  <2>2. /\ worker[r] \in {"wait", "blocked"} /\ worker'[r] = "answered"
        /\ \A q \in Requests : q # r => worker'[q] = worker[q]
        /\ UNCHANGED <<port, outgoing>>
    BY <1>0, <1>5 DEF Answered, TypeOK
  <2>3. answer'[r] = a.about /\ \A q \in Requests : q # r => answer'[q] = answer[q]
    BY <1>0, <2>1 DEF TypeOK
  <2>4. a.to # None /\ a.about \in Requests BY <1>0, NoneAssumption DEF TypeOK
  <2>5. \A q \in Requests : /\ worker[q] \in Sent => worker'[q] \in Sent
                            /\ worker[q] \in Late => worker'[q] \in Late
    BY <2>2 DEF Sent, Late
  <2>6. Forwarded' = Forwarded /\ Forwarded \subseteq Requests BY <1>0, <2>2 DEF Forwarded, TypeOK
  <2>7. /\ \A q \in Requests : port'[q] # None => worker'[q] \in Sent
        /\ \A q, t \in Requests : port'[q] = port'[t] /\ port'[q] # None => q = t
    BY <1>0, <2>2, <2>5 DEF PortOK
  <2>8. /\ \A d \in outgoing' : port'[d.about] = d.from \/ worker'[d.about] \in Late
        /\ \A b \in incoming' : /\ port'[b.about] = b.to \/ worker'[b.about] \in Late
                                /\ b.about \in Forwarded'
    <3>1. \A d \in outgoing : d.about \in Requests BY <1>0 DEF TypeOK
    <3>2. \A b \in incoming' : b \in incoming /\ b.about \in Requests BY <1>0, <2>1 DEF TypeOK
    <3> QED BY <1>0, <2>2, <2>5, <2>6, <3>1, <3>2 DEF PortOK
  <2>9. a.about \in Forwarded /\ (a.about # r => worker[a.about] \in Late)
    BY <1>0, <2>1, <2>4 DEF PortOK
  <2>10. ASSUME NEW q \in Requests, worker'[q] \in {"answered", "closed"}
         PROVE  /\ answer'[q] \in Forwarded' \cup {Stranger}
                /\ answer'[q] \notin {q, Stranger} => worker'[answer'[q]] \in Late
    <3>1. CASE q = r BY <2>3, <2>4, <2>5, <2>6, <2>9, <3>1
    <3>2. CASE q # r
      <4>1. /\ answer'[q] \in Forwarded \cup {Stranger}
            /\ answer'[q] \notin {q, Stranger} => worker[answer'[q]] \in Late
        BY <1>0, <2>2, <2>3, <2>10, <3>2 DEF PortOK
      <4> QED BY <2>5, <2>6, <4>1
    <3> QED BY <3>1, <3>2
  <2> QED BY <2>7, <2>8, <2>10 DEF PortOK
<1>9. ASSUME NEW r \in Requests, StrangerAnswers(r) PROVE PortOK'
  <2>1. /\ worker[r] \in {"wait", "blocked"} /\ worker'[r] = "answered"
        /\ \A q \in Requests : q # r => worker'[q] = worker[q]
        /\ answer'[r] = Stranger /\ \A q \in Requests : q # r => answer'[q] = answer[q]
        /\ UNCHANGED <<port, outgoing, incoming>>
    BY <1>0, <1>9 DEF StrangerAnswers, TypeOK, sockets, network
  <2>2. \A q \in Requests : /\ worker[q] \in Sent => worker'[q] \in Sent
                            /\ worker[q] \in Late => worker'[q] \in Late
    BY <2>1 DEF Sent, Late
  <2>3. Forwarded' = Forwarded /\ Forwarded \subseteq Requests BY <1>0, <2>1 DEF Forwarded, TypeOK
  <2>4. /\ \A q \in Requests : port'[q] # None => worker'[q] \in Sent
        /\ \A q, t \in Requests : port'[q] = port'[t] /\ port'[q] # None => q = t
    BY <1>0, <2>1, <2>2 DEF PortOK
  <2>5. /\ \A d \in outgoing' : port'[d.about] = d.from \/ worker'[d.about] \in Late
        /\ \A a \in incoming' : /\ port'[a.about] = a.to \/ worker'[a.about] \in Late
                                /\ a.about \in Forwarded'
    <3>1. /\ \A d \in outgoing : d.about \in Requests
          /\ \A a \in incoming : a.about \in Requests
      BY <1>0 DEF TypeOK
    <3> QED BY <1>0, <2>1, <2>2, <2>3, <3>1 DEF PortOK
  <2>6. ASSUME NEW q \in Requests, worker'[q] \in {"answered", "closed"}
        PROVE  /\ answer'[q] \in Forwarded' \cup {Stranger}
               /\ answer'[q] \notin {q, Stranger} => worker'[answer'[q]] \in Late
    <3>1. CASE q = r BY <2>1, <3>1
    <3>2. CASE q # r
      <4>1. /\ answer'[q] \in Forwarded \cup {Stranger}
            /\ answer'[q] \notin {q, Stranger} => worker[answer'[q]] \in Late
        BY <1>0, <2>1, <2>6, <3>2 DEF PortOK
      <4> QED BY <2>2, <2>3, <4>1
    <3> QED BY <3>1, <3>2
  <2> QED BY <2>4, <2>5, <2>6 DEF PortOK
<1>6. ASSUME NEW r \in Requests, CloseSocket(r) PROVE PortOK'
  <2>1. /\ port'[r] = None /\ \A q \in Requests : q # r => port'[q] = port[q]
        /\ worker[r] \in {"answered", "timeout"}
        /\ worker'[r] = IF worker[r] = "answered" THEN "closed" ELSE "free"
        /\ \A q \in Requests : q # r => worker'[q] = worker[q]
        /\ UNCHANGED <<outgoing, incoming, answer>>
    BY <1>0, <1>6 DEF CloseSocket, TypeOK, network
  <2>2. worker'[r] \in Late /\ \A q \in Requests : worker[q] \in Late => worker'[q] \in Late
    BY <2>1 DEF Late
  <2>3. Forwarded' = Forwarded /\ Forwarded \subseteq Requests BY <1>0, <2>1 DEF Forwarded, TypeOK
  <2>4. /\ \A q \in Requests : port'[q] # None => worker'[q] \in Sent
        /\ \A q, t \in Requests : port'[q] = port'[t] /\ port'[q] # None => q = t
    BY <1>0, <2>1 DEF PortOK, Sent
  <2>5. /\ \A d \in outgoing' : port'[d.about] = d.from \/ worker'[d.about] \in Late
        /\ \A b \in incoming' : /\ port'[b.about] = b.to \/ worker'[b.about] \in Late
                                /\ b.about \in Forwarded'
    <3>1. /\ \A d \in outgoing : d.about \in Requests
          /\ \A b \in incoming : b.about \in Requests
      BY <1>0 DEF TypeOK
    <3> QED BY <1>0, <2>1, <2>2, <2>3, <3>1 DEF PortOK
  <2>6. \A q \in Requests : worker'[q] \in {"answered", "closed"} =>
          /\ answer'[q] \in Forwarded' \cup {Stranger}
          /\ answer'[q] \notin {q, Stranger} => worker'[answer'[q]] \in Late
    BY <1>0, <2>1, <2>2, <2>3 DEF PortOK
  <2> QED BY <2>4, <2>5, <2>6 DEF PortOK
<1>7. CASE ServerAnswers
  <2>1. PICK d \in outgoing : incoming' = incoming \cup {[to |-> d.from, about |-> d.about]}
    BY <1>7 DEF ServerAnswers
  <2>2. UNCHANGED <<port, outgoing, answer, worker>> BY <1>7, NetworkMoves
  <2>3. Forwarded' = Forwarded /\ d.about \in Forwarded BY <2>2 DEF Forwarded
  <2>4. \A a \in incoming' : /\ port'[a.about] = a.to \/ worker'[a.about] \in Late
                             /\ a.about \in Forwarded'
    BY <1>0, <2>1, <2>2, <2>3 DEF PortOK
  <2> QED BY <1>0, <2>2, <2>3, <2>4 DEF PortOK
<1>8. CASE UNCHANGED vars \/ SetProxyExit \/ Lose
  <2>1. UNCHANGED <<port, outgoing, answer, worker>> BY <1>8, VarsUnchanged, NetworkMoves
  <2>2. incoming' \subseteq incoming BY <1>8, VarsUnchanged DEF SetProxyExit, Lose, sockets
  <2> QED BY <1>0, <2>1, <2>2, PortKept
<1> QED
  BY <1>1, <1>2, <1>3, <1>4, <1>5, <1>6, <1>7, <1>8, <1>9 DEF Next, MainStep, WorkerStep, Environment

-----------------------------------------------------------------------------
(* Replies *)

\* A reply is sent by a worker that has not sent one, while it has the answer to its own
\* datagram, to one whose worker has closed its socket, or a stranger's datagram.
LEMMA ReplyStep ==
  ASSUME IInv, [Next]_vars
  PROVE  ReplyOK' /\ StrayAnswersAreLate'
<1>0. TypeOK /\ DatagramOK /\ PortOK /\ ReplyOK /\ StrayAnswersAreLate BY DEF IInv
<1>t. \A x \in replies : x.by \in Requests /\ x.about \in Requests \cup {Stranger} BY <1>0 DEF TypeOK
<1>1. ASSUME UNCHANGED replies,
             \A q \in Requests : /\ worker[q] \in {"free", "ended"} => worker'[q] \in {"free", "ended"}
                                 /\ worker[q] \in Late => worker'[q] \in Late
      PROVE  ReplyOK' /\ StrayAnswersAreLate'
  BY <1>0, <1>t, <1>1 DEF ReplyOK, StrayAnswersAreLate, Late
<1>2. CASE Bind \/ BindError \/ Check \/ Close \/ Copy \/ \E c \in Clients : Receive(c)
  <2>1. UNCHANGED <<replies, worker>> BY <1>2 DEF Bind, BindError, Check, Close, Copy, Receive
  <2> QED BY <1>1, <2>1
<1>3. CASE Create
  <2>1. UNCHANGED replies BY <1>3 DEF Create
  <2>2. /\ current \in Requests /\ worker[current] = "none"
        /\ \A q \in Requests : q # current => worker'[q] = worker[q]
    BY <1>0, <1>3 DEF Create, DatagramOK, TypeOK
  <2> QED BY <1>1, <2>1, <2>2 DEF Late
<1>4. ASSUME NEW r \in Requests, AnyWorkerStep(r), ~Reply(r) PROVE ReplyOK' /\ StrayAnswersAreLate'
  <2>1. UNCHANGED replies
    BY <1>4
    DEF AnyWorkerStep, WorkerStep, Start, Ask, AskError, Answered, Timeout, Interrupted,
        StrangerAnswers, CloseSocket, ReplyError, Free
  <2>2. /\ worker[r] = "free" => worker'[r] = "ended"
        /\ worker[r] = "closed" => worker'[r] = "free"
        /\ worker[r] # "ended"
        /\ \A q \in Requests : q # r => worker'[q] = worker[q]
    BY <1>0, <1>4
    DEF AnyWorkerStep, WorkerStep, Start, Ask, AskError, Answered, Timeout, Interrupted,
        StrangerAnswers, CloseSocket, ReplyError, Free,
        Step, TypeOK
  <2> QED BY <1>1, <2>1, <2>2 DEF Late
<1>5. ASSUME NEW r \in Requests, Reply(r) PROVE ReplyOK' /\ StrayAnswersAreLate'
  <2>1. /\ worker[r] = "closed" /\ worker'[r] = "free" /\ \A q \in Requests : q # r => worker'[q] = worker[q]
        /\ replies' \subseteq replies \cup {[by |-> r, to |-> info[r].client, about |-> answer[r]]}
    BY <1>0, <1>5 DEF Reply, SendTo, Step, TypeOK
  <2>2. answer[r] \notin {r, Stranger} => worker[answer[r]] \in Late BY <1>0, <2>1 DEF PortOK
  <2>3. answer[r] \in Requests \cup {Stranger} BY <1>0, <2>1 DEF PortOK, Forwarded, TypeOK
  <2>4. \A q \in Requests : worker[q] \in Late => worker'[q] \in Late BY <2>1 DEF Late
  <2>5. ReplyOK' BY <1>0, <1>t, <2>1 DEF ReplyOK
  <2>6. \A x \in replies' : x.about \notin {x.by, Stranger} => worker'[x.about] \in Late
    BY <1>0, <1>t, <2>1, <2>2, <2>3, <2>4 DEF StrayAnswersAreLate, Late
  <2> QED BY <2>5, <2>6 DEF StrayAnswersAreLate, Late
<1>6. CASE UNCHANGED vars \/ SetProxyExit \/ ServerAnswers \/ Lose
  <2>1. UNCHANGED <<replies, worker>> BY <1>6, VarsUnchanged, NetworkMoves
  <2> QED BY <1>1, <2>1
<1> QED
  BY <1>2, <1>3, <1>4, <1>5, <1>6 DEF Next, MainStep, Environment, AnyWorkerStep

-----------------------------------------------------------------------------
(* The theorems *)

LEMMA Invariance == Spec => []IInv
<1>1. Init => IInv
  BY InitTyped, DatagramInit, HeapInit, DescriptorInit, PortInit DEF IInv
<1>2. IInv /\ [Next]_vars => IInv'
  BY TypeStep, DatagramStep, HeapStep, DescriptorStep, PortStep, ReplyStep DEF IInv
<1> QED BY <1>1, <1>2, PTL DEF Spec

\* Labels, copies, ports and blocks stay in the range the code gives them.
THEOREM UdpTypeCorrect == Spec => []TypeOK
<1>1. IInv => TypeOK BY DEF IInv
<1> QED BY <1>1, Invariance, PTL

\* What DescriptorsOwned says of the descriptors follows from who has which.
LEMMA DescriptorsHaveOwners == TypeOK /\ DatagramOK /\ DescriptorOK => DescriptorsOwned
<1> SUFFICES ASSUME TypeOK, DatagramOK, DescriptorOK PROVE DescriptorsOwned OBVIOUS
<1> DEFINE holders == {r \in Requests : fd[r] # None}
           listeners == IF main \in {"bind", "returned"} THEN {} ELSE {client_fd}
           owned == {fd[r] : r \in holders} \cup listeners
<1>1. holders = Holders BY DEF Holders, DescriptorOK, TypeOK
<1>2. \A r \in Requests : r \in holders <=> worker[r] \in {"ask", "wait", "blocked", "answered", "timeout"}
  BY <1>1 DEF Holders, HasSocket
<1>3. owned \subseteq open BY <1>1 DEF DescriptorOK, Listens, Holders
<1>4. Cardinality({}) = 0 /\ Cardinality(listeners) = IF Listens THEN 1 ELSE 0
  BY FS_EmptySet, FS_Singleton DEF Listens
<1>5. /\ Cardinality(owned) = Cardinality(holders) + Cardinality(listeners)
      /\ Cardinality(open \ owned) = IF BindFailed THEN 1 ELSE 0
  <2>1. CASE BindFailed
    <3>1. holders = {} /\ listeners = {} /\ ~Listens
      BY <1>1, <2>1, NoHolders DEF BindFailed, Listens
    <3>2. owned = {} /\ open \ owned = open BY <3>1
    <3>3. Cardinality(open) = 1 BY <1>1, <1>4, <2>1, <3>1 DEF DescriptorOK
    <3> HIDE DEF owned, holders, listeners
    <3> QED BY <1>4, <2>1, <3>1, <3>2, <3>3
  <2>2. CASE ~BindFailed
    <3>1. owned = open BY <1>1, <1>3, <2>2 DEF DescriptorOK, Listens, Holders
    <3>2. open \ owned = {} BY <3>1
    <3>3. Cardinality(open) = Cardinality(holders) + Cardinality(listeners)
      BY <1>1, <1>4, <2>2 DEF DescriptorOK
    <3> HIDE DEF owned, holders, listeners
    <3> QED BY <1>4, <2>2, <3>1, <3>2, <3>3
  <2> QED BY <2>1, <2>2
<1>6. \A n \in open : n <= 1 + Cardinality(Threads) BY DEF DescriptorOK
<1> QED BY <1>2, <1>3, <1>5, <1>6 DEF DescriptorsOwned

\* Every block has one owner on every path of a worker, however many datagrams come and
\* whatever fails, unless its thread could not be created; every open descriptor has one,
\* unless bind has failed, and then one descriptor is open that nobody can close.
THEOREM UdpResourcesOwned == Spec => []ResourcesOwned
<1>1. IInv => ResourcesOwned BY DescriptorsHaveOwners DEF IInv, ResourcesOwned
<1> QED BY <1>1, Invariance, PTL

\* An answer that is not a client's own belongs to a worker that has closed its socket.
THEOREM UdpStrayAnswersAreLate == Spec => []StrayAnswersAreLate
<1>1. IInv => StrayAnswersAreLate BY DEF IInv
<1> QED BY <1>1, Invariance, PTL

-----------------------------------------------------------------------------
(* The refinement of UdpRelay *)

\* What the relay does not see is a stutter.
LEMMA RelayStutter ==
  ASSUME UNCHANGED <<outgoing, replies>>, Origin' = Origin
  PROVE  UNCHANGED Promise!rvars
BY DEF Promise!rvars, Forwarded

LEMMA RelayInit == Init => Promise!Init
<1> SUFFICES ASSUME Init PROVE Promise!Init OBVIOUS
<1>1. Origin = [r \in Requests |-> None] BY DEF Init, Origin
<1>2. Forwarded = {} /\ replies = {} BY DEF Init, Forwarded
<1> QED BY <1>1, <1>2 DEF Promise!Init

LEMMA RelayStep ==
  ASSUME IInv, [Next]_vars
  PROVE  [Promise!Next]_(Promise!rvars)
<1>0. TypeOK /\ DatagramOK /\ PortOK /\ ReplyOK BY DEF IInv
<1>n. next \in Nat /\ Requests \subseteq Nat BY <1>0, RequestsAssumption DEF TypeOK, None
<1>1. CASE Bind \/ BindError \/ Check \/ Close
  <2>1. UNCHANGED <<outgoing, replies, next, addr, info>> /\ main # "copy" /\ main' # "copy"
    BY <1>1 DEF Bind, BindError, Check, Close, sockets, network
  <2> QED BY <2>1, RelayStutter DEF Origin
<1>2. CASE Copy
  <2>1. /\ main = "copy" /\ main' # "copy" /\ UNCHANGED <<outgoing, replies>>
        /\ info' = [info EXCEPT ![next] = [client |-> addr, bytes |-> recv_buffer]]
    BY <1>2 DEF Copy, sockets
  <2>2. \A r \in Requests : info'[r].client = IF r = next THEN addr ELSE info[r].client
    BY <1>0, <2>1 DEF TypeOK
  <2>3. Origin' = Origin BY <2>1, <2>2 DEF Origin
  <2> QED BY <2>1, <2>3, RelayStutter
<1>3. CASE Create
  <2>1. UNCHANGED <<outgoing, replies, next, addr, info>> /\ main # "copy" /\ main' # "copy"
    BY <1>3 DEF Create, sockets
  <2> QED BY <2>1, RelayStutter DEF Origin
<1>4. ASSUME NEW c \in Clients, Receive(c) PROVE Promise!Next
  <2>1. /\ main = "recv" /\ main' = "copy" /\ next + 1 \in Requests /\ next' = next + 1 /\ addr' = c
        /\ UNCHANGED <<info, outgoing, replies>>
    BY <1>4 DEF Receive, sockets
  <2>2. Origin[next + 1] = None BY <1>0, <1>n, <2>1 DEF Origin, DatagramOK
  <2>3. Origin' = [Origin EXCEPT ![next + 1] = c] BY <2>1 DEF Origin
  <2>4. Promise!Take(next + 1, c) BY <2>1, <2>2, <2>3 DEF Promise!Take, Forwarded
  <2> QED BY <2>1, <2>4 DEF Promise!Next
<1>5. ASSUME NEW r \in Requests, Ask(r) PROVE Promise!Next
  <2>1. PICK p \in Ports : outgoing' = outgoing \cup {[from |-> p, about |-> info[r].bytes]}
    BY <1>5 DEF Ask
  <2>2. worker[r] = "ask" /\ UNCHANGED <<main, next, addr, info, replies>>
    BY <1>0, <1>5, WorkerMoves DEF Ask, Step, AnyWorkerStep, WorkerStep
  <2>3. info[r].bytes = r /\ info[r].client \in Clients /\ ~(main = "copy" /\ r = next)
    BY <1>0, <2>2 DEF DatagramOK
  <2>4. Forwarded' = Forwarded \cup {r}
    <3> DEFINE d == [from |-> p, about |-> r]
    <3>1. outgoing' = outgoing \cup {d} /\ d.about = r BY <2>1, <2>3
    <3> HIDE DEF d
    <3> QED BY <3>1 DEF Forwarded
  <2>5. Origin' = Origin /\ Origin[r] # None BY <2>2, <2>3, NoneAssumption DEF Origin
  <2>6. Promise!Forward(r) BY <2>2, <2>4, <2>5 DEF Promise!Forward
  <2> QED BY <2>6 DEF Promise!Next
<1>6. ASSUME NEW r \in Requests, Reply(r) PROVE [Promise!Next]_(Promise!rvars)
  <2>1. worker[r] = "closed" /\ UNCHANGED <<main, next, addr, info, outgoing>>
    BY <1>6 DEF Reply, Step, mainThread, sockets
  <2>2. info[r].client \in Clients /\ ~(main = "copy" /\ r = next)
    BY <1>0, <2>1 DEF DatagramOK
  <2>3. Origin' = Origin /\ Origin[r] = info[r].client /\ Origin[r] # None
    BY <2>1, <2>2, NoneAssumption DEF Origin
  <2>4. answer[r] \in Forwarded \cup {Stranger} /\ answer[r] \in Requests \cup {Stranger}
    BY <1>0, <2>1 DEF PortOK, Forwarded, TypeOK
  <2>5. r \notin {x.by : x \in replies} BY <1>0, <2>1 DEF ReplyOK
  <2>6. CASE replies' = replies BY <2>1, <2>3, <2>6, RelayStutter
  <2>7. CASE replies' = replies \cup {[by |-> r, to |-> Origin[r], about |-> answer[r]]}
    <3>1. Promise!Return(r, answer[r])
      BY <2>1, <2>3, <2>4, <2>5, <2>7 DEF Promise!Return, Forwarded
    <3> QED BY <2>4, <3>1 DEF Promise!Next
  <2> QED BY <1>6, <2>3, <2>6, <2>7 DEF Reply, SendTo
<1>7. ASSUME NEW r \in Requests, AnyWorkerStep(r), ~Ask(r), ~Reply(r) PROVE UNCHANGED Promise!rvars
  <2>1. UNCHANGED <<outgoing, replies>>
    BY <1>7
    DEF AnyWorkerStep, WorkerStep, Start, AskError, Answered, Timeout, Interrupted,
        StrangerAnswers, CloseSocket, ReplyError, Free,
        sockets, network
  <2>2. UNCHANGED <<main, next, addr, info>> BY <1>0, <1>7, WorkerMoves
  <2>3. Origin' = Origin BY <2>2 DEF Origin
  <2> QED BY <2>1, <2>3, RelayStutter
<1>8. CASE UNCHANGED vars \/ SetProxyExit \/ ServerAnswers \/ Lose
  <2>1. UNCHANGED <<outgoing, replies, main, next, addr, info>> BY <1>8, VarsUnchanged, NetworkMoves
  <2>2. Origin' = Origin BY <2>1 DEF Origin
  <2> QED BY <2>1, <2>2, RelayStutter
<1> QED
  BY <1>1, <1>2, <1>3, <1>4, <1>5, <1>6, <1>7, <1>8 DEF Next, MainStep, Environment, AnyWorkerStep

\* The proxy implements the relay: a datagram is forwarded only after it was received,
\* and its client is sent at most one in return, the answer to a forwarded one or what a stranger sent.
THEOREM UdpImplementsRelay == Spec => ImplementsRelay
<1>1. Spec => Promise!Init /\ [][Promise!Next]_(Promise!rvars)
  <2>1. Init => Promise!Init BY RelayInit
  <2>2. IInv /\ [Next]_vars => [Promise!Next]_(Promise!rvars) BY RelayStep
  <2> QED BY <2>1, <2>2, Invariance, PTL DEF Spec
<1> QED BY <1>1 DEF ImplementsRelay, Promise!Spec

=============================================================================
