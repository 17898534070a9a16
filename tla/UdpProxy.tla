------------------------------- MODULE UdpProxy -------------------------------
(***************************************************************************)
(* proxy() of utils/network.c: the main thread receives a datagram of a    *)
(* client, copies it and starts a thread which asks the server over a      *)
(* socket of its own and returns the first answer to the client.  The      *)
(* IPv4 and the IPv6 functions are the same program text twice; the model  *)
(* stands for either.  A request is the number of its datagram; payloads   *)
(* are told apart by the request they belong to.                           *)
(***************************************************************************)
EXTENDS Naturals, FiniteSets

CONSTANTS
  Requests,     \* the datagrams the clients send: 1 .. MaxRequests
  Clients,      \* the addresses they come from
  Ports,        \* the ephemeral ports the kernel gives to the workers' sockets
  Stranger,     \* what a datagram holds that neither a client nor the server has sent
  ThreadLimit,  \* the threads that can exist; threads are never joined
  Faults        \* subset of {"no_thread", "send_error", "eintr", "reply_error", "stranger"}

ASSUME RequestsAssumption == Requests \subseteq Nat \ {0}
ASSUME LimitsAssumption == ThreadLimit \in Nat /\ IsFiniteSet(Requests)

None == 0

\* No socket has the port 0, and no datagram comes from nowhere.
ASSUME NoneAssumption == None \notin Clients \cup Ports

ASSUME StrangerAssumption == Stranger \notin Requests \cup {None}

VARIABLES
  main,        \* where proxy() is
  current,     \* the request whose copy it has just made
  next,        \* the datagrams received so far
  addr,        \* ipv4_client_addr / ipv6_client_addr, overwritten by every recvfrom
  recv_buffer, \* the main thread's buffer: the request whose bytes it holds
  info,        \* info[r]: the client address and bytes copied for the worker of r
  worker,      \* where the worker of r is
  fd,          \* the descriptor of its socket
  port,        \* the port of its socket
  answer,      \* the request whose answer is in the worker's receive buffer, or Stranger
  heap,        \* the malloc'ed blocks: <<kind, request>>
  outgoing,    \* datagrams on their way to the server
  incoming,    \* datagrams on their way back
  replies,     \* what clients were sent: [worker, to, about]
  client_fd,   \* the descriptor the clients talk to
  open,        \* the descriptors of the process that are open
  PROXY_EXIT

mainThread == <<main, current, next, addr, recv_buffer>>
sockets    == <<fd, open, client_fd, port, outgoing, incoming>>
network    == <<outgoing, incoming>>
vars == <<mainThread, info, worker, answer, heap, sockets, replies, PROXY_EXIT>>

\* Threads that still hold the resources of one.
Threads == {r \in Requests : worker[r] \notin {"none", "refused"}}

Working == {"start", "ask", "wait", "blocked", "answered", "timeout", "closed", "free"}

Init ==
  /\ main = "bind" /\ current = None /\ next = 0
  /\ addr = None /\ recv_buffer = None
  /\ info = [r \in Requests |-> [client |-> None, bytes |-> None]]
  /\ worker = [r \in Requests |-> "none"]
  /\ fd = [r \in Requests |-> None] /\ client_fd = None /\ open = {}
  /\ port = [r \in Requests |-> None]
  /\ answer = [r \in Requests |-> None]
  /\ heap = {} /\ outgoing = {} /\ incoming = {} /\ replies = {}
  /\ PROXY_EXIT = FALSE

\* socket(): the lowest number that is free.
NewFd == CHOOSE n \in 1 .. Cardinality(open) + 1 : n \notin open /\ 1 .. n - 1 \subseteq open

-----------------------------------------------------------------------------
(* The main thread *)

Bind ==
  /\ main = "bind"
  /\ client_fd' = NewFd /\ open' = open \cup {NewFd}
  /\ main' = "recv" /\ PROXY_EXIT' = FALSE
  /\ UNCHANGED <<current, next, addr, recv_buffer, info, worker, answer, heap, fd, port, network, replies>>

\* bind fails after socket() has succeeded: nobody closes the socket, and nobody knows
\* its number, for what is returned is -1.
BindError ==
  /\ main = "bind"
  /\ open' = open \cup {NewFd}
  /\ main' = "returned"
  /\ UNCHANGED <<current, next, addr, recv_buffer, info, worker, answer, heap, fd, client_fd, port, network,
                 replies, PROXY_EXIT>>

\* recvfrom: client c's datagram and address overwrite the previous ones.
Receive(c) ==
  /\ main = "recv" /\ next + 1 \in Requests
  /\ next' = next + 1
  /\ addr' = c /\ recv_buffer' = next'
  /\ main' = "copy"
  /\ UNCHANGED <<current, info, worker, answer, heap, sockets, replies, PROXY_EXIT>>

Copy ==
  /\ main = "copy"
  /\ current' = next /\ main' = "create"
  /\ heap' = heap \cup {<<"buffer", next>>, <<"info", next>>}
  /\ info' = [info EXCEPT ![next] = [client |-> addr, bytes |-> recv_buffer]]
  /\ UNCHANGED <<next, addr, recv_buffer, worker, answer, sockets, replies, PROXY_EXIT>>

\* pthread_create; its result is not looked at.
Create ==
  /\ main = "create"
  /\ \/ Cardinality(Threads) < ThreadLimit /\ worker' = [worker EXCEPT ![current] = "start"]
     \/ /\ Cardinality(Threads) >= ThreadLimit \/ "no_thread" \in Faults
        /\ worker' = [worker EXCEPT ![current] = "refused"]
  /\ main' = "check"
  /\ UNCHANGED <<current, next, addr, recv_buffer, info, answer, heap, sockets, replies,
                 PROXY_EXIT>>

Check ==
  /\ main = "check"
  /\ main' = IF PROXY_EXIT THEN "drain" ELSE "recv"
  /\ UNCHANGED <<current, next, addr, recv_buffer, info, worker, answer, heap, sockets, replies,
                 PROXY_EXIT>>

\* sleep(TIMEOUT), which a signal cuts short, and close().
Close ==
  /\ main = "drain"
  /\ open' = open \ {client_fd} /\ main' = "returned"
  /\ UNCHANGED <<current, next, addr, recv_buffer, info, worker, answer, heap, fd, client_fd, port, network,
                 replies, PROXY_EXIT>>

\* kill_sub_process of another thread.
SetProxyExit ==
  /\ PROXY_EXIT' = TRUE
  /\ UNCHANGED <<mainThread, info, worker, answer, heap, sockets, replies>>

-----------------------------------------------------------------------------
(* A worker: ipv4_proxy or ipv6_proxy *)

Step(r, from, to) == worker[r] = from /\ worker' = [worker EXCEPT ![r] = to]

\* malloc of the receive buffer, and the socket.
Start(r) ==
  /\ Step(r, "start", "ask")
  /\ heap' = heap \cup {<<"answer", r>>}
  /\ fd' = [fd EXCEPT ![r] = NewFd] /\ open' = open \cup {NewFd}
  /\ UNCHANGED <<mainThread, info, answer, client_fd, port, network, replies, PROXY_EXIT>>

\* Mutant: the workers share a socket.
AskShared(r) ==
  /\ Step(r, "ask", "wait")
  /\ \E p \in Ports :
       /\ port' = [port EXCEPT ![r] = p]
       /\ outgoing' = outgoing \cup {[from |-> p, about |-> info[r].bytes]}
  /\ UNCHANGED <<mainThread, info, answer, heap, fd, open, client_fd, incoming, replies, PROXY_EXIT>>

\* The first sendto binds the socket to a free ephemeral port.
Ask(r) ==
  /\ Step(r, "ask", "wait")
  /\ \E p \in Ports \ {port[q] : q \in Requests} :
       /\ port' = [port EXCEPT ![r] = p]
       /\ outgoing' = outgoing \cup {[from |-> p, about |-> info[r].bytes]}
  /\ UNCHANGED <<mainThread, info, answer, heap, fd, open, client_fd, incoming, replies, PROXY_EXIT>>

\* sendto fails; the worker waits for an answer all the same.
AskError(r) ==
  /\ "send_error" \in Faults \/ Ports \subseteq {port[q] : q \in Requests}
  /\ Step(r, "ask", "wait")
  /\ UNCHANGED <<mainThread, info, answer, heap, sockets, replies, PROXY_EXIT>>

\* select reports the socket readable, or was interrupted, and recvfrom returns
\* the datagram: whoever it is for, it was sent to this port.
Answered(r) ==
  /\ worker[r] \in {"wait", "blocked"}
  /\ \E a \in incoming :
       /\ a.to = port[r]
       /\ answer' = [answer EXCEPT ![r] = a.about]
       /\ incoming' \in {incoming, incoming \ {a}}   \* the network may duplicate it
  /\ worker' = [worker EXCEPT ![r] = "answered"]
  /\ UNCHANGED <<mainThread, info, fd, open, client_fd, port, heap, outgoing, replies, PROXY_EXIT>>

\* recvfrom does not look at the sender: a stranger's datagram is an answer as well.
StrangerAnswers(r) ==
  /\ "stranger" \in Faults /\ port[r] # None
  /\ worker[r] \in {"wait", "blocked"}
  /\ worker' = [worker EXCEPT ![r] = "answered"]
  /\ answer' = [answer EXCEPT ![r] = Stranger]
  /\ UNCHANGED <<mainThread, info, heap, sockets, replies, PROXY_EXIT>>

\* Mutant: the request is sent again after a timeout.
TimeoutRetries(r) ==
  /\ Step(r, "wait", "ask")
  /\ port' = [port EXCEPT ![r] = None]
  /\ UNCHANGED <<mainThread, info, answer, heap, fd, open, client_fd, network, replies, PROXY_EXIT>>

Timeout(r) ==
  /\ Step(r, "wait", "timeout")
  /\ UNCHANGED <<mainThread, info, answer, heap, sockets, replies, PROXY_EXIT>>

\* A handler ran on this thread: select returns -1 and leaves rfds as it was, so
\* FD_ISSET is true and recvfrom blocks without a timeout.
Interrupted(r) ==
  /\ "eintr" \in Faults
  /\ Step(r, "wait", "blocked")
  /\ UNCHANGED <<mainThread, info, answer, heap, sockets, replies, PROXY_EXIT>>

\* Mutant: the result of recvfrom is not looked at.
CloseSocketUnchecked(r) ==
  /\ worker[r] \in {"answered", "timeout"}
  /\ port' = [port EXCEPT ![r] = None] /\ open' = open \ {fd[r]} /\ fd' = [fd EXCEPT ![r] = None]
  /\ worker' = [worker EXCEPT ![r] = "closed"]
  /\ UNCHANGED <<mainThread, info, answer, heap, client_fd, network, replies, PROXY_EXIT>>

\* Mutant: the timeout returns before close().
CloseSocketIfAnswered(r) ==
  /\ worker[r] \in {"answered", "timeout"}
  /\ port' = [port EXCEPT ![r] = None] /\ fd' = [fd EXCEPT ![r] = None]
  /\ open' = IF worker[r] = "answered" THEN open \ {fd[r]} ELSE open
  /\ worker' = [worker EXCEPT ![r] = IF @ = "answered" THEN "closed" ELSE "free"]
  /\ UNCHANGED <<mainThread, info, answer, heap, client_fd, network, replies, PROXY_EXIT>>

CloseSocket(r) ==
  /\ worker[r] \in {"answered", "timeout"}
  /\ port' = [port EXCEPT ![r] = None] /\ open' = open \ {fd[r]} /\ fd' = [fd EXCEPT ![r] = None]
  /\ worker' = [worker EXCEPT ![r] = IF @ = "answered" THEN "closed" ELSE "free"]
  /\ UNCHANGED <<mainThread, info, answer, heap, client_fd, network, replies, PROXY_EXIT>>

\* sendto the client, through whatever the number of the listening descriptor stands
\* for: once closed, it is the number of the next socket a worker opens.
SendTo(r, client) ==
  replies' = IF client_fd \in open
             THEN replies \cup {[by |-> r, to |-> client, about |-> answer[r]]} ELSE replies

\* Mutant: the address is read from the main thread's variable.
ReplyToLast(r) ==
  /\ Step(r, "closed", "free")
  /\ SendTo(r, addr)
  /\ UNCHANGED <<mainThread, info, answer, heap, sockets, PROXY_EXIT>>

Reply(r) ==
  /\ Step(r, "closed", "free")
  /\ SendTo(r, info[r].client)
  /\ UNCHANGED <<mainThread, info, answer, heap, sockets, PROXY_EXIT>>

ReplyError(r) ==
  /\ "reply_error" \in Faults
  /\ Step(r, "closed", "free")
  /\ UNCHANGED <<mainThread, info, answer, heap, sockets, replies, PROXY_EXIT>>

Free(r) ==
  /\ Step(r, "free", "ended")
  /\ heap' = heap \ {<<"answer", r>>, <<"buffer", r>>, <<"info", r>>}
  /\ UNCHANGED <<mainThread, info, answer, sockets, replies, PROXY_EXIT>>

-----------------------------------------------------------------------------
(* The server and the network: answers may be lost, late or duplicated *)

ServerAnswers ==
  /\ \E q \in outgoing : incoming' = incoming \cup {[to |-> q.from, about |-> q.about]}
  /\ UNCHANGED <<mainThread, info, worker, fd, open, client_fd, port, answer, heap, outgoing, replies, PROXY_EXIT>>

\* An answer that finds no socket at its port, or no room, is dropped.
Lose ==
  /\ \E a \in incoming : incoming' = incoming \ {a}
  /\ UNCHANGED <<mainThread, info, worker, fd, open, client_fd, port, answer, heap, outgoing, replies, PROXY_EXIT>>

MainStep == Bind \/ BindError \/ Copy \/ Create \/ Check \/ Close

WorkerStep(r) ==
  \/ Start(r) \/ Ask(r) \/ AskError(r) \/ Answered(r) \/ Timeout(r) \/ CloseSocket(r)
  \/ Reply(r) \/ ReplyError(r) \/ Free(r)

Environment ==
  \/ \E c \in Clients : Receive(c)
  \/ \E r \in Requests : Interrupted(r) \/ StrangerAnswers(r)
  \/ ServerAnswers \/ Lose \/ SetProxyExit

Next == MainStep \/ (\E r \in Requests : WorkerStep(r)) \/ Environment

\* Both the main thread and every worker are scheduled, and time passes.
Fairness == WF_vars(MainStep) /\ \A r \in Requests : WF_vars(WorkerStep(r))

Spec == Init /\ [][Next]_vars /\ Fairness

=============================================================================
