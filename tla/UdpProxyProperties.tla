-------------------------- MODULE UdpProxyProperties --------------------------
(***************************************************************************)
(* What proxy() and its workers should guarantee.                          *)
(***************************************************************************)
EXTENDS UdpProxy

Datagram == [client : Clients \cup {None}, bytes : Requests \cup {None}]

\* Labels, copies, ports and blocks are in the range the code gives them.
TypeOK ==
  /\ main \in {"bind", "recv", "copy", "create", "check", "drain", "returned"}
  /\ current \in Requests \cup {None} /\ next \in Requests \cup {None}
  /\ addr \in Clients \cup {None} /\ recv_buffer \in Requests \cup {None}
  /\ info \in [Requests -> Datagram]
  /\ worker \in [Requests -> {"none", "refused", "ended"} \cup Working]
  /\ fd \in [Requests -> Nat] /\ open \subseteq Nat \ {None} /\ client_fd \in Nat
  /\ port \in [Requests -> Ports \cup {None}]
  /\ answer \in [Requests -> Requests \cup {None, Stranger}]
  /\ heap \subseteq {"info", "buffer", "answer"} \X Requests
  /\ outgoing \subseteq [from : Ports, about : Requests]
  /\ incoming \subseteq [to : Ports, about : Requests]
  /\ replies \subseteq [by : Requests, to : Clients, about : Requests \cup {Stranger}]
  /\ PROXY_EXIT \in BOOLEAN

\* Every block has one owner at a time: the main thread until pthread_create, the
\* worker until it frees it; what a worker still uses is allocated, and what it
\* has left behind is not.  Only a thread that could not be created leaks.
HeapOwned ==
  \A r \in Requests :
    /\ \A k \in {"info", "buffer"} :
         <<k, r>> \in heap <=> \/ main = "create" /\ r = current
                              \/ worker[r] \in Working \cup {"refused"}
    /\ <<"answer", r>> \in heap <=> worker[r] \in Working \ {"start"}

\* proxy() has returned without a descriptor: its bind has failed.
BindFailed == main = "returned" /\ client_fd = None

\* The descriptors that somebody has are the listening one and those of the workers
\* that have not closed theirs, all open and no two with one number; one descriptor is
\* open that nobody has, and nobody will close, exactly when bind has failed.
DescriptorsOwned ==
  LET holders == {r \in Requests : fd[r] # None}
      listeners == IF main \in {"bind", "returned"} THEN {} ELSE {client_fd}
      owned == {fd[r] : r \in holders} \cup listeners
  IN /\ \A r \in Requests : r \in holders <=> worker[r] \in {"ask", "wait", "blocked", "answered", "timeout"}
     /\ owned \subseteq open
     /\ Cardinality(owned) = Cardinality(holders) + Cardinality(listeners)
     /\ Cardinality(open \ owned) = IF BindFailed THEN 1 ELSE 0
     /\ \A n \in open : n <= 1 + Cardinality(Threads)

\* What the main thread hands to a worker, and what the worker takes, has an owner to
\* give it back on every path, an answer, a timeout or a failed send; what has none
\* is a thread's that could not be created, or the socket of a failed bind.
ResourcesOwned == HeapOwned /\ DescriptorsOwned

\* A client gets the answer to another datagram only if that other answer came
\* after its own worker had closed its socket, so that the port was free again.  (It
\* may get a stranger's datagram at any time: the sender is not looked at.)
StrayAnswersAreLate ==
  \A x \in replies : x.about \notin {x.by, Stranger} => worker[x.about] \in {"closed", "free", "ended"}

Origin ==
  [r \in Requests |-> IF main = "copy" /\ r = next THEN addr ELSE info[r].client]

Forwarded == {d.about : d \in outgoing}

Promise == INSTANCE UdpRelay WITH origin <- Origin, forwarded <- Forwarded, returned <- replies

\* The proxy implements the relay that UdpRelay promises: the answer goes to the
\* address the worker's datagram came from, once.
ImplementsRelay == Promise!Spec

\* A thread that was created ends, unless an interrupted select has sent it into
\* a recvfrom without a timeout.
WorkersEnd ==
  \A r \in Requests : worker[r] = "start" ~> worker[r] \in {"ended", "blocked"}

\* Every datagram gets a thread of its own ("新线程代理请求", network.c:331 and 343).
EveryRequestServed ==
  \A r \in Requests : (main = "create" /\ current = r) ~> worker[r] \in Working

=============================================================================
