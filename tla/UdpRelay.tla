------------------------------- MODULE UdpRelay -------------------------------
(***************************************************************************)
(* What the UDP proxy promises, without threads, sockets or buffers: a     *)
(* datagram is forwarded after it was received, and a client is sent at    *)
(* most one datagram in return for each of its own, which is the answer to *)
(* a datagram that was forwarded, or came from a stranger.                 *)
(***************************************************************************)
CONSTANTS Requests, Clients, Stranger, None

VARIABLES
  origin,     \* origin[r]: the client datagram r came from
  forwarded,  \* the datagrams the server has been sent
  returned    \* what was sent back: [by, to, about], about a request or Stranger

rvars == <<origin, forwarded, returned>>

Init ==
  /\ origin = [r \in Requests |-> None]
  /\ forwarded = {} /\ returned = {}

Take(r, c) ==
  /\ origin[r] = None
  /\ origin' = [origin EXCEPT ![r] = c]
  /\ UNCHANGED <<forwarded, returned>>

Forward(r) ==
  /\ origin[r] # None
  /\ forwarded' = forwarded \cup {r}
  /\ UNCHANGED <<origin, returned>>

Return(r, q) ==
  /\ r \notin {x.by : x \in returned}
  /\ origin[r] # None /\ q \in forwarded \cup {Stranger}
  /\ returned' = returned \cup {[by |-> r, to |-> origin[r], about |-> q]}
  /\ UNCHANGED <<origin, forwarded>>

Next ==
  \/ \E r \in Requests, c \in Clients : Take(r, c)
  \/ \E r \in Requests : Forward(r)
  \/ \E r \in Requests, q \in Requests \cup {Stranger} : Return(r, q)

Spec == Init /\ [][Next]_rvars

=============================================================================
