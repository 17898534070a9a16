------------------------------ MODULE PortPicker ------------------------------
(***************************************************************************)
(* get_available_port() of utils/network.c: random ports are drawn until   *)
(* one can be bound four times in a row, and the port is handed to the     *)
(* programs that bind it later.  Other processes bind and release ports at *)
(* any time, between two checks and between the checks and the use.        *)
(***************************************************************************)
EXTENDS Naturals, FiniteSets

CONSTANTS
  Width,       \* a port is an unsigned short: 2^16 values in the code
  RangeStart,  \* RANDOM_PORT_START
  RangeEnd,    \* RANDOM_PORT_END
  Kernels,     \* the sets of address families a kernel may support
  FdLimit      \* the descriptors the process may have open for sockets

ASSUME RangeAssumption ==
  /\ Width \in Nat /\ RangeStart \in Nat /\ RangeEnd \in Nat
  /\ 0 < RangeStart /\ RangeStart <= RangeEnd /\ RangeEnd < Width
ASSUME FdAssumption == FdLimit \in Nat /\ Kernels \subseteq SUBSET {"v4", "v6"}

PortRange == RangeStart .. RangeEnd
None  == 0

\* What can be bound on a port, in the order check_port_available tries it.
Stage == {"tcp4", "udp4", "tcp6", "udp6"}
Slots == Stage \X PortRange

VARIABLES
  at,        \* where get_available_port is, or what became of its answer
  port,      \* the port being tried
  own,       \* the slot the open socket of the current check is bound to
  families,  \* the address families the kernel supports
  plenty,    \* the limit on descriptors is too high to matter
  leaked,    \* sockets that were left open, counted up to FdLimit
  taken,     \* slots other processes hold
  since,     \* history: slots of the port others have taken since it was drawn
  failed     \* slots that the users of the port could not bind

host == <<families, plenty>>

vars == <<at, port, own, host, leaked, taken, since, failed>>

Family(k) == IF k \in {"tcp4", "udp4"} THEN "v4" ELSE "v6"
Protocol(k) == IF k \in {"tcp4", "tcp6"} THEN "tcp" ELSE "udp"
Families == {Family(k) : k \in Stage}
After == [tcp4 |-> "udp4", udp4 |-> "tcp6", tcp6 |-> "udp6", udp6 |-> "found"]

\* Slots a bind to <<k, p>> clashes with: an IPv6 socket on the unspecified
\* address stands for IPv4 as well.
Clash(k, p) == {j \in Stage : Protocol(j) = Protocol(k) /\ (j = k \/ Family(k) = "v6")} \X {p}

Held == taken \cup UNION {Clash(s[1], s[2]) : s \in own}

\* socket() and bind() both succeed.
CanOpen == plenty \/ leaked + Cardinality(own) < FdLimit
CanBind(k, p) == CanOpen /\ Family(k) \in families /\ Clash(k, p) \cap Held = {}

Init ==
  /\ at = "draw" /\ port = None
  /\ own = {} /\ leaked = 0
  /\ families \in Kernels /\ plenty \in BOOLEAN
  /\ taken \in SUBSET Slots
  /\ since = {} /\ failed = {}

\* Mutant: one value too many for rand().
DrawOneMore(r) ==
  /\ at = "draw"
  /\ port' = (RangeStart + (r % (RangeEnd - RangeStart + 2))) % Width
  /\ since' = {} /\ at' = "tcp4"
  /\ UNCHANGED <<own, host, leaked, taken, failed>>

\* Mutant: the port is drawn once, before the loop.
DrawOnce(r) ==
  /\ at = "draw"
  /\ port' = IF port = None THEN RangeStart + (r % (RangeEnd - RangeStart + 1)) ELSE port
  /\ since' = {} /\ at' = "tcp4"
  /\ UNCHANGED <<own, host, leaked, taken, failed>>

\* get_random_num with rand() = r.
Draw(r) ==
  /\ at = "draw"
  /\ port' = (RangeStart + (r % (RangeEnd - RangeStart + 1))) % Width
  /\ since' = {} /\ at' = "tcp4"
  /\ UNCHANGED <<own, host, leaked, taken, failed>>

Probe(k) ==
  /\ at = k /\ own = {}
  /\ CanBind(k, port)
  /\ own' = {<<k, port>>}
  /\ UNCHANGED <<at, port, host, leaked, taken, since, failed>>

\* return FALSE: a socket that was opened stays open, unbound.
Reject(k) ==
  /\ at = k /\ own = {}
  /\ ~CanBind(k, port)
  /\ leaked' = IF CanOpen /\ Family(k) \in families /\ leaked < FdLimit THEN leaked + 1 ELSE leaked
  /\ at' = "draw"
  /\ UNCHANGED <<port, own, host, taken, since, failed>>

\* Mutant: the UDP checks are skipped.
PassTcpOnly(k) ==
  /\ at = k /\ own # {}
  /\ own' = {} /\ at' = After[After[k]]
  /\ UNCHANGED <<port, host, leaked, taken, since, failed>>

\* close(): on to the next check, or return TRUE.
Pass(k) ==
  /\ at = k /\ own # {}
  /\ own' = {} /\ at' = After[k]
  /\ UNCHANGED <<port, host, leaked, taken, since, failed>>

\* The plugin (or shadowsocks, in server mode) binds the port for TCP, then the
\* UDP proxy (or shadowsocks) for UDP, both at 127.0.0.1.
Use(from, k, to) ==
  /\ at = from /\ at' = to
  /\ failed' = failed \cup (Clash(k, port) \cap taken)
  /\ UNCHANGED <<port, own, host, leaked, taken, since>>

\* Other processes.
Take(s) ==
  /\ s \notin Held
  /\ taken' = taken \cup {s} /\ since' = since \cup ({s} \cap (Stage \X {port}))
  /\ UNCHANGED <<at, port, own, host, leaked, failed>>

Release(s) ==
  /\ s \in taken
  /\ taken' = taken \ {s}
  /\ UNCHANGED <<at, port, own, host, leaked, since, failed>>

Check == \E k \in Stage : Probe(k) \/ Reject(k) \/ Pass(k)

Users == Use("found", "tcp4", "listening") \/ Use("listening", "udp4", "serving")

Others == \E s \in Slots : Take(s) \/ Release(s)

Next == (\E r \in 0 .. Width - 1 : Draw(r)) \/ Check \/ Users \/ Others

\* The program is scheduled, and rand() keeps no port from being drawn.
Fairness ==
  /\ WF_vars(Check) /\ WF_vars(Users)
  /\ \A p \in PortRange : SF_vars(\E r \in 0 .. Width - 1 : Draw(r) /\ port' = p)

Spec == Init /\ [][Next]_vars /\ Fairness

=============================================================================
