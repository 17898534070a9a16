--------------------------- MODULE PortPickerProofs ---------------------------
(***************************************************************************)
(* What get_available_port promises, for every range of ports, every width *)
(* of a port, every limit on descriptors and every kernel.                 *)
(***************************************************************************)
EXTENDS PortPickerProperties, FiniteSetTheorems, TLAPS

Returned == {"found", "listening", "serving"}

\* Where get_available_port may be once check k has succeeded.
Later == [tcp4 |-> {"udp4", "tcp6", "udp6"} \cup Returned,
          udp4 |-> {"tcp6", "udp6"} \cup Returned,
          tcp6 |-> {"udp6"} \cup Returned,
          udp6 |-> Returned]

\* The socket that is open is the one of the current check, on the current port,
\* and no other process holds a slot that the socket stands for.
SocketIsTheChecks ==
  own # {} =>
    /\ at \in Stage /\ own = {<<at, port>>}
    /\ Family(at) \in families /\ Clash(at, port) \cap taken = {}

\* What a check has found free is free but for what was taken since the draw, and
\* the kernel supports the family of the check.
PassedChecksHold ==
  \A k \in Stage : at \in Later[k] =>
    /\ Clash(k, port) \cap taken \subseteq since
    /\ Family(k) \in families

\* No user has failed before the first one has tried.
UsersFailToRacesOnly ==
  /\ at \in {"listening", "serving"} => failed \subseteq since
  /\ at \notin {"listening", "serving"} => failed = {}

IInv == TypeOK /\ SocketIsTheChecks /\ PassedChecksHold /\ UsersFailToRacesOnly

-----------------------------------------------------------------------------
(* The port that is drawn *)

\* A remainder lies below a positive divisor, and a number below it is its own.
LEMMA Remainder ==
  ASSUME NEW x \in Nat, NEW n \in Nat \ {0}
  PROVE  /\ x % n \in 0 .. n - 1
         /\ x < n => x % n = x
<1>1. x % n \in 0 .. n - 1
  OBVIOUS
<1>2. ASSUME x < n PROVE x % n = x
  BY <1>2
<1>3. QED BY <1>1, <1>2

\* get_random_num draws a port of the range whatever rand() returns: the unsigned
\* short does not wrap.
LEMMA DrawnInRange ==
  ASSUME NEW r \in 0 .. Width - 1
  PROVE  (RangeStart + (r % (RangeEnd - RangeStart + 1))) % Width \in PortRange
<1> DEFINE n == RangeEnd - RangeStart + 1
           d == RangeStart + (r % n)
<1>1. n \in Nat \ {0} /\ r \in Nat /\ Width \in Nat \ {0}
  BY RangeAssumption
<1>2. r % n \in 0 .. n - 1
  BY <1>1, Remainder
<1>3. d \in RangeStart .. RangeEnd /\ d \in Nat /\ d < Width
  <2> HIDE DEF d
  <2>1. d = RangeStart + (r % n)
    BY DEF d
  <2> DEFINE m == r % n
  <2>2. m \in 0 .. n - 1 /\ d = RangeStart + m
    BY <1>2, <2>1
  <2> HIDE DEF m
  <2>3. QED BY <2>2, RangeAssumption
<1>4. d % Width = d
  <2> HIDE DEF d
  <2>1. QED BY <1>1, <1>3, Remainder
<1>5. QED BY <1>3, <1>4 DEF PortRange

-----------------------------------------------------------------------------
(* Types *)

LEMMA Sizes == Cardinality({}) = 0 /\ \A x : Cardinality({x}) = 1
BY FS_EmptySet, FS_Singleton

\* A check that succeeds goes on to the next one, or to the caller.
LEMMA AfterACheck ==
  ASSUME NEW k \in Stage
  PROVE  After[k] \in (Stage \cup {"found"}) \ {"draw", "listening", "serving"}
BY DEF Stage, After

\* What a bind clashes with lies on its port, its own slot included.
LEMMA ClashOnPort ==
  ASSUME NEW k \in Stage, NEW p
  PROVE  /\ Clash(k, p) \subseteq Stage \X {p}
         /\ p \in PortRange => Clash(k, p) \subseteq Slots
BY DEF Clash, Slots

LEMMA TypeInit == Init => TypeOK
BY Sizes, FdAssumption DEF Init, TypeOK, Family, Families, Stage

LEMMA TypeStep == TypeOK /\ [Next]_vars => TypeOK'
<1> SUFFICES ASSUME TypeOK, [Next]_vars PROVE TypeOK'
  OBVIOUS
<1> USE DEF TypeOK
<1>1. ASSUME NEW r \in 0 .. Width - 1, Draw(r) PROVE TypeOK'
  <2>1. port' \in PortRange
    BY <1>1, DrawnInRange DEF Draw
  <2>2. QED BY <1>1, <2>1 DEF Draw, Stage, host
<1>2. ASSUME NEW k \in Stage, Probe(k) PROVE TypeOK'
  <2>1. own' = {<<k, port>>} /\ port \in PortRange /\ at = k /\ Cardinality(own) = 0
    BY <1>2, Sizes DEF Probe, Stage
  <2>2. own' \subseteq Slots /\ Cardinality(own') = 1
    BY <2>1, Sizes DEF Slots
  <2>3. ~plenty => leaked + 1 <= FdLimit
    BY <1>2, <2>1, FdAssumption DEF Probe, CanBind, CanOpen
  <2>4. QED BY <1>2, <2>1, <2>2, <2>3 DEF Probe, host
<1>3. ASSUME NEW k \in Stage, Reject(k) PROVE TypeOK'
  <2>1. own' = own /\ Cardinality(own) = 0 /\ leaked' \in 0 .. FdLimit
    BY <1>3, Sizes, FdAssumption DEF Reject
  <2>2. ~plenty => leaked' <= FdLimit
    BY <2>1, FdAssumption
  <2>3. Cardinality(own') = 0
    BY <2>1
  <2>4. QED BY <1>3, <2>1, <2>2, <2>3 DEF Reject, host
<1>4. ASSUME NEW k \in Stage, Pass(k) PROVE TypeOK'
  <2>1. own' = {} /\ Cardinality(own') = 0 /\ port \in PortRange
    BY <1>4, Sizes DEF Pass, Stage
  <2>2. at' \in Stage \cup {"found"}
    BY <1>4, AfterACheck DEF Pass
  <2>3. QED BY <1>4, <2>1, <2>2, FdAssumption DEF Pass, host
<1>5. ASSUME NEW from \in {"found", "listening"}, NEW k \in Stage,
             NEW to \in {"listening", "serving"}, Use(from, k, to) PROVE TypeOK'
  <2>1. failed' \subseteq Slots
    BY <1>5 DEF Use
  <2>2. port \in PortRange
    BY <1>5 DEF Use
  <2>3. QED BY <1>5, <2>1, <2>2 DEF Use, host
<1>6. ASSUME NEW s \in Slots, Take(s) PROVE TypeOK'
  <2>1. taken' \subseteq Slots /\ since' \subseteq Slots
    BY <1>6 DEF Take
  <2>2. QED BY <1>6, <2>1 DEF Take, host
<1>7. ASSUME NEW s \in Slots, Release(s) PROVE TypeOK'
  <2>1. taken' \subseteq Slots
    BY <1>7 DEF Release
  <2>2. QED BY <1>7, <2>1 DEF Release, host
<1>8. CASE UNCHANGED vars
  BY <1>8 DEF vars, host
<1>9. QED
  BY <1>1, <1>2, <1>3, <1>4, <1>5, <1>6, <1>7, <1>8
     DEF Next, Check, Users, Others, Stage

-----------------------------------------------------------------------------
(* The socket of the current check *)

LEMMA SocketStep == IInv /\ [Next]_vars => SocketIsTheChecks'
<1> SUFFICES ASSUME IInv, [Next]_vars PROVE SocketIsTheChecks'
  OBVIOUS
<1>0. TypeOK /\ SocketIsTheChecks
  BY DEF IInv
<1>1. ASSUME NEW r \in 0 .. Width - 1, Draw(r) PROVE SocketIsTheChecks'
  <2>1. own = {}
    BY <1>0, <1>1 DEF Draw, SocketIsTheChecks, Stage
  <2>2. QED BY <1>1, <2>1 DEF Draw, SocketIsTheChecks
<1>2. ASSUME NEW k \in Stage, Probe(k) PROVE SocketIsTheChecks'
  <2>1. Clash(k, port) \cap taken = {} /\ Family(k) \in families
    BY <1>2 DEF Probe, CanBind, Held
  <2>2. Clash(k, port)' = Clash(k, port)
    BY <1>2 DEF Probe, Clash
  <2>3. QED BY <1>2, <2>1, <2>2 DEF Probe, SocketIsTheChecks, host
<1>3. ASSUME NEW k \in Stage, Reject(k) \/ Pass(k) PROVE SocketIsTheChecks'
  BY <1>3 DEF Reject, Pass, SocketIsTheChecks
<1>4. ASSUME NEW from \in {"found", "listening"}, NEW k \in Stage,
             NEW to \in {"listening", "serving"}, Use(from, k, to) PROVE SocketIsTheChecks'
  BY <1>0, <1>4 DEF Use, SocketIsTheChecks, Stage
<1>5. ASSUME NEW s \in Slots, Take(s), own' # {} PROVE SocketIsTheChecks'
  <2>1. /\ at' = at /\ port' = port /\ own' = own /\ families' = families
        /\ s \notin Held /\ taken' = taken \cup {s}
    BY <1>5 DEF Take, host
  <2>2. at \in Stage /\ own = {<<at, port>>} /\ Clash(at, port) \cap taken = {}
    BY <1>0, <1>5, <2>1 DEF SocketIsTheChecks
  <2>3. Clash(at, port) \subseteq Held
    BY <2>2 DEF Held
  <2>4. Clash(at, port) \cap taken' = {}
    BY <2>1, <2>2, <2>3
  <2>5. Clash(at', port') = Clash(at, port)
    BY <2>1
  <2>6. QED BY <1>0, <2>1, <2>2, <2>4, <2>5 DEF SocketIsTheChecks
<1>6. ASSUME NEW s \in Slots, Release(s) PROVE SocketIsTheChecks'
  BY <1>0, <1>6 DEF Release, SocketIsTheChecks, host
<1>7. CASE UNCHANGED vars
  BY <1>0, <1>7 DEF vars, host, SocketIsTheChecks
<1>8. CASE own' = {}
  BY <1>8 DEF SocketIsTheChecks
<1>9. QED
  BY <1>1, <1>2, <1>3, <1>4, <1>5, <1>6, <1>7, <1>8
     DEF Next, Check, Users, Others, Stage

-----------------------------------------------------------------------------
(* The checks that have passed *)

\* Only a check that succeeds leads past itself: the checks behind After[k] are k
\* and those behind k.
LEMMA OneCheckAtATime ==
  ASSUME NEW k \in Stage, NEW j \in Stage, After[k] \in Later[j]
  PROVE  j = k \/ k \in Later[j]
BY DEF Stage, After, Later, Returned

LEMMA PassedStep == IInv /\ [Next]_vars => PassedChecksHold'
<1> SUFFICES ASSUME IInv, [Next]_vars, NEW j \in Stage, at' \in Later[j]
             PROVE  /\ Clash(j, port') \cap taken' \subseteq since'
                    /\ Family(j) \in families'
  BY DEF PassedChecksHold, Clash
<1>0. TypeOK /\ SocketIsTheChecks /\ PassedChecksHold
  BY DEF IInv
<1> DEFINE Goal == /\ Clash(j, port') \cap taken' \subseteq since'
                   /\ Family(j) \in families'
<1>1. ASSUME NEW r \in 0 .. Width - 1, Draw(r) PROVE FALSE
  BY <1>1 DEF Draw, Stage, Later, Returned
<1>2. ASSUME NEW k \in Stage, Probe(k) PROVE Goal
  BY <1>0, <1>2 DEF Probe, PassedChecksHold, host
<1>3. ASSUME NEW k \in Stage, Reject(k) PROVE FALSE
  BY <1>3 DEF Reject, Stage, Later, Returned
<1>4. ASSUME NEW k \in Stage, Pass(k) PROVE Goal
  <2>1. /\ at = k /\ own # {} /\ at' = After[k] /\ port' = port
        /\ families' = families /\ taken' = taken /\ since' = since
    BY <1>4 DEF Pass, host
  <2>2. CASE j = k
    BY <1>0, <2>1, <2>2 DEF SocketIsTheChecks
  <2>3. CASE at \in Later[j]
    BY <1>0, <2>1, <2>3 DEF PassedChecksHold
  <2>4. QED BY <2>1, <2>2, <2>3, OneCheckAtATime
<1>5. ASSUME NEW from \in {"found", "listening"}, NEW k \in Stage,
             NEW to \in {"listening", "serving"}, Use(from, k, to) PROVE Goal
  <2>1. at \in Later[j]
    BY <1>5 DEF Use, Stage, Later, Returned
  <2>2. QED BY <1>0, <1>5, <2>1 DEF Use, PassedChecksHold, host
<1>6. ASSUME NEW s \in Slots, Take(s) PROVE Goal
  <2>1. /\ at' = at /\ port' = port /\ families' = families /\ taken' = taken \cup {s}
        /\ since' = since \cup ({s} \cap (Stage \X {port}))
    BY <1>6 DEF Take, host
  <2>2. Clash(j, port) \cap taken \subseteq since /\ Family(j) \in families
    BY <1>0, <2>1 DEF PassedChecksHold
  <2>3. Clash(j, port) \subseteq Stage \X {port}
    BY ClashOnPort
  <2>4. QED BY <2>1, <2>2, <2>3
<1>7. ASSUME NEW s \in Slots, Release(s) PROVE Goal
  BY <1>0, <1>7 DEF Release, PassedChecksHold, host
<1>8. CASE UNCHANGED vars
  BY <1>0, <1>8 DEF vars, host, PassedChecksHold
<1>9. QED
  BY <1>1, <1>2, <1>3, <1>4, <1>5, <1>6, <1>7, <1>8
     DEF Next, Check, Users, Others, Stage

-----------------------------------------------------------------------------
(* The users of the port *)

LEMMA UsersStep == IInv /\ [Next]_vars => UsersFailToRacesOnly'
<1> SUFFICES ASSUME IInv, [Next]_vars PROVE UsersFailToRacesOnly'
  OBVIOUS
<1>0. TypeOK /\ PassedChecksHold /\ UsersFailToRacesOnly
  BY DEF IInv
<1>1. ASSUME NEW r \in 0 .. Width - 1, Draw(r) PROVE UsersFailToRacesOnly'
  BY <1>0, <1>1 DEF Draw, UsersFailToRacesOnly
<1>2. ASSUME NEW k \in Stage, Probe(k) PROVE UsersFailToRacesOnly'
  BY <1>0, <1>2 DEF Probe, UsersFailToRacesOnly
<1>3. ASSUME NEW k \in Stage, Reject(k) PROVE UsersFailToRacesOnly'
  BY <1>0, <1>3 DEF Reject, UsersFailToRacesOnly, Stage
<1>4. ASSUME NEW k \in Stage, Pass(k) PROVE UsersFailToRacesOnly'
  <2>1. at \notin {"listening", "serving"} /\ at' \notin {"listening", "serving"}
    BY <1>4, AfterACheck DEF Pass, Stage
  <2>2. QED BY <1>0, <1>4, <2>1 DEF Pass, UsersFailToRacesOnly
<1>5. ASSUME NEW from \in {"found", "listening"}, NEW k \in {"tcp4", "udp4"},
             NEW to \in {"listening", "serving"}, Use(from, k, to) PROVE UsersFailToRacesOnly'
  <2>1. Clash(k, port) \cap taken \subseteq since
    BY <1>0, <1>5 DEF Use, PassedChecksHold, Later, Returned, Stage
  <2>2. failed \subseteq since
    BY <1>0, <1>5 DEF Use, UsersFailToRacesOnly
  <2>3. QED BY <1>5, <2>1, <2>2 DEF Use, UsersFailToRacesOnly
<1>6. ASSUME NEW s \in Slots, Take(s) PROVE UsersFailToRacesOnly'
  BY <1>0, <1>6 DEF Take, UsersFailToRacesOnly
<1>7. ASSUME NEW s \in Slots, Release(s) PROVE UsersFailToRacesOnly'
  BY <1>0, <1>7 DEF Release, UsersFailToRacesOnly
<1>8. CASE UNCHANGED vars
  BY <1>0, <1>8 DEF vars, UsersFailToRacesOnly
<1>9. QED
  BY <1>1, <1>2, <1>3, <1>4, <1>5, <1>6, <1>7, <1>8
     DEF Next, Check, Users, Others

-----------------------------------------------------------------------------
(* Theorems *)

LEMMA PickerInductive == Spec => []IInv
<1>1. Init => IInv
  BY TypeInit DEF Init, IInv, SocketIsTheChecks, PassedChecksHold, UsersFailToRacesOnly,
                  Stage, Later, Returned
<1>2. IInv /\ [Next]_vars => IInv'
  BY TypeStep, SocketStep, PassedStep, UsersStep DEF IInv
<1>3. QED BY <1>1, <1>2, PTL DEF Spec

\* For every range of ports that fits the width and every value of rand(), the port
\* get_available_port tries lies in the range, it has one socket open at most, and
\* the sockets it leaves open stay within the limit (network.c lines 48 to 120).
THEOREM PickerTypeCorrect == Spec => []TypeOK
BY PickerInductive, PTL DEF IInv

\* A user of the port cannot bind it only if another process has taken it since it
\* was drawn, for TCP and for UDP, and a port is only returned on a host with both
\* address families (network.c lines 55 to 110).
THEOREM PickerOnlyRaces == Spec => []OnlyARaceCanSpoilThePort
<1>1. IInv => OnlyARaceCanSpoilThePort
  <2> SUFFICES ASSUME IInv PROVE OnlyARaceCanSpoilThePort
    OBVIOUS
  <2>1. at \in {"listening", "serving"} => failed \subseteq since
    BY DEF IInv, UsersFailToRacesOnly
  <2>2. ASSUME at \in Returned PROVE families = Families
    <3>1. Family("tcp4") \in families /\ Family("tcp6") \in families
      BY <2>2 DEF IInv, PassedChecksHold, Stage, Later
    <3>2. families \subseteq Families /\ Families = {"v4", "v6"}
      BY DEF IInv, TypeOK, Families, Family, Stage
    <3>3. QED BY <3>1, <3>2 DEF Family
  <2>3. QED BY <2>1, <2>2 DEF OnlyARaceCanSpoilThePort, Returned
<1>2. QED BY <1>1, PickerInductive, PTL

=============================================================================
