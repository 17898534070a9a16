------------------------- MODULE PortPickerProperties -------------------------
(***************************************************************************)
(* What get_available_port() promises its users.                           *)
(***************************************************************************)
EXTENDS PortPicker

\* Every port that is tried lies in the range (an unsigned short does not wrap to
\* a port outside it), one socket at most is bound, and sockets fit the limit.
TypeOK ==
  /\ at \in Stage \cup {"draw", "found", "listening", "serving"}
  /\ port \in PortRange \cup {None} /\ (at # "draw" => port \in PortRange)
  /\ own \subseteq Slots /\ Cardinality(own) <= 1
  /\ leaked \in 0 .. FdLimit /\ plenty \in BOOLEAN /\ families \subseteq Families
  /\ ~plenty => leaked + Cardinality(own) <= FdLimit
  /\ taken \subseteq Slots /\ since \subseteq Slots /\ failed \subseteq Slots

\* The port that was returned can be bound by its users, for TCP and for UDP,
\* unless another process has taken it after get_available_port drew it: neither
\* a holder from before nor the checks' own sockets stand in the way.  None is
\* returned on a host without both address families, whatever is free there.
OnlyARaceCanSpoilThePort ==
  /\ at \in {"listening", "serving"} => failed \subseteq since
  /\ at \in {"found", "listening", "serving"} => families = Families

\* A port that has every slot of its own.
Free(p) == \A k \in Stage : <<k, p>> \notin taken

\* If from some time on a port of the range stays free, the loop ends ("wait until
\* a available port in range", network.c:114), as long as both families are there
\* and the sockets that rejected ports leave open never use the descriptors up.
PortFound ==
  (plenty /\ families = Families /\ \E p \in PortRange : <>[]Free(p)) => <>(at = "found")

=============================================================================
