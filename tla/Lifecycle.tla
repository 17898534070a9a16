------------------------------- MODULE Lifecycle -------------------------------
(***************************************************************************)
(* What the bootstrap promises about its two children, without threads,    *)
(* signals or process ids: they are started in order and only while the    *)
(* service is up, a teardown is final, the bootstrap kills a child only in *)
(* a teardown, and it reports an error only after a failure.               *)
(***************************************************************************)
CONSTANT Child

VARIABLES
  phase,    \* "up", "stopping" or "down"
  life,     \* life[c]: "unborn", "live" or "gone"
  failed,   \* a child ended on its own, or could not be started
  outcome   \* how the bootstrap ended, "alive" while it has not

avars == <<phase, life, failed, outcome>>

Init ==
  /\ phase = "up"
  /\ life = [c \in Child |-> "unborn"]
  /\ failed = FALSE
  /\ outcome = "alive"

Start(c) ==
  /\ phase = "up" /\ life[c] = "unborn"
  /\ c = "plugin" => life["ss"] # "unborn"
  /\ life' = [life EXCEPT ![c] = "live"]
  /\ UNCHANGED <<phase, failed, outcome>>

CannotStart(c) ==
  /\ phase = "up" /\ life[c] = "unborn"
  /\ failed' = TRUE
  /\ UNCHANGED <<phase, life, outcome>>

Fails(c) ==
  /\ life[c] = "live"
  /\ life' = [life EXCEPT ![c] = "gone"]
  /\ failed' = TRUE
  /\ UNCHANGED <<phase, outcome>>

\* A child is killed by the teardown, or after the other one has failed.
Killed(c) ==
  /\ life[c] = "live"
  /\ phase # "up" \/ failed
  /\ life' = [life EXCEPT ![c] = "gone"]
  /\ UNCHANGED <<phase, failed, outcome>>

Stop ==
  /\ phase = "up"
  /\ phase' = "stopping"
  /\ UNCHANGED <<life, failed, outcome>>

Exit(status) ==
  /\ phase = "stopping"
  /\ status = "exit1" => failed
  /\ phase' = "down" /\ outcome' = status
  /\ UNCHANGED <<life, failed>>

KilledFromOutside ==
  /\ phase # "down"
  /\ phase' = "down" /\ outcome' = "killed"
  /\ UNCHANGED <<life, failed>>

Next ==
  \/ \E c \in Child : Start(c) \/ CannotStart(c) \/ Fails(c) \/ Killed(c)
  \/ Stop
  \/ \E status \in {"exit0", "exit1"} : Exit(status)
  \/ KilledFromOutside

Spec == Init /\ [][Next]_avars

=============================================================================
