------------------------- MODULE SupervisorProperties -------------------------
(***************************************************************************)
(* What process.c should guarantee, stated over the model of Supervisor.   *)
(***************************************************************************)
EXTENDS Supervisor

\* Every frame, label, flag and child is in the range the code gives it.
TypeOK ==
  /\ service \in [plugin_file : BOOLEAN, is_udp_proxy : BOOLEAN]
  /\ proc \in {"alive", "exit0", "exit1", "killed"}
  /\ pc \in [Threads -> [Frame -> BodyLabel \cup ReapLabel \cup KillLabel]]
  /\ code \in [Threads -> [Frame -> {0, 1}]]
  /\ stack \in [Threads -> Seq(Signal)]
  /\ pending \subseteq Signal
  /\ exiting \in BOOLEAN /\ exited \in BOOLEAN
  /\ PROXY_EXIT \in BOOLEAN /\ plugin \in BOOLEAN
  /\ pid \in [Child -> {"zero", "real", "minus_one"}]
  /\ child \in [Child -> {"none", "zombie", "reaped"} \cup Live]
  /\ doomed \subseteq Child /\ crashed \subseteq Child
  /\ struck \subseteq {"child", "stale_pid", "everyone"}

\* Every child that can still run is one whose pid the parent has stored.
Recorded == \A c \in Child : Alive(c) => pid[c] = "real"

-----------------------------------------------------------------------------
(* Safety *)

\* Once the teardown has begun (exiting) no child is started: a child forked
\* then would miss the kill.  process_exec tests exiting only before the plugin.
NoForkDuringTeardown ==
  [][\A c \in Child : child[c] = "none" /\ child'[c] # "none" => ~exiting]_vars

\* After exit() a child that was not killed can only be one whose pid the
\* parent had not stored yet (line 149 or 167 interrupted between fork and store).
OrphanHasNoStoredPid ==
  proc \in {"exit0", "exit1"} =>
    \A c \in Child : Alive(c) /\ c \notin doomed => pid[c] = "zero"

\* Exit status 1 is reported only if a child ended on its own or a fork failed;
\* the children's deaths by our own SIGKILL never turn a stop into an error.
ErrorExitHasCause ==
  proc = "exit1" => crashed # {} \/ \E c \in Child : pid[c] = "minus_one"

\* get_sub_exit returns to the code it interrupted only in two situations: it
\* found every recorded child alive, or the teardown was running already.  So
\* while no teardown runs and no handler is active, no child has been reaped.
NobodyReapedQuietly ==
  (proc = "alive" /\ ~exiting /\ \A t \in Threads : stack[t] = <<>>)
    => \A c \in Child : child[c] # "reaped"

Phase == IF proc # "alive" THEN "down" ELSE IF exiting THEN "stopping" ELSE "up"

Life == [c \in Child |->
           IF child[c] = "none" THEN "unborn" ELSE IF Alive(c) THEN "live" ELSE "gone"]

Failed == crashed # {} \/ \E c \in Child : pid[c] = "minus_one"

Promise == INSTANCE Lifecycle
             WITH phase <- Phase, life <- Life, failed <- Failed, outcome <- proc

\* The process model implements the life cycle that Lifecycle promises.
ImplementsLifecycle == Promise!Spec

\* kill_sub_process sends its signal to the two children and to nobody else
\* ("kill child process", process.c:71): neither to every process (pid -1) nor to
\* the number of a child that has been waited for already.
OnlyChildrenStruck == struck \subseteq {"child"}

-----------------------------------------------------------------------------
(* Liveness *)

\* A handler waits on top of the teardown it waits for, on the same thread:
\* for exiting to be reset, or for a child the frame below has yet to kill.
Blocked ==
  \E t \in Threads : \E i \in 1..Len(stack[t]) :
    /\ pc[t][stack[t][i]] \in {"k_wait", "c_reap"}
    /\ \/ pc[t]["body"] \in Teardown
       \/ \E j \in 1..(i - 1) : pc[t][stack[t][j]] \in Teardown

\* A teardown that knows every living child ends the program, and only a handler
\* on top of it can be the reason why it does not.
RecordedTeardownExits == (exiting /\ Recorded) ~> (proc # "alive" \/ Blocked)

\* get_sub_exit started with a dead child whose pid is stored, while every other
\* living child is stored too, ends the program but for the same reason.
SeenDeathExits ==
  \A t \in Threads, c \in Child :
    (/\ pc[t]["CHLD"] = "c_begin" /\ ~exiting
     /\ child[c] = "zombie" /\ pid[c] = "real" /\ Recorded)
    ~> (proc # "alive" \/ Blocked)

\* SIGTERM ends the program ("catch exit signal (15)", process.c:184) once its
\* teardown has begun and knows every living child.
TeardownExits == (exiting /\ Recorded) ~> proc # "alive"

\* A teardown waits, and all there is to wait for is a child that it has not killed,
\* since its pid was not stored.
Stranded ==
  /\ \E t \in Threads : At(t, "k_reap")
  /\ \E c \in Child : Alive(c)
  /\ \A c \in Child : child[c] \notin {"none", "reaped"} =>
       Alive(c) /\ c \notin doomed /\ pid[c] = "zero"

\* The main thread waits for a datagram while a child is dead that nobody will look
\* for: its SIGCHLD has been handled, and no handler is active.
Unnoticed(c) ==
  /\ pc[Main]["body"] = "recv"
  /\ child[c] = "zombie" /\ "CHLD" \notin pending
  /\ \A t \in Threads : stack[t] = <<>>

\* Every death ends the program, also one that get_sub_exit could not attribute (the
\* pid not stored yet), since that sets exited, which the loop of start_bootstrap
\* sees.  It does not in three situations only: a handler on top of the teardown it
\* waits for, a teardown that waits for a child it does not know of, and a death that
\* nobody attributed while the UDP proxy keeps the main thread from that loop.  SIGCHLDs
\* without end, from a child that is stopped and continued for ever, may keep the
\* program in its handler.
DeathExits ==
  []<>("CHLD" \in pending)
  \/ \A c \in Child : Dead(c) ~> (proc # "alive" \/ Blocked \/ Stranded \/ Unnoticed(c))

-----------------------------------------------------------------------------
(* What a comment says, and the code does not do *)

\* exited means "all sub process exited" (process.c:25): where it is set, no child runs.
ExitedMeansAllExited == exited => \A c \in Child : ~Alive(c)

=============================================================================
