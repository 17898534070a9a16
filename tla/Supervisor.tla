------------------------------ MODULE Supervisor ------------------------------
(***************************************************************************)
(* The bootstrap process of utils/process.c: it forks the shadowsocks      *)
(* program and the SIP003 plugin, optionally turns its main thread into    *)
(* the UDP proxy, and ends when a child dies or a signal asks it to.       *)
(*                                                                         *)
(* The difficulty is that everything which ends the program runs inside    *)
(* signal handlers.  A thread here is its normal code (frame "body") plus  *)
(* a stack of handler frames; only the top frame runs.  signal() of glibc  *)
(* and musl masks a signal while its own handler runs and restarts         *)
(* blocking calls, so each signal occurs at most once in a stack, and a    *)
(* handler may interrupt the body or another handler between any two steps.*)
(* A signal sent to the process goes to any thread that does not mask it.  *)
(***************************************************************************)
EXTENDS Naturals, Sequences

CONSTANTS
  Threads,      \* the threads of the process: Main and the UDP proxy's workers
  Main,         \* the thread that runs start_bootstrap
  UserSignals,  \* which of "INT", "TERM" the environment may send
  Faults        \* what else the environment may do, see FaultKinds

Child   == {"ss", "plugin"}
Signal  == {"INT", "TERM", "CHLD"}
Frame   == Signal \cup {"body"}

FaultKinds == {"fork_error", "exec_error", "child_exit", "job_control",
               "preexec_signal", "sigkill"}

ASSUME ThreadsAssumption == Main \in Threads
ASSUME EnvironmentAssumption ==
  /\ UserSignals \subseteq {"INT", "TERM"}
  /\ Faults \subseteq FaultKinds

VARIABLES
  service,     \* [plugin_file, is_udp_proxy]: the two switches of the sip003 struct
  proc,        \* the process: "alive", or how it ended
  pc,          \* pc[t][f]: where frame f of thread t is, "off" if there is none
  code,        \* code[t][f]: what frame f passes to exit() once it is in kill_sub_process
  stack,       \* stack[t]: the handler frames of t, the running one last
  pending,     \* signals sent to the process and not yet delivered
  exiting,     \* the globals of process.c (and PROXY_EXIT of network.c)
  exited,
  PROXY_EXIT,
  plugin,      \* plugin # NULL
  pid,         \* ss_pid and plugin_pid: "zero", "real" or "minus_one"
  child,       \* the kernel's view of each child
  doomed,      \* children a SIGKILL has been sent to
  crashed,     \* history: children that ended on their own
  struck       \* history: what the calls of kill() have hit

threads  == <<pc, code, stack>>
globals  == <<exiting, exited, PROXY_EXIT, plugin, pid>>
kernel   == <<pending, child, doomed, crashed>>
vars     == <<service, proc, threads, globals, kernel, struck>>

-----------------------------------------------------------------------------
(* Frames *)

Top(t) == IF stack[t] = <<>> THEN "body" ELSE stack[t][Len(stack[t])]

\* Thread t is at label l of the frame it is running.
At(t, l) == proc = "alive" /\ pc[t][Top(t)] = l

Goto(t, l) == pc' = [pc EXCEPT ![t][Top(t)] = l]

\* A step that only moves thread t from label l to label m.
Jump(t, l, m) == At(t, l) /\ Goto(t, m) /\ UNCHANGED <<service, proc, code, stack, globals, kernel, struck>>

\* Mutant: error_exit() uses the exit code of a failed exec.
EnterExitWithTwo(t, c) ==
  /\ Goto(t, "k_wait")
  /\ code' = [code EXCEPT ![t][Top(t)] = 2 * c]

\* normal_exit() and error_exit() are kill_sub_process() followed by exit().
EnterExit(t, c) ==
  /\ Goto(t, "k_wait")
  /\ code' = [code EXCEPT ![t][Top(t)] = c]

BodyLabel == {"off", "relay", "ss_fork", "ss_store", "plugin_set", "nap",
              "check_exiting", "plugin_fork", "plugin_store", "udp", "recv",
              "proxy_check", "drain", "loop", "prepause", "paused"}
ReapLabel == {"c_begin", "c_reap", "c_ss", "c_plugin", "c_exited"}

\* The steps of kill_sub_process after it has claimed the teardown.
Teardown  == {"k_ss", "k_plugin", "k_reap", "k_done"}
KillLabel == {"k_wait", "k_set"} \cup Teardown

Live == {"forked", "guarded", "running"}

Alive(c) == child[c] \in Live

Dead(c) == child[c] \in {"zombie", "reaped"}

Init ==
  /\ service \in [plugin_file : BOOLEAN, is_udp_proxy : BOOLEAN]
  /\ proc = "alive"
  /\ pc = [t \in Threads |-> [f \in Frame |->
             IF t = Main /\ f = "body" THEN "ss_fork" ELSE "off"]]
  /\ code = [t \in Threads |-> [f \in Frame |-> 0]]
  /\ stack = [t \in Threads |-> <<>>]
  /\ pending = {}
  /\ exiting = FALSE /\ exited = FALSE /\ PROXY_EXIT = FALSE
  /\ plugin = FALSE
  /\ pid = [c \in Child |-> "zero"]
  /\ child = [c \in Child |-> "none"]
  /\ doomed = {} /\ crashed = {} /\ struck = {}

-----------------------------------------------------------------------------
(* process_exec: fork and exec of the two children, by the main thread *)

\* fork() creates the child before the parent has stored the pid.
Fork(c, at, store) ==
  /\ At(Main, at)
  /\ child' = [child EXCEPT ![c] = "forked"]
  /\ Goto(Main, store)
  /\ UNCHANGED <<service, proc, code, stack, globals, pending, doomed, crashed, struck>>

\* The pid variable really takes the -1 that fork() returned.
ForkError(c, at) ==
  /\ "fork_error" \in Faults
  /\ At(Main, at)
  /\ pid' = [pid EXCEPT ![c] = "minus_one"]
  /\ EnterExit(Main, 1)
  /\ UNCHANGED <<service, proc, stack, exiting, exited, PROXY_EXIT, plugin, kernel, struck>>

StorePid(c, at, next) ==
  /\ At(Main, at)
  /\ pid' = [pid EXCEPT ![c] = "real"]
  /\ Goto(Main, next)
  /\ UNCHANGED <<service, proc, code, stack, exiting, exited, PROXY_EXIT, plugin, kernel, struck>>

ForkShadowsocks  == Fork("ss", "ss_fork", "ss_store")
ShadowsocksError == ForkError("ss", "ss_fork")
StoreSsPid       == StorePid("ss", "ss_store", "plugin_set")
ForkPlugin       == Fork("plugin", "plugin_fork", "plugin_store")
PluginError      == ForkError("plugin", "plugin_fork")
StorePluginPid   == StorePid("plugin", "plugin_store", "udp")

SetPlugin ==
  /\ At(Main, "plugin_set")
  /\ plugin' = service.plugin_file
  /\ Goto(Main, IF service.plugin_file THEN "nap" ELSE "udp")
  /\ UNCHANGED <<service, proc, code, stack, exiting, exited, PROXY_EXIT, pid, kernel, struck>>

\* usleep(100 ms); a handler that returns only makes it shorter.
Nap == Jump(Main, "nap", "check_exiting")

CheckExiting == Jump(Main, "check_exiting", IF exiting THEN "udp" ELSE "plugin_fork")

-----------------------------------------------------------------------------
(* start_bootstrap after process_exec, and the main thread inside proxy() *)

\* No proxy is wanted, the name does not resolve, or the port is taken.
SkipUdpProxy == Jump(Main, "udp", "loop")

StartUdpProxy ==
  /\ At(Main, "udp")
  /\ service.plugin_file /\ service.is_udp_proxy
  /\ PROXY_EXIT' = FALSE
  /\ Goto(Main, "recv")
  /\ UNCHANGED <<service, proc, code, stack, exiting, exited, plugin, pid, kernel, struck>>

\* A datagram arrives: pthread_create starts a worker, or fails unnoticed.
ProxyReceive ==
  \/ Jump(Main, "recv", "proxy_check")
  \/ \E w \in Threads \ {Main} :
       /\ At(Main, "recv") /\ pc[w]["body"] = "off"
       /\ pc' = [pc EXCEPT ![Main]["body"] = "proxy_check", ![w]["body"] = "relay"]
       /\ UNCHANGED <<service, proc, code, stack, globals, kernel, struck>>

WorkerEnds(t) == Jump(t, "relay", "off")

ProxyCheck == Jump(Main, "proxy_check", IF PROXY_EXIT THEN "drain" ELSE "recv")

\* sleep(TIMEOUT), then the listening socket is closed and proxy() returns.
ProxyDrain == Jump(Main, "drain", "loop")

\* Mutant: the two flags with similar names confused.
LoopTestExiting ==
  /\ At(Main, "loop")
  /\ IF exiting THEN EnterExit(Main, 0)
                ELSE Goto(Main, "prepause") /\ UNCHANGED code
  /\ UNCHANGED <<service, proc, stack, globals, kernel, struck>>

\* while (!exited) pause(); normal_exit();  -- the test and pause() are two steps
LoopTest ==
  /\ At(Main, "loop")
  /\ IF exited THEN EnterExit(Main, 0)
               ELSE Goto(Main, "prepause") /\ UNCHANGED code
  /\ UNCHANGED <<service, proc, stack, globals, kernel, struck>>

Pause == Jump(Main, "prepause", "paused")

-----------------------------------------------------------------------------
(* kill_sub_process and exit *)

\* Mutant: no wait for a teardown that is running.
KillWaitNever(t) == Jump(t, "k_wait", "k_set")

\* while (exiting) sleep(1): the frame stays here for as long as exiting holds.
KillWait(t) == ~exiting /\ Jump(t, "k_wait", "k_set")

\* Mutant: only the proxy is told.
KillSetProxyOnly(t) ==
  /\ At(t, "k_set")
  /\ PROXY_EXIT' = TRUE
  /\ Goto(t, "k_ss")
  /\ UNCHANGED <<service, proc, code, stack, exiting, exited, plugin, pid, kernel, struck>>

KillSet(t) ==
  /\ At(t, "k_set")
  /\ exiting' = TRUE /\ PROXY_EXIT' = TRUE
  /\ Goto(t, "k_ss")
  /\ UNCHANGED <<service, proc, code, stack, exited, plugin, pid, kernel, struck>>

\* kill(pid[c], SIGKILL); kill(-1, ..) reaches every process but the caller.
Strike(c) ==
  \/ pid[c] = "zero" /\ UNCHANGED <<struck, doomed>>
  \/ /\ pid[c] = "minus_one"
     /\ struck' = struck \cup {"everyone"}
     /\ doomed' = doomed \cup {d \in Child : Alive(d)}
  \/ /\ pid[c] = "real" /\ child[c] = "reaped"
     /\ struck' = struck \cup {"stale_pid"} /\ UNCHANGED doomed
  \/ /\ pid[c] = "real" /\ child[c] # "reaped"
     /\ struck' = struck \cup {"child"}
     /\ doomed' = doomed \cup ({c} \cap {d \in Child : Alive(d)})

\* Mutant: the guard of the plugin's kill copied to the one of shadowsocks.
KillShadowsocksIfPlugin(t) ==
  /\ At(t, "k_ss")
  /\ IF plugin THEN Strike("ss") ELSE UNCHANGED <<struck, doomed>>
  /\ Goto(t, "k_plugin")
  /\ UNCHANGED <<service, proc, code, stack, globals, pending, child, crashed>>

KillShadowsocks(t) ==
  /\ At(t, "k_ss")
  /\ Strike("ss")
  /\ Goto(t, "k_plugin")
  /\ UNCHANGED <<service, proc, code, stack, globals, pending, child, crashed>>

\* Mutant: the plugin is forgotten.
KillPluginNever(t) == Jump(t, "k_plugin", "k_reap")

KillPlugin(t) ==
  /\ At(t, "k_plugin")
  /\ IF plugin THEN Strike("plugin") ELSE UNCHANGED <<struck, doomed>>
  /\ Goto(t, "k_reap")
  /\ UNCHANGED <<service, proc, code, stack, globals, pending, child, crashed>>

\* waitpid(0, &status, 0): blocks until some child is a zombie, or there is none.
WaitAny ==
  \/ \E c \in Child : child[c] = "zombie" /\ child' = [child EXCEPT ![c] = "reaped"]
  \/ (\A c \in Child : child[c] \in {"none", "reaped"}) /\ UNCHANGED child

KillReap(t) ==
  /\ At(t, "k_reap")
  /\ WaitAny
  /\ Goto(t, "k_done")
  /\ UNCHANGED <<service, proc, code, stack, globals, pending, doomed, crashed, struck>>

\* exit(): the kernel kills the children that have set PR_SET_PDEATHSIG.
ParentGone(how) ==
  /\ proc' = how
  /\ doomed' = doomed \cup {c \in Child : child[c] \in {"guarded", "running"}}

KillDone(t) ==
  /\ At(t, "k_done")
  /\ ParentGone(IF code[t][Top(t)] = 0 THEN "exit0" ELSE "exit1")
  /\ UNCHANGED <<service, threads, globals, pending, child, crashed, struck>>

-----------------------------------------------------------------------------
(* Signal delivery and get_sub_exit *)

\* The handler of s starts on thread t, on top of whatever t was doing.
Deliver(t, s) ==
  /\ proc = "alive"
  /\ s \in pending
  /\ pc[t]["body"] # "off" /\ pc[t][s] = "off"
  /\ pending' = pending \ {s}
  /\ stack' = [stack EXCEPT ![t] = Append(@, s)]
  /\ pc' = [pc EXCEPT ![t][s] = IF s = "CHLD" THEN "c_begin" ELSE "k_wait"]
  /\ code' = [code EXCEPT ![t][s] = 0]
  /\ UNCHANGED <<service, proc, globals, child, doomed, crashed, struck>>

\* Only get_sub_exit ever returns.  A return into pause() ends the pause.
HandlerReturn(t) ==
  LET below == SubSeq(stack[t], 1, Len(stack[t]) - 1)
      wakes == below = <<>> /\ pc[t]["body"] = "paused"
  IN /\ stack' = [stack EXCEPT ![t] = below]
     /\ pc' = [pc EXCEPT ![t] = [f \in Frame |->
                 IF f = Top(t) THEN "off"
                 ELSE IF f = "body" /\ wakes THEN "loop" ELSE pc[t][f]]]

ReapBegin(t) == Jump(t, "c_begin", IF exiting THEN "c_reap" ELSE "c_ss")

ReapReturn(t) ==
  /\ At(t, "c_reap")
  /\ WaitAny
  /\ HandlerReturn(t)
  /\ UNCHANGED <<service, proc, code, globals, pending, doomed, crashed, struck>>

\* waitpid(pid[c], .., WNOHANG); waitpid(-1, ..) takes any child.
Awaited(c) == IF pid[c] = "minus_one" THEN Child ELSE {c}

\* Mutant: the dead child is reported but error_exit() is not called.
ReapChildQuietly(t, c, next) ==
  /\ \/ \E d \in Awaited(c) : child[d] = "zombie" /\ child' = [child EXCEPT ![d] = "reaped"]
     \/ (\A d \in Awaited(c) : child[d] # "zombie") /\ UNCHANGED child
  /\ Goto(t, next) /\ UNCHANGED code

ReapChild(t, c, next) ==
  \/ /\ \E d \in Awaited(c) : child[d] = "zombie" /\ child' = [child EXCEPT ![d] = "reaped"]
     /\ EnterExit(t, 1)
  \/ /\ \A d \in Awaited(c) : child[d] \in {"none", "reaped"}
     /\ EnterExit(t, 1) /\ UNCHANGED child
  \/ /\ \A d \in Awaited(c) : child[d] # "zombie"
     /\ \E d \in Awaited(c) : Alive(d)
     /\ Goto(t, next) /\ UNCHANGED <<code, child>>

\* Mutant: shadowsocks being alive is taken to mean that nothing happened.
ReapShadowsocksOnly(t) ==
  /\ At(t, "c_ss")
  /\ IF pid["ss"] # "zero" THEN ReapChild(t, "ss", "c_exited")
                           ELSE Goto(t, "c_exited") /\ UNCHANGED <<code, child>>
  /\ UNCHANGED <<service, proc, stack, globals, pending, doomed, crashed, struck>>

ReapShadowsocks(t) ==
  /\ At(t, "c_ss")
  /\ IF pid["ss"] # "zero" THEN ReapChild(t, "ss", "c_plugin")
                           ELSE Goto(t, "c_plugin") /\ UNCHANGED <<code, child>>
  /\ UNCHANGED <<service, proc, stack, globals, pending, doomed, crashed, struck>>

ReapPlugin(t) ==
  /\ At(t, "c_plugin")
  /\ IF plugin /\ pid["plugin"] # "zero" THEN ReapChild(t, "plugin", "c_exited")
                                         ELSE Goto(t, "c_exited") /\ UNCHANGED <<code, child>>
  /\ UNCHANGED <<service, proc, stack, globals, pending, doomed, crashed, struck>>

\* Mutant: the two flags with similar names confused.
ReapNothingExiting(t) ==
  /\ At(t, "c_exited")
  /\ exiting' = TRUE
  /\ HandlerReturn(t)
  /\ UNCHANGED <<service, proc, code, exited, PROXY_EXIT, plugin, pid, kernel, struck>>

ReapNothing(t) ==
  /\ At(t, "c_exited")
  /\ exited' = TRUE
  /\ HandlerReturn(t)
  /\ UNCHANGED <<service, proc, code, exiting, PROXY_EXIT, plugin, pid, kernel, struck>>

-----------------------------------------------------------------------------
(* The children and the rest of the environment *)

\* The child calls prctl(PR_SET_PDEATHSIG): too late if the parent is gone.
ChildGuards(c) ==
  /\ child[c] = "forked"
  /\ child' = [child EXCEPT ![c] = "guarded"]
  /\ UNCHANGED <<service, proc, threads, globals, pending, doomed, crashed, struck>>

ChildExecs(c) ==
  /\ child[c] = "guarded"
  /\ child' = [child EXCEPT ![c] = "running"]
  /\ UNCHANGED <<service, proc, threads, globals, pending, doomed, crashed, struck>>

\* A child becomes a zombie and the parent is sent SIGCHLD.
Ends(c) ==
  /\ child' = [child EXCEPT ![c] = "zombie"]
  /\ pending' = IF proc = "alive" THEN pending \cup {"CHLD"} ELSE pending
  /\ UNCHANGED <<service, proc, threads, globals, struck>>

ChildKilled(c) ==
  /\ c \in doomed /\ Alive(c)
  /\ Ends(c)
  /\ UNCHANGED <<doomed, crashed>>

\* execvp fails and the child calls exit(2).
ExecError(c) ==
  /\ "exec_error" \in Faults
  /\ child[c] = "guarded" /\ c \notin doomed
  /\ Ends(c)
  /\ crashed' = crashed \cup {c}
  /\ UNCHANGED doomed

ChildExits(c) ==
  /\ "child_exit" \in Faults
  /\ child[c] = "running" /\ c \notin doomed
  /\ Ends(c)
  /\ crashed' = crashed \cup {c}
  /\ UNCHANGED doomed

\* Before exec the child still has the parent's handlers and its copies of the
\* globals: INT or TERM sent to the group makes the child run normal_exit(),
\* and the plugin's child knows ss_pid.
PreExecSignal(c) ==
  /\ "preexec_signal" \in Faults
  /\ child[c] \in {"forked", "guarded"} /\ c \notin doomed
  /\ Ends(c)
  /\ crashed' = crashed \cup {c}
  /\ doomed' = IF c = "plugin" /\ Alive("ss") THEN doomed \cup {"ss"} ELSE doomed

\* SIGCHLD is also sent when a child is stopped or continued.
JobControl(c) ==
  /\ "job_control" \in Faults
  /\ proc = "alive" /\ child[c] = "running"
  /\ pending' = pending \cup {"CHLD"}
  /\ UNCHANGED <<service, proc, threads, globals, child, doomed, crashed, struck>>

UserSignal(s) ==
  /\ proc = "alive"
  /\ pending' = pending \cup {s}
  /\ UNCHANGED <<service, proc, threads, globals, child, doomed, crashed, struck>>

\* The bootstrap itself is killed (kill -9, out of memory).
SupervisorKilled ==
  /\ "sigkill" \in Faults
  /\ proc = "alive"
  /\ ParentGone("killed")
  /\ UNCHANGED <<service, threads, globals, pending, child, crashed, struck>>

\* Nothing is left to do once the process is gone and the children have settled.
Stopped ==
  /\ proc # "alive"
  /\ \A c \in Child : child[c] \in {"none", "running", "zombie", "reaped"}
  /\ UNCHANGED vars

-----------------------------------------------------------------------------

ThreadStep(t) ==
  \/ WorkerEnds(t)
  \/ KillWait(t) \/ KillSet(t) \/ KillShadowsocks(t) \/ KillPlugin(t)
  \/ KillReap(t) \/ KillDone(t)
  \/ ReapBegin(t) \/ ReapReturn(t) \/ ReapShadowsocks(t) \/ ReapPlugin(t)
  \/ ReapNothing(t)

MainStep ==
  \/ ForkShadowsocks \/ ShadowsocksError \/ StoreSsPid
  \/ SetPlugin \/ Nap \/ CheckExiting
  \/ ForkPlugin \/ PluginError \/ StorePluginPid
  \/ SkipUdpProxy \/ StartUdpProxy \/ ProxyCheck \/ ProxyDrain
  \/ LoopTest \/ Pause

ChildStep(c) == ChildGuards(c) \/ ChildExecs(c) \/ ChildKilled(c)

Environment ==
  \/ ProxyReceive
  \/ \E c \in Child : ExecError(c) \/ ChildExits(c) \/ PreExecSignal(c) \/ JobControl(c)
  \/ \E s \in UserSignals : UserSignal(s)
  \/ SupervisorKilled

Next ==
  \/ MainStep
  \/ \E t \in Threads : ThreadStep(t) \/ \E s \in Signal : Deliver(t, s)
  \/ \E c \in Child : ChildStep(c)
  \/ Environment
  \/ Stopped

\* The scheduler runs every thread that can run, the kernel delivers pending
\* signals and runs the children; what the environment does is never promised.
Fairness ==
  /\ WF_vars(MainStep)
  /\ \A t \in Threads : WF_vars(ThreadStep(t))
  /\ \A s \in Signal : WF_vars(\E t \in Threads : Deliver(t, s))
  /\ \A c \in Child : WF_vars(ChildStep(c))

Spec == Init /\ [][Next]_vars /\ Fairness

=============================================================================
