---------------------------- MODULE SupervisorProofs ----------------------------
(***************************************************************************)
(* Proofs about process.c, for any number of threads and any choice of     *)
(* signals and faults.  The layers build on each other: types, then which  *)
(* frames can exist together, then who owns the teardown, then causes.     *)
(***************************************************************************)
EXTENDS SupervisorProperties, TLAPS

Labels == BodyLabel \cup ReapLabel \cup KillLabel

\* The running frame is the body or the handler on top of the stack.
LEMMA TopIsFrame ==
  ASSUME TypeOK, NEW t \in Threads
  PROVE  /\ Top(t) \in Frame
         /\ Top(t) = "body" => stack[t] = <<>>
         /\ stack[t] # <<>> => Len(stack[t]) \in 1..Len(stack[t]) /\ Top(t) = stack[t][Len(stack[t])]
BY DEF TypeOK, Top, Frame, Signal

\* Moving a frame, with or without an exit code, keeps the types.
LEMMA GotoTyped ==
  ASSUME TypeOK, NEW t \in Threads, NEW l \in Labels, Goto(t, l)
  PROVE  /\ pc' \in [Threads -> [Frame -> Labels]]
         /\ \A u \in Threads, f \in Frame :
              pc'[u][f] = IF u = t /\ f = Top(t) THEN l ELSE pc[u][f]
BY TopIsFrame DEF TypeOK, Goto, Labels

LEMMA EnterExitTyped ==
  ASSUME TypeOK, NEW t \in Threads, NEW c \in {0, 1}, EnterExit(t, c)
  PROVE  /\ pc' \in [Threads -> [Frame -> Labels]]
         /\ code' \in [Threads -> [Frame -> {0, 1}]]
         /\ Goto(t, "k_wait")
         /\ \A u \in Threads, f \in Frame :
              code'[u][f] = IF u = t /\ f = Top(t) THEN c ELSE code[u][f]
<1>1. Goto(t, "k_wait") BY DEF EnterExit
<1>2. "k_wait" \in Labels BY DEF Labels, KillLabel
<1> QED BY <1>1, <1>2, GotoTyped, TopIsFrame DEF TypeOK, EnterExit

LEMMA JumpTyped ==
  ASSUME TypeOK, NEW t \in Threads, NEW l, NEW m \in Labels, Jump(t, l, m)
  PROVE  TypeOK'
<1>1. Goto(t, m) /\ UNCHANGED <<service, proc, code, stack, globals, kernel, struck>> BY DEF Jump
<1>2. pc' \in [Threads -> [Frame -> Labels]] BY <1>1, GotoTyped
<1> QED BY <1>1, <1>2 DEF TypeOK, globals, kernel, Labels, Alive

LEMMA HandlerReturnTyped ==
  ASSUME TypeOK, NEW t \in Threads, HandlerReturn(t)
  PROVE  /\ pc' \in [Threads -> [Frame -> Labels]]
         /\ stack' \in [Threads -> Seq(Signal)]
         /\ \A u \in Threads, f \in Frame :
              pc'[u][f] = IF u = t /\ f = Top(t) THEN "off"
                          ELSE IF /\ u = t /\ f = "body" /\ pc[t]["body"] = "paused"
                                  /\ stack'[t] = <<>>
                               THEN "loop" ELSE pc[u][f]
<1>1. SubSeq(stack[t], 1, Len(stack[t]) - 1) \in Seq(Signal) BY TopIsFrame DEF TypeOK
<1> QED BY <1>1, TopIsFrame DEF TypeOK, HandlerReturn, Labels, BodyLabel

-----------------------------------------------------------------------------
(* Types *)

LEMMA TypeInit == Init => TypeOK
<1> SUFFICES ASSUME Init PROVE TypeOK OBVIOUS
<1>1. {"ss_fork", "off"} \subseteq BodyLabel BY DEF BodyLabel
<1>2. <<>> \in Seq(Signal) OBVIOUS
<1> QED BY <1>1, <1>2 DEF Init, TypeOK

\* The steps of the main thread.
LEMMA TypeMainStep == TypeOK /\ MainStep => TypeOK'
<1> SUFFICES ASSUME TypeOK, MainStep PROVE TypeOK' OBVIOUS
<1> USE ThreadsAssumption
<1>1. ASSUME NEW c \in Child, NEW a, NEW l \in Labels, Fork(c, a, l) PROVE TypeOK'
  BY <1>1, GotoTyped DEF Fork, TypeOK, globals, Live, Labels
<1>2. ASSUME NEW c \in Child, NEW a, ForkError(c, a) PROVE TypeOK'
  BY <1>2, EnterExitTyped DEF ForkError, TypeOK, kernel, Labels, Alive
<1>3. ASSUME NEW c \in Child, NEW a, NEW l \in Labels, StorePid(c, a, l) PROVE TypeOK'
  BY <1>3, GotoTyped DEF StorePid, TypeOK, kernel, Labels, Alive
<1>4. CASE SetPlugin
  <2>1. "nap" \in Labels /\ "udp" \in Labels BY DEF Labels, BodyLabel
  <2>2. service.plugin_file \in BOOLEAN BY DEF TypeOK
  <2> QED BY <1>4, <2>1, <2>2, GotoTyped DEF SetPlugin, TypeOK, kernel, Labels
<1>5. CASE StartUdpProxy
  BY <1>5, GotoTyped DEF StartUdpProxy, TypeOK, kernel, Labels, BodyLabel
<1>6. CASE LoopTest
  <2>1. "prepause" \in Labels BY DEF Labels, BodyLabel
  <2>2. CASE exited
    BY <1>6, <2>2, EnterExitTyped DEF LoopTest, TypeOK, kernel, globals, Labels
  <2>3. CASE ~exited
    BY <1>6, <2>1, <2>3, GotoTyped DEF LoopTest, TypeOK, kernel, globals, Labels
  <2> QED BY <2>2, <2>3
<1>7. CASE Nap \/ CheckExiting \/ SkipUdpProxy \/ ProxyCheck \/ ProxyDrain \/ Pause
  BY <1>7, JumpTyped DEF Nap, CheckExiting, SkipUdpProxy, ProxyCheck, ProxyDrain, Pause,
                         Labels, BodyLabel
<1>8. {"ss", "plugin"} \subseteq Child /\ {"ss_store", "plugin_store", "plugin_set", "udp"} \subseteq Labels
  BY DEF Child, Labels, BodyLabel
<1> QED
  BY <1>1, <1>2, <1>3, <1>4, <1>5, <1>6, <1>7, <1>8
  DEF MainStep, ForkShadowsocks, ShadowsocksError, StoreSsPid, ForkPlugin, PluginError,
      StorePluginPid

\* waitpid changes the states of the children only.
LEMMA WaitTyped == TypeOK /\ WaitAny => child' \in [Child -> {"none", "zombie", "reaped"} \cup Live]
BY DEF TypeOK, WaitAny

LEMMA ReapChildTyped ==
  ASSUME TypeOK, NEW t \in Threads, NEW c \in Child, NEW l \in Labels, ReapChild(t, c, l)
  PROVE  /\ child' \in [Child -> {"none", "zombie", "reaped"} \cup Live]
         /\ \/ EnterExit(t, 1)
            \/ Goto(t, l) /\ UNCHANGED code
BY DEF ReapChild, Awaited, TypeOK

LEMMA StrikeTyped ==
  ASSUME TypeOK, NEW c \in Child, Strike(c)
  PROVE  doomed' \subseteq Child /\ struck' \subseteq {"child", "stale_pid", "everyone"}
BY DEF Strike, TypeOK

\* The steps any thread can make.
LEMMA TypeThreadStep ==
  ASSUME TypeOK, NEW t \in Threads, ThreadStep(t)
  PROVE  TypeOK'
<1> DEFINE Reaping == ReapShadowsocks(t) \/ ReapPlugin(t)
<1>1. CASE WorkerEnds(t) \/ KillWait(t) \/ ReapBegin(t)
  BY <1>1, JumpTyped DEF WorkerEnds, KillWait, ReapBegin, Labels, BodyLabel, ReapLabel, KillLabel
<1>2. CASE KillSet(t)
  BY <1>2, GotoTyped DEF KillSet, TypeOK, kernel, Labels, KillLabel, Teardown
<1>3. CASE KillShadowsocks(t)
  BY <1>3, GotoTyped, StrikeTyped
  DEF KillShadowsocks, TypeOK, globals, Labels, KillLabel, Teardown, Child
<1>4. CASE KillPlugin(t)
  BY <1>4, GotoTyped, StrikeTyped, ZenonT(60)
  DEF KillPlugin, TypeOK, globals, Labels, KillLabel, Teardown, Child
<1>5. CASE KillReap(t)
  BY <1>5, GotoTyped, WaitTyped DEF KillReap, TypeOK, globals, Labels, KillLabel, Teardown
<1>6. CASE KillDone(t)
  BY <1>6 DEF KillDone, ParentGone, TypeOK, globals, threads, Labels
<1>7. CASE ReapReturn(t)
  BY <1>7, HandlerReturnTyped, WaitTyped DEF ReapReturn, TypeOK, globals, Labels
<1>8. CASE ReapNothing(t)
  BY <1>8, HandlerReturnTyped DEF ReapNothing, TypeOK, kernel, Labels
<1>9. CASE Reaping
  <2>1. {"c_plugin", "c_exited"} \subseteq Labels /\ Child = {"ss", "plugin"}
    BY DEF Labels, ReapLabel, Child
  <2>2. /\ \E l \in Labels : EnterExit(t, 1) \/ (Goto(t, l) /\ UNCHANGED code)
        /\ child' \in [Child -> {"none", "zombie", "reaped"} \cup Live]
    BY <1>9, <2>1, ReapChildTyped DEF ReapShadowsocks, ReapPlugin, TypeOK
  <2>3. pc' \in [Threads -> [Frame -> Labels]] /\ code' \in [Threads -> [Frame -> {0, 1}]]
    BY <2>2, GotoTyped, EnterExitTyped DEF TypeOK
  <2> QED BY <1>9, <2>2, <2>3 DEF ReapShadowsocks, ReapPlugin, TypeOK, globals, Labels
<1> QED BY <1>1, <1>2, <1>3, <1>4, <1>5, <1>6, <1>7, <1>8, <1>9 DEF ThreadStep

LEMMA TypeDeliver ==
  ASSUME TypeOK, NEW t \in Threads, NEW s \in Signal, Deliver(t, s)
  PROVE  TypeOK'
<1>1. {"c_begin", "k_wait"} \subseteq Labels /\ s \in Frame BY DEF Labels, ReapLabel, KillLabel, Frame
<1>2. pc' \in [Threads -> [Frame -> Labels]] BY <1>1 DEF Deliver, TypeOK, Labels
<1>3. stack' \in [Threads -> Seq(Signal)]
  <2>1. Append(stack[t], s) \in Seq(Signal) BY DEF TypeOK
  <2> QED BY <2>1 DEF Deliver, TypeOK
<1>4. code' \in [Threads -> [Frame -> {0, 1}]] BY <1>1 DEF Deliver, TypeOK
<1> QED BY <1>2, <1>3, <1>4 DEF Deliver, TypeOK, globals, Labels

\* The children and the environment.
LEMMA TypeOther ==
  ASSUME TypeOK, (\E c \in Child : ChildStep(c)) \/ Environment \/ Stopped
  PROVE  TypeOK'
<1>1. ASSUME NEW c \in Child, Ends(c) PROVE /\ pending' \subseteq Signal
                                            /\ child' \in [Child -> {"none", "zombie", "reaped"} \cup Live]
  BY <1>1 DEF Ends, TypeOK, Signal
<1>2. ASSUME NEW c \in Child, ChildStep(c) PROVE TypeOK'
  <2>1. CASE ChildGuards(c) BY <2>1 DEF ChildGuards, TypeOK, threads, globals, Live
  <2>2. CASE ChildExecs(c) BY <2>2 DEF ChildExecs, TypeOK, threads, globals, Live
  <2>3. CASE ChildKilled(c) BY <2>3, <1>1 DEF ChildKilled, Ends, TypeOK, threads, globals
  <2> QED BY <1>2, <2>1, <2>2, <2>3 DEF ChildStep
<1>3. ASSUME NEW c \in Child, ExecError(c) \/ ChildExits(c) \/ PreExecSignal(c)
      PROVE TypeOK'
  <2>1. CASE ExecError(c) BY <2>1, <1>1 DEF ExecError, Ends, TypeOK, threads, globals
  <2>2. CASE ChildExits(c) BY <2>2, <1>1 DEF ChildExits, Ends, TypeOK, threads, globals
  <2>3. CASE PreExecSignal(c)
    BY <2>3, <1>1, ZenonT(60) DEF PreExecSignal, Ends, TypeOK, threads, globals, Child
  <2> QED BY <1>3, <2>1, <2>2, <2>3
<1>4. ASSUME NEW c \in Child, JobControl(c) PROVE TypeOK'
  BY <1>4 DEF JobControl, TypeOK, threads, globals, Signal
<1>5. ASSUME NEW s \in UserSignals, UserSignal(s) PROVE TypeOK'
  BY <1>5, EnvironmentAssumption DEF UserSignal, TypeOK, threads, globals, Signal
<1>6. CASE SupervisorKilled
  BY <1>6 DEF SupervisorKilled, ParentGone, TypeOK, threads, globals
<1>7. CASE ProxyReceive
  <2>1. CASE Jump(Main, "recv", "proxy_check")
    BY <2>1, JumpTyped, ThreadsAssumption DEF Labels, BodyLabel
  <2>2. ASSUME NEW w \in Threads \ {Main},
               pc' = [pc EXCEPT ![Main]["body"] = "proxy_check", ![w]["body"] = "relay"],
               UNCHANGED <<service, proc, code, stack, globals, kernel, struck>>
        PROVE TypeOK'
    BY <2>2, ThreadsAssumption DEF TypeOK, globals, kernel, Frame, BodyLabel
  <2> QED BY <1>7, <2>1, <2>2 DEF ProxyReceive
<1>8. CASE Stopped BY <1>8 DEF Stopped, TypeOK, vars, threads, globals, kernel
<1> QED BY <1>2, <1>3, <1>4, <1>5, <1>6, <1>7, <1>8 DEF Environment

LEMMA TypeNext == TypeOK /\ [Next]_vars => TypeOK'
<1>1. TypeOK /\ UNCHANGED vars => TypeOK' BY DEF TypeOK, vars, threads, globals, kernel
<1> QED BY <1>1, TypeMainStep, TypeThreadStep, TypeDeliver, TypeOther DEF Next

\* Every frame, label, flag and child stays in the range the code gives it.
THEOREM TypeCorrect == Spec => []TypeOK
BY TypeInit, TypeNext, PTL DEF Spec

-----------------------------------------------------------------------------
(* Frames: which parts of the program can be active together *)

\* The main thread has reached the UDP proxy (or what follows it).
Late == {"recv", "proxy_check", "drain", "loop", "prepause", "paused"} \cup KillLabel

\* Bodies run body code (the main one may be in a teardown), handlers run
\* handler code and are on the stack, and a thread without a body has no handlers.
FramesOK ==
  /\ pc[Main]["body"] \in (BodyLabel \ {"off", "relay"}) \cup KillLabel
  /\ \A t \in Threads \ {Main} :
       /\ pc[t]["body"] \in {"off", "relay"}
       /\ pc[t]["body"] = "relay" => pc[Main]["body"] \in Late
  /\ \A t \in Threads, s \in Signal :
       /\ pc[t][s] \in {"off"} \cup ReapLabel \cup KillLabel
       /\ pc[t][s] # "off" => /\ pc[t]["body"] # "off"
                              /\ \E i \in 1..Len(stack[t]) : stack[t][i] = s

\* exiting is set by the frame that tears down and stays set; until exit() that
\* frame is still there.
OwnerOK ==
  /\ \A t \in Threads, f \in Frame : pc[t][f] \in Teardown \cup {"c_reap"} => exiting
  /\ proc = "alive" /\ exiting => \E t \in Threads, f \in Frame : pc[t][f] \in Teardown

\* The pids, the plugin flag and the children follow the main thread's progress.
StartOK ==
  /\ pc[Main]["body"] = "ss_fork" => child["ss"] = "none"
  /\ pc[Main]["body"] \in {"ss_store", "plugin_set", "nap", "check_exiting", "plugin_fork"}
       => child["ss"] # "none"
  /\ pc[Main]["body"] \in {"ss_fork", "ss_store", "plugin_set", "nap", "check_exiting", "plugin_fork"}
       => child["plugin"] = "none" /\ pid["plugin"] = "zero"
  /\ pc[Main]["body"] = "plugin_store" => child["plugin"] # "none" /\ pid["plugin"] = "zero"
  /\ pc[Main]["body"] \in {"nap", "check_exiting", "plugin_fork", "plugin_store"} => plugin
  /\ ~plugin => child["plugin"] = "none" /\ pid["plugin"] = "zero"
  /\ \A c \in Child : /\ pid[c] = "real" => child[c] # "none"
                      /\ pid[c] = "minus_one" => pc[Main]["body"] \in KillLabel

Cause == crashed # {} \/ \E c \in Child : pid[c] = "minus_one"

\* A child only ends for a reason, and exit status 1 is only chosen for one.
CauseOK ==
  /\ \A c \in Child : Dead(c) => c \in crashed \cup doomed
  /\ proc = "alive" /\ doomed # {} => exiting \/ crashed # {}
  /\ \A t \in Threads, f \in Frame :
       code[t][f] = 1 => /\ pc[t][f] = "k_wait" => exiting \/ Cause
                         /\ pc[t][f] \in Teardown \cup {"k_set"} => Cause
  /\ proc = "exit1" => Cause

\* What the teardown has dealt with so far stays dealt with.
Hit(c) == Alive(c) /\ c \notin doomed => pid[c] = "zero"

HitOK ==
  /\ \A t \in Threads, f \in Frame :
       /\ pc[t][f] \in {"k_plugin", "k_reap", "k_done"} => Hit("ss")
       /\ pc[t][f] \in {"k_reap", "k_done"} => Hit("plugin")
  /\ proc \in {"exit0", "exit1"} => \A c \in Child : Hit(c)

\* A child is reaped by a teardown, or by a handler that goes on to one.
ReapedOK ==
  \A c \in Child : child[c] = "reaped" =>
    exiting \/ \E t \in Threads, s \in Signal : pc[t][s] \in KillLabel

IInv == TypeOK /\ FramesOK /\ OwnerOK /\ StartOK /\ CauseOK /\ HitOK /\ ReapedOK

\* A body label is the label of a body, and then no handler is active.
LEMMA RunningBody ==
  ASSUME TypeOK, FramesOK, NEW t \in Threads, pc[t][Top(t)] \in BodyLabel \ {"off"}
  PROVE  /\ Top(t) = "body" /\ stack[t] = <<>>
         /\ \A s \in Signal : pc[t][s] = "off"
<1>1. Top(t) \notin Signal BY DEF FramesOK, BodyLabel, ReapLabel, KillLabel, Teardown
<1>2. Top(t) = "body" /\ stack[t] = <<>> BY <1>1, TopIsFrame DEF Frame
<1> QED BY <1>2 DEF FramesOK

\* A handler label is the label of a handler on the stack.
LEMMA RunningHandler ==
  ASSUME TypeOK, FramesOK, NEW t \in Threads, pc[t][Top(t)] \in ReapLabel
  PROVE  Top(t) \in Signal /\ stack[t] # <<>>
<1>1. Top(t) # "body" BY ThreadsAssumption DEF FramesOK, BodyLabel, ReapLabel, KillLabel, Teardown
<1> QED BY <1>1, TopIsFrame DEF Frame, Top

LEMMA FramesGoto ==
  ASSUME TypeOK, FramesOK, NEW t \in Threads, NEW l \in Labels, Goto(t, l), UNCHANGED stack,
         \/ l \in KillLabel /\ pc[t][Top(t)] \notin {"off", "relay"}
         \/ l \in ReapLabel /\ pc[t][Top(t)] \in ReapLabel
         \/ /\ pc[t][Top(t)] \in BodyLabel \ {"off", "relay"}
            /\ l \in BodyLabel \ {"off", "relay"}
            /\ pc[t][Top(t)] \in Late => l \in Late
  PROVE  FramesOK'
<1> USE ThreadsAssumption
<1>1. \A u \in Threads, f \in Frame : pc'[u][f] = IF u = t /\ f = Top(t) THEN l ELSE pc[u][f]
  BY GotoTyped
<1>2. Top(t) \in Frame BY TopIsFrame
<1>3. CASE Top(t) = "body"
  <2>1. t = Main BY <1>3, RunningHandler DEF FramesOK, BodyLabel, ReapLabel, KillLabel, Signal
  <2>2. \A u \in Threads, s \in Signal : pc'[u][s] = pc[u][s] BY <1>1, <1>3 DEF Frame, Signal
  <2>3. \A u \in Threads \ {Main} : pc'[u]["body"] = pc[u]["body"] BY <1>1, <2>1 DEF Frame
  <2>4. pc'[Main]["body"] = l BY <1>1, <1>3, <2>1 DEF Frame
  <2>5. l \in (BodyLabel \ {"off", "relay"}) \cup KillLabel
    BY <1>3, RunningHandler DEF Signal
  <2>6. pc[Main]["body"] \in Late => l \in Late
    BY <1>3, <2>1, RunningHandler DEF Signal, Late
  <2>7. \A u \in Threads : pc[u]["body"] # "off" => pc'[u]["body"] # "off"
    BY <2>3, <2>4, <2>5 DEF BodyLabel, KillLabel, Teardown
  <2> QED BY <2>2, <2>3, <2>4, <2>5, <2>6, <2>7 DEF FramesOK
<1>4. CASE Top(t) \in Signal
  <2>1. l \in ReapLabel \cup KillLabel
    BY <1>4, RunningBody DEF Signal
  <2>2. \A u \in Threads : pc'[u]["body"] = pc[u]["body"] BY <1>1, <1>4 DEF Frame, Signal
  <2>3. pc[t][Top(t)] # "off" BY DEF ReapLabel
  <2>4. \A u \in Threads, s \in Signal :
          pc'[u][s] = IF u = t /\ s = Top(t) THEN l ELSE pc[u][s]
    BY <1>1 DEF Frame
  <2>5. \A u \in Threads, s \in Signal : pc'[u][s] # "off" => pc[u][s] # "off"
    BY <2>3, <2>4
  <2>6. \A u \in Threads, s \in Signal : pc'[u][s] \in {"off"} \cup ReapLabel \cup KillLabel
    BY <2>1, <2>4 DEF FramesOK
  <2> QED BY <2>2, <2>5, <2>6 DEF FramesOK
<1> QED BY <1>2, <1>3, <1>4 DEF Frame

LEMMA FramesInit == Init => FramesOK
BY ThreadsAssumption DEF Init, FramesOK, BodyLabel, Frame, Signal

\* The main thread moves its body, forwards or into a teardown, and nobody else.
LEMMA MainMoves ==
  ASSUME MainStep
  PROVE  /\ UNCHANGED <<stack, proc, exiting, doomed, crashed, exited>>
         /\ \E a, l \in Labels :
              /\ pc[Main][Top(Main)] = a /\ a \in BodyLabel \ {"off", "relay"}
              /\ Goto(Main, l)
              /\ \/ l = "k_wait"
                 \/ l \in BodyLabel \ {"off", "relay"} /\ (a \in Late => l \in Late)
<1> USE DEF At, Labels, BodyLabel, KillLabel, Teardown, Late, globals, kernel
<1>1. CASE ForkShadowsocks \/ StoreSsPid \/ ForkPlugin \/ StorePluginPid
  BY <1>1 DEF ForkShadowsocks, StoreSsPid, ForkPlugin, StorePluginPid, Fork, StorePid
<1>2. CASE ShadowsocksError \/ PluginError
  BY <1>2 DEF ShadowsocksError, PluginError, ForkError, EnterExit
<1>3. CASE SetPlugin BY <1>3 DEF SetPlugin
<1>4. CASE StartUdpProxy BY <1>4 DEF StartUdpProxy
<1>5. CASE LoopTest BY <1>5 DEF LoopTest, EnterExit
<1>6. CASE Nap \/ CheckExiting \/ SkipUdpProxy \/ ProxyCheck \/ ProxyDrain \/ Pause
  BY <1>6 DEF Nap, CheckExiting, SkipUdpProxy, ProxyCheck, ProxyDrain, Pause, Jump
<1> QED BY <1>1, <1>2, <1>3, <1>4, <1>5, <1>6 DEF MainStep

LEMMA FramesMainStep == TypeOK /\ FramesOK /\ MainStep => FramesOK'
<1>1. "k_wait" \in KillLabel BY DEF KillLabel
<1> QED BY <1>1, ThreadsAssumption, MainMoves, FramesGoto

\* A handler that returns leaves the frames below it as they are.
LEMMA FramesReturn ==
  ASSUME TypeOK, FramesOK, NEW t \in Threads, pc[t][Top(t)] \in ReapLabel, HandlerReturn(t)
  PROVE  FramesOK'
<1> USE ThreadsAssumption
<1>1. Top(t) \in Signal /\ stack[t] # <<>> BY RunningHandler
<1>2. \A u \in Threads, f \in Frame :
        pc'[u][f] = IF u = t /\ f = Top(t) THEN "off"
                    ELSE IF u = t /\ f = "body" /\ pc[t]["body"] = "paused" /\ stack'[t] = <<>>
                         THEN "loop" ELSE pc[u][f]
  BY HandlerReturnTyped
<1>3. \A u \in Threads : \/ pc'[u]["body"] = pc[u]["body"]
                         \/ u = Main /\ pc[Main]["body"] = "paused" /\ pc'[Main]["body"] = "loop"
  BY <1>1, <1>2 DEF FramesOK, Frame, Signal
<1>4. \A u \in Threads, s \in Signal : pc'[u][s] = IF u = t /\ s = Top(t) THEN "off" ELSE pc[u][s]
  BY <1>2 DEF Frame, Signal
<1>5. ASSUME NEW u \in Threads, NEW s \in Signal, pc'[u][s] # "off"
      PROVE  \E i \in 1..Len(stack'[u]) : stack'[u][i] = s
  <2>1. PICK i \in 1..Len(stack[u]) : stack[u][i] = s BY <1>4, <1>5 DEF FramesOK
  <2>2. CASE u # t
    <3>1. stack'[u] = stack[u] BY <2>2 DEF HandlerReturn, TypeOK
    <3> QED BY <2>1, <3>1
  <2>3. CASE u = t
    <3>1. stack'[t] = SubSeq(stack[t], 1, Len(stack[t]) - 1) BY DEF HandlerReturn, TypeOK
    <3>2. i # Len(stack[t]) BY <2>1, <2>3, <1>4, <1>5, <1>1, TopIsFrame
    <3>3. i \in 1..(Len(stack[t]) - 1) /\ stack[t] \in Seq(Signal)
      BY <2>1, <2>3, <3>2 DEF TypeOK
    <3>4. Len(stack'[t]) = Len(stack[t]) - 1 /\ stack'[t][i] = stack[t][i]
      BY <3>1, <3>3
    <3> QED BY <2>1, <2>3, <3>3, <3>4
  <2> QED BY <2>2, <2>3
<1>6. {"paused", "loop"} \subseteq (BodyLabel \ {"off", "relay"}) \cap Late BY DEF BodyLabel, Late
<1>7. \A u \in Threads, s \in Signal : pc'[u][s] # "off" => pc[u]["body"] # "off"
  BY <1>4 DEF FramesOK
<1>8. \A u \in Threads : pc[u]["body"] # "off" => pc'[u]["body"] # "off"
  BY <1>3
<1> QED BY <1>3, <1>4, <1>5, <1>6, <1>7, <1>8 DEF FramesOK

LEMMA FramesThreadStep ==
  ASSUME TypeOK, FramesOK, NEW t \in Threads, ThreadStep(t)
  PROVE  FramesOK'
<1> USE ThreadsAssumption
<1>1. CASE WorkerEnds(t)
  <2>1. At(t, "relay") /\ Goto(t, "off") /\ UNCHANGED stack BY <1>1 DEF WorkerEnds, Jump
  <2>2. Top(t) = "body" /\ \A s \in Signal : pc[t][s] = "off"
    BY <2>1, RunningBody DEF At, BodyLabel
  <2>3. t # Main BY <2>1, <2>2 DEF At, FramesOK, KillLabel, Teardown
  <2>4. \A u \in Threads, f \in Frame : pc'[u][f] = IF u = t /\ f = "body" THEN "off" ELSE pc[u][f]
    BY <2>1, <2>2, GotoTyped DEF Labels, BodyLabel
  <2> QED BY <2>1, <2>2, <2>3, <2>4 DEF FramesOK, Frame, Signal
<1>2. CASE ReapReturn(t) \/ ReapNothing(t)
  BY <1>2, FramesReturn DEF ReapReturn, ReapNothing, At, ReapLabel
<1>3. CASE KillWait(t) \/ KillSet(t) \/ KillShadowsocks(t) \/ KillPlugin(t) \/ KillReap(t)
  <2>1. \E l \in KillLabel : Goto(t, l) /\ UNCHANGED stack /\ pc[t][Top(t)] \in KillLabel
    BY <1>3 DEF KillWait, KillSet, KillShadowsocks, KillPlugin, KillReap, Jump, At,
                KillLabel, Teardown
  <2> QED BY <2>1, FramesGoto DEF KillLabel, Teardown, Labels
<1>4. CASE ReapBegin(t) \/ ReapShadowsocks(t) \/ ReapPlugin(t)
  <2>1. \E l \in {"k_wait", "c_reap", "c_ss", "c_plugin", "c_exited"} :
           Goto(t, l) /\ UNCHANGED stack /\ pc[t][Top(t)] \in ReapLabel
    BY <1>4 DEF ReapBegin, ReapShadowsocks, ReapPlugin, ReapChild, EnterExit, Jump, At, ReapLabel
  <2> QED BY <2>1, FramesGoto DEF KillLabel, ReapLabel, Labels
<1>5. CASE KillDone(t) BY <1>5 DEF KillDone, threads, FramesOK
<1> QED BY <1>1, <1>2, <1>3, <1>4, <1>5 DEF ThreadStep

LEMMA FramesDeliver ==
  ASSUME TypeOK, FramesOK, NEW t \in Threads, NEW s \in Signal, Deliver(t, s)
  PROVE  FramesOK'
<1> USE ThreadsAssumption
<1>1. \A u \in Threads, f \in Frame :
        pc'[u][f] = IF u = t /\ f = s THEN IF s = "CHLD" THEN "c_begin" ELSE "k_wait" ELSE pc[u][f]
  BY DEF Deliver, TypeOK, Frame
<1>2. \A u \in Threads : pc'[u]["body"] = pc[u]["body"] BY <1>1 DEF Frame, Signal
<1>3. ASSUME NEW u \in Threads, NEW r \in Signal, pc'[u][r] # "off"
      PROVE  \E i \in 1..Len(stack'[u]) : stack'[u][i] = r
  <2>1. CASE u # t BY <2>1, <1>1, <1>3 DEF Deliver, TypeOK, FramesOK, Frame
  <2>2. CASE u = t
    <3>1. stack'[t] = Append(stack[t], s) /\ stack[t] \in Seq(Signal) BY DEF Deliver, TypeOK
    <3>2. CASE r = s
      <4>1. stack'[t][Len(stack'[t])] = s /\ Len(stack'[t]) \in 1..Len(stack'[t]) BY <3>1
      <4> QED BY <2>2, <3>2, <4>1
    <3>3. CASE r # s
      <4>1. PICK i \in 1..Len(stack[t]) : stack[t][i] = r
        BY <1>1, <1>3, <2>2, <3>3 DEF FramesOK, Frame
      <4>2. i \in 1..Len(stack'[t]) /\ stack'[t][i] = r BY <3>1, <4>1
      <4> QED BY <2>2, <4>2
    <3> QED BY <3>2, <3>3
  <2> QED BY <2>1, <2>2
<1>4. \A u \in Threads, r \in Signal : pc'[u][r] # "off" => pc[u]["body"] # "off"
  BY <1>1 DEF Deliver, FramesOK, Frame
<1>5. \A u \in Threads, r \in Signal : pc'[u][r] \in {"off"} \cup ReapLabel \cup KillLabel
  BY <1>1 DEF FramesOK, Frame, ReapLabel, KillLabel
<1> QED BY <1>2, <1>3, <1>4, <1>5, SMTT(30) DEF FramesOK

LEMMA FramesOther ==
  ASSUME TypeOK, FramesOK, (\E c \in Child : ChildStep(c)) \/ Environment \/ UNCHANGED vars
  PROVE  FramesOK'
<1> USE ThreadsAssumption
<1>1. CASE ProxyReceive
  <2>1. CASE Jump(Main, "recv", "proxy_check")
    BY <2>1, FramesGoto DEF Jump, At, Labels, BodyLabel, Late
  <2>2. ASSUME NEW w \in Threads \ {Main}, At(Main, "recv"),
               pc' = [pc EXCEPT ![Main]["body"] = "proxy_check", ![w]["body"] = "relay"],
               UNCHANGED <<service, proc, code, stack, globals, kernel, struck>>
        PROVE FramesOK'
    <3>1. \A u \in Threads, f \in Frame :
            pc'[u][f] = IF f # "body" THEN pc[u][f]
                        ELSE IF u = Main THEN "proxy_check" ELSE IF u = w THEN "relay" ELSE pc[u][f]
      BY <2>2 DEF TypeOK, Frame
    <3>2. "proxy_check" \in (BodyLabel \ {"off", "relay"}) \cap Late BY DEF BodyLabel, Late
    <3>3. \A u \in Threads, s \in Signal : pc'[u][s] = pc[u][s] BY <3>1 DEF Frame, Signal
    <3>4. /\ pc'[Main]["body"] = "proxy_check" /\ pc'[w]["body"] = "relay"
          /\ \A u \in Threads \ {Main, w} : pc'[u]["body"] = pc[u]["body"]
      BY <3>1 DEF Frame
    <3>5. \A u \in Threads : pc[u]["body"] # "off" => pc'[u]["body"] # "off" BY <3>4
    <3>6. UNCHANGED stack BY <2>2
    <3>7. \A u \in Threads \ {Main} :
            pc'[u]["body"] \in {"off", "relay"} /\ pc'[Main]["body"] \in Late
      BY <3>2, <3>4 DEF FramesOK
    <3> QED BY <3>2, <3>3, <3>4, <3>5, <3>6, <3>7 DEF FramesOK
  <2> QED BY <1>1, <2>1, <2>2 DEF ProxyReceive
<1>2. CASE UNCHANGED <<pc, stack>> BY <1>2 DEF FramesOK
<1>3. ASSUME ~ProxyReceive PROVE UNCHANGED <<pc, stack>>
  BY <1>3 DEF ChildStep, ChildGuards, ChildExecs, ChildKilled, Environment, ExecError,
              ChildExits, PreExecSignal, JobControl, UserSignal, SupervisorKilled, Ends,
              threads, vars
<1> QED BY <1>1, <1>2, <1>3

LEMMA FramesNext == TypeOK /\ FramesOK /\ [Next]_vars => FramesOK'
BY FramesMainStep, FramesThreadStep, FramesDeliver, FramesOther DEF Next, Stopped

-----------------------------------------------------------------------------
(* Ownership: the frame that set exiting is there until exit() *)

LEMMA OwnerInit == Init => OwnerOK
<1> SUFFICES ASSUME Init PROVE OwnerOK OBVIOUS
<1>1. ~exiting /\ \A t \in Threads, f \in Frame : pc[t][f] \in {"ss_fork", "off"} BY DEF Init
<1> QED BY <1>1 DEF OwnerOK, Teardown

LEMMA OwnerGoto ==
  ASSUME TypeOK, OwnerOK, NEW t \in Threads, NEW l \in Labels, Goto(t, l),
         UNCHANGED <<exiting, proc>>,
         l \in Teardown \cup {"c_reap"} => exiting,
         pc[t][Top(t)] \in Teardown => l \in Teardown
  PROVE  OwnerOK'
<1>1. \A u \in Threads, f \in Frame : pc'[u][f] = IF u = t /\ f = Top(t) THEN l ELSE pc[u][f]
  BY GotoTyped
<1> QED BY <1>1 DEF OwnerOK

LEMMA OwnerReturn ==
  ASSUME TypeOK, OwnerOK, NEW t \in Threads, pc[t][Top(t)] \in ReapLabel, HandlerReturn(t),
         UNCHANGED <<exiting, proc>>
  PROVE  OwnerOK'
<1>1. \A u \in Threads, f \in Frame :
        \/ pc'[u][f] = pc[u][f]
        \/ pc[u][f] \in ReapLabel /\ pc'[u][f] = "off"
        \/ pc[u][f] = "paused" /\ pc'[u][f] = "loop"
  BY HandlerReturnTyped
<1>2. \A u \in Threads, f \in Frame :
        /\ pc[u][f] \in Teardown => pc'[u][f] = pc[u][f]
        /\ pc'[u][f] \in Teardown \cup {"c_reap"} => pc'[u][f] = pc[u][f]
  BY <1>1 DEF Teardown, ReapLabel
<1> QED BY <1>2 DEF OwnerOK

LEMMA OwnerThreadStep ==
  ASSUME TypeOK, FramesOK, OwnerOK, NEW t \in Threads, ThreadStep(t)
  PROVE  OwnerOK'
<1> USE DEF globals, Labels, BodyLabel, ReapLabel, KillLabel, Teardown
<1>1. CASE WorkerEnds(t) \/ KillWait(t)
  BY <1>1, OwnerGoto DEF WorkerEnds, KillWait, Jump, At
<1>2. CASE KillSet(t)
  <2>1. \A u \in Threads, f \in Frame : pc'[u][f] = IF u = t /\ f = Top(t) THEN "k_ss" ELSE pc[u][f]
    BY <1>2, GotoTyped DEF KillSet
  <2>2. exiting' /\ Top(t) \in Frame BY <1>2, TopIsFrame DEF KillSet
  <2>3. pc'[t][Top(t)] = "k_ss" BY <2>1, <2>2
  <2> QED BY <2>2, <2>3 DEF OwnerOK
<1>3. CASE KillShadowsocks(t) \/ KillPlugin(t) \/ KillReap(t)
  <2>1. exiting BY <1>3, TopIsFrame DEF OwnerOK, KillShadowsocks, KillPlugin, KillReap, At
  <2> QED BY <1>3, <2>1, OwnerGoto DEF KillShadowsocks, KillPlugin, KillReap, At
<1>4. CASE KillDone(t)
  BY <1>4 DEF KillDone, ParentGone, threads, OwnerOK
<1>5. CASE ReapBegin(t) BY <1>5, OwnerGoto DEF ReapBegin, Jump, At
<1>6. CASE ReapShadowsocks(t) \/ ReapPlugin(t)
  BY <1>6, OwnerGoto DEF ReapShadowsocks, ReapPlugin, ReapChild, EnterExit, At
<1>7. CASE ReapReturn(t) \/ ReapNothing(t)
  BY <1>7, OwnerReturn DEF ReapReturn, ReapNothing, At
<1> QED BY <1>1, <1>2, <1>3, <1>4, <1>5, <1>6, <1>7 DEF ThreadStep

LEMMA OwnerDeliver ==
  ASSUME TypeOK, OwnerOK, NEW t \in Threads, NEW s \in Signal, Deliver(t, s)
  PROVE  OwnerOK'
<1>1. \A u \in Threads, f \in Frame :
        \/ pc'[u][f] = pc[u][f]
        \/ pc[u][f] = "off" /\ pc'[u][f] \in {"c_begin", "k_wait"}
  BY DEF Deliver, TypeOK, Frame
<1>2. UNCHANGED <<exiting, proc>> BY DEF Deliver, globals
<1> QED BY <1>1, <1>2 DEF OwnerOK, Teardown

LEMMA OwnerOther ==
  ASSUME TypeOK, FramesOK, OwnerOK,
         (\E c \in Child : ChildStep(c)) \/ Environment \/ UNCHANGED vars
  PROVE  OwnerOK'
<1> USE ThreadsAssumption
<1>1. CASE ProxyReceive
  <2>1. UNCHANGED <<exiting, proc>> BY <1>1 DEF ProxyReceive, Jump, globals
  <2>2. CASE Jump(Main, "recv", "proxy_check")
    BY <2>2, OwnerGoto DEF Jump, At, Labels, BodyLabel, Teardown, globals
  <2>3. CASE ~Jump(Main, "recv", "proxy_check")
    <3>1. PICK w \in Threads \ {Main} :
            /\ pc[Main][Top(Main)] = "recv" /\ pc[w]["body"] = "off"
            /\ pc' = [pc EXCEPT ![Main]["body"] = "proxy_check", ![w]["body"] = "relay"]
      BY <1>1, <2>3 DEF ProxyReceive, At
    <3>2. "recv" = pc[Main]["body"] BY <3>1, RunningBody DEF BodyLabel
    <3>3. \A u \in Threads, f \in Frame :
            \/ pc'[u][f] = pc[u][f]
            \/ pc[u][f] \in {"recv", "off"} /\ pc'[u][f] \in {"proxy_check", "relay"}
      BY <3>1, <3>2 DEF TypeOK, Frame
    <3> QED BY <2>1, <3>3 DEF OwnerOK, Teardown
  <2> QED BY <2>2, <2>3
<1>2. CASE UNCHANGED <<pc, exiting>> /\ (proc' = "alive" => proc = "alive")
  BY <1>2 DEF OwnerOK
<1>3. ASSUME ~ProxyReceive PROVE UNCHANGED <<pc, exiting>> /\ (proc' = "alive" => proc = "alive")
  BY <1>3 DEF ChildStep, ChildGuards, ChildExecs, ChildKilled, Environment, ExecError,
              ChildExits, PreExecSignal, JobControl, UserSignal, SupervisorKilled, Ends,
              ParentGone, threads, globals, vars
<1> QED BY <1>1, <1>2, <1>3

LEMMA OwnerMainStep == TypeOK /\ OwnerOK /\ MainStep => OwnerOK'
<1>1. \A l \in BodyLabel \cup {"k_wait"} : l \notin Teardown \cup {"c_reap"}
  BY DEF BodyLabel, Teardown
<1> QED BY <1>1, ThreadsAssumption, MainMoves, OwnerGoto

LEMMA OwnerNext == TypeOK /\ FramesOK /\ OwnerOK /\ [Next]_vars => OwnerOK'
BY OwnerMainStep, OwnerThreadStep, OwnerDeliver, OwnerOther DEF Next, Stopped

\* While the body of the main thread is running, before the proxy, no frame is
\* in a teardown: such a frame would be on top of it or on a worker.
LEMMA EarlyMeansUp ==
  ASSUME TypeOK, FramesOK, NEW l \in BodyLabel \ Late, At(Main, l), l \notin {"off", "relay"}
  PROVE  \A t \in Threads, f \in Frame : pc[t][f] # "off" => t = Main /\ f = "body"
<1> USE ThreadsAssumption
<1>1. pc[Main]["body"] = l /\ \A s \in Signal : pc[Main][s] = "off" BY RunningBody DEF At
<1>2. \A t \in Threads \ {Main} : pc[t]["body"] = "off" BY <1>1 DEF FramesOK
<1> QED BY <1>1, <1>2 DEF FramesOK, Frame

LEMMA ForkOnlyUp ==
  ASSUME TypeOK, FramesOK, OwnerOK, [Next]_vars, NEW c \in Child, child[c] = "none", child'[c] # "none"
  PROVE  ~exiting
<1>1. At(Main, "ss_fork") \/ At(Main, "plugin_fork")
  <2>1. ForkShadowsocks \/ ForkPlugin
    BY ZenonT(60)
       DEF Next, vars, threads, globals, kernel, MainStep, ShadowsocksError, StoreSsPid, PluginError,
           StorePluginPid, Fork, ForkError, StorePid, SetPlugin, Nap, CheckExiting,
           SkipUdpProxy, StartUdpProxy, ProxyCheck, ProxyDrain, LoopTest, Pause, Jump,
           ThreadStep, WorkerEnds, KillWait, KillSet, KillShadowsocks, KillPlugin, KillReap,
           KillDone, ReapBegin, ReapReturn, ReapShadowsocks, ReapPlugin, ReapNothing, ReapChild,
           WaitAny, Deliver, ChildStep, ChildGuards, ChildExecs, ChildKilled, Ends, Alive, Live,
           Environment, ProxyReceive, ExecError, ChildExits, PreExecSignal, JobControl,
           UserSignal, SupervisorKilled, Stopped, TypeOK
  <2> QED BY <2>1 DEF ForkShadowsocks, ForkPlugin, Fork
<1>2. \A t \in Threads, f \in Frame : pc[t][f] \notin Teardown
  <2>1. PICK l \in {"ss_fork", "plugin_fork"} : At(Main, l) BY <1>1
  <2>2. l \in BodyLabel \ Late /\ l \notin {"off", "relay"} BY DEF BodyLabel, Late, KillLabel, Teardown
  <2>3. pc[Main]["body"] = l BY <2>1, <2>2, RunningBody, ThreadsAssumption DEF At
  <2> QED BY <2>1, <2>2, <2>3, EarlyMeansUp DEF Teardown
<1> QED BY <1>1, <1>2 DEF OwnerOK, At

Shape == TypeOK /\ FramesOK /\ OwnerOK

LEMMA ShapeInvariant == Spec => []Shape
<1>1. Init => Shape BY TypeInit, FramesInit, OwnerInit DEF Shape
<1>2. Shape /\ [Next]_vars => Shape' BY TypeNext, FramesNext, OwnerNext DEF Shape
<1> QED BY <1>1, <1>2, PTL DEF Spec

\* No child is started once a teardown has begun, on whichever thread it runs.
THEOREM NoForkInTeardown == Spec => NoForkDuringTeardown
<1> DEFINE Quiet == \A c \in Child : child[c] = "none" /\ child'[c] # "none" => ~exiting
<1>1. Shape /\ [Next]_vars => [Quiet]_vars BY ForkOnlyUp DEF Shape
<1>2. NoForkDuringTeardown <=> [][Quiet]_vars BY DEF NoForkDuringTeardown
<1> HIDE DEF Quiet
<1> QED BY <1>1, <1>2, ShapeInvariant, PTL DEF Spec

-----------------------------------------------------------------------------
(* Progress of the start: pids, plugin flag and children *)

\* Whatever is not a step of the main thread's own code.
Elsewhere == \/ \E t \in Threads : ThreadStep(t) \/ \E s \in Signal : Deliver(t, s)
             \/ \E c \in Child : ChildStep(c)
             \/ Environment
             \/ UNCHANGED vars

LEMMA NextSplit == [Next]_vars => MainStep \/ Elsewhere
BY DEF Next, Elsewhere, Stopped

LEMMA BodyElsewhere ==
  ASSUME TypeOK, FramesOK, Elsewhere
  PROVE  \/ pc'[Main]["body"] = pc[Main]["body"]
         \/ pc'[Main]["body"] \in KillLabel
         \/ pc[Main]["body"] \in {"paused", "recv"} /\ pc'[Main]["body"] \in {"loop", "proxy_check"}
<1> USE ThreadsAssumption
<1>1. ASSUME NEW t \in Threads, ThreadStep(t)
      PROVE  \/ pc'[Main]["body"] = pc[Main]["body"]
             \/ pc'[Main]["body"] \in KillLabel
             \/ pc[Main]["body"] = "paused" /\ pc'[Main]["body"] = "loop"
  <2>1. CASE WorkerEnds(t)
    <3>1. At(t, "relay") /\ Goto(t, "off") BY <2>1 DEF WorkerEnds, Jump
    <3>2. Top(t) = "body" BY <3>1, RunningBody DEF At, BodyLabel
    <3>3. t # Main BY <3>1, <3>2 DEF At, FramesOK, KillLabel, Teardown
    <3> QED BY <3>1, <3>3, GotoTyped DEF Labels, BodyLabel, Frame
  <2>2. CASE KillWait(t) \/ KillSet(t) \/ KillShadowsocks(t) \/ KillPlugin(t) \/ KillReap(t)
    <3>1. \E l \in KillLabel : Goto(t, l)
      BY <2>2 DEF KillWait, KillSet, KillShadowsocks, KillPlugin, KillReap, Jump, KillLabel, Teardown
    <3> QED BY <3>1, GotoTyped DEF Labels, Frame
  <2>3. CASE KillDone(t) BY <2>3 DEF KillDone, threads
  <2>4. CASE ReapBegin(t) \/ ReapShadowsocks(t) \/ ReapPlugin(t)
    <3>1. \E l \in Labels : Goto(t, l) /\ pc[t][Top(t)] \in ReapLabel
      BY <2>4 DEF ReapBegin, ReapShadowsocks, ReapPlugin, ReapChild, EnterExit, Jump, At,
                  Labels, ReapLabel, KillLabel
    <3> QED BY <3>1, GotoTyped, RunningHandler DEF Frame, Signal
  <2>5. CASE ReapReturn(t) \/ ReapNothing(t)
    <3>1. HandlerReturn(t) /\ pc[t][Top(t)] \in ReapLabel
      BY <2>5 DEF ReapReturn, ReapNothing, At, ReapLabel
    <3> QED BY <3>1, HandlerReturnTyped, RunningHandler DEF Frame, Signal
  <2> QED BY <1>1, <2>1, <2>2, <2>3, <2>4, <2>5 DEF ThreadStep
<1>2. ASSUME NEW t \in Threads, NEW s \in Signal, Deliver(t, s) PROVE pc'[Main]["body"] = pc[Main]["body"]
  BY <1>2 DEF Deliver, TypeOK, Frame, Signal
<1>3. CASE ProxyReceive
  <2>1. pc[Main]["body"] = "recv" /\ Top(Main) = "body"
    BY <1>3, RunningBody DEF ProxyReceive, Jump, At, BodyLabel
  <2> QED BY <1>3, <2>1, GotoTyped DEF ProxyReceive, Jump, Goto, TypeOK, Frame
<1>4. ASSUME ~ProxyReceive, (\E c \in Child : ChildStep(c)) \/ Environment \/ UNCHANGED vars
      PROVE  UNCHANGED pc
  BY <1>4 DEF ChildStep, ChildGuards, ChildExecs, ChildKilled, Environment, ExecError,
              ChildExits, PreExecSignal, JobControl, UserSignal, SupervisorKilled, Ends, threads, vars
<1> QED BY <1>1, <1>2, <1>3, <1>4 DEF Elsewhere

\* What happens elsewhere starts no child and forgets none.
LEMMA ChildElsewhere ==
  ASSUME TypeOK, Elsewhere
  PROVE  /\ UNCHANGED <<plugin, pid>>
         /\ \A c \in Child : child'[c] = "none" <=> child[c] = "none"
<1>1. ASSUME NEW t \in Threads, ThreadStep(t)
      PROVE  /\ UNCHANGED <<plugin, pid>>
             /\ \A c \in Child : \/ child'[c] = child[c]
                                 \/ child[c] = "zombie" /\ child'[c] = "reaped"
  <2> USE DEF globals, kernel
  <2>1. CASE WorkerEnds(t) \/ KillWait(t) \/ KillSet(t) \/ KillShadowsocks(t) \/ KillPlugin(t)
             \/ KillDone(t) \/ ReapBegin(t) \/ ReapNothing(t)
    BY <2>1 DEF WorkerEnds, KillWait, KillSet, KillShadowsocks, KillPlugin, KillDone,
                ReapBegin, ReapNothing, Jump
  <2>2. CASE KillReap(t) \/ ReapReturn(t)
    BY <2>2 DEF KillReap, ReapReturn, WaitAny, TypeOK
  <2>3. CASE ReapShadowsocks(t) \/ ReapPlugin(t)
    BY <2>3 DEF ReapShadowsocks, ReapPlugin, ReapChild, TypeOK
  <2> QED BY <1>1, <2>1, <2>2, <2>3 DEF ThreadStep
<1>2. ASSUME NEW t \in Threads, NEW s \in Signal, Deliver(t, s) PROVE UNCHANGED <<plugin, pid, child>>
  BY <1>2 DEF Deliver, globals
<1>3. ASSUME (\E c \in Child : ChildStep(c)) \/ Environment \/ UNCHANGED vars
      PROVE  /\ UNCHANGED <<plugin, pid>>
             /\ \A c \in Child : \/ child'[c] = child[c]
                                 \/ child[c] \in Live /\ child'[c] \in Live \cup {"zombie"}
  BY <1>3 DEF ChildStep, ChildGuards, ChildExecs, ChildKilled, Environment, ExecError,
              ChildExits, PreExecSignal, JobControl, UserSignal, SupervisorKilled, Ends,
              ProxyReceive, Jump, Alive, Live, globals, kernel, vars, TypeOK
<1> QED BY <1>1, <1>2, <1>3 DEF Elsewhere, Live

LEMMA StartElsewhere == TypeOK /\ FramesOK /\ StartOK /\ Elsewhere => StartOK'
<1> SUFFICES ASSUME TypeOK, FramesOK, StartOK, Elsewhere PROVE StartOK' OBVIOUS
<1>1. /\ pc[Main]["body"] \in KillLabel => pc'[Main]["body"] \in KillLabel
      /\ \A l \in BodyLabel \ Late : pc'[Main]["body"] = l => pc[Main]["body"] = l
  BY BodyElsewhere DEF KillLabel, Teardown, BodyLabel, Late
<1>2. {"ss_fork", "ss_store", "plugin_set", "nap", "check_exiting", "plugin_fork", "plugin_store"}
        \subseteq BodyLabel \ Late
  BY DEF BodyLabel, Late, KillLabel, Teardown
<1> QED BY <1>1, <1>2, ChildElsewhere DEF StartOK, Child

LEMMA StartMain == TypeOK /\ FramesOK /\ StartOK /\ MainStep => StartOK'
<1> SUFFICES ASSUME TypeOK, FramesOK, StartOK, MainStep PROVE StartOK' OBVIOUS
<1>1. PICK a, l \in Labels :
         /\ pc[Main][Top(Main)] = a /\ a \in BodyLabel \ {"off", "relay"} /\ Goto(Main, l)
  BY MainMoves
<1>2. pc[Main]["body"] = a /\ pc'[Main]["body"] = l
  <2>1. Top(Main) = "body" BY <1>1, RunningBody, ThreadsAssumption
  <2> QED BY <1>1, <2>1, GotoTyped, ThreadsAssumption DEF Frame
<1>3. \A b, m : At(Main, b) /\ Goto(Main, m) => a = b /\ l = m
  BY <1>1, <1>2, ThreadsAssumption, TopIsFrame DEF At, Goto, TypeOK
<1> USE DEF Child
<1>4. CASE ForkShadowsocks
  <2>1. a = "ss_fork" /\ l = "ss_store" BY <1>3, <1>4 DEF ForkShadowsocks, Fork
  <2> QED BY <1>2, <1>4, <2>1 DEF ForkShadowsocks, Fork, StartOK, TypeOK, globals, KillLabel, Teardown
<1>5. CASE ShadowsocksError \/ PluginError
  <2>1. PICK c \in Child : ForkError(c, IF c = "ss" THEN "ss_fork" ELSE "plugin_fork")
    BY <1>5 DEF ShadowsocksError, PluginError
  <2>2. a = (IF c = "ss" THEN "ss_fork" ELSE "plugin_fork") /\ l = "k_wait"
    BY <1>3, <2>1 DEF ForkError, EnterExit
  <2>3. /\ UNCHANGED <<plugin, child>>
        /\ \A d \in Child : pid'[d] = IF d = c THEN "minus_one" ELSE pid[d]
    BY <2>1 DEF ForkError, TypeOK, kernel
  <2> QED BY <1>2, <2>2, <2>3 DEF StartOK, KillLabel
<1>6. CASE StoreSsPid
  <2>1. a = "ss_store" /\ l = "plugin_set" BY <1>3, <1>6 DEF StoreSsPid, StorePid
  <2> QED BY <1>2, <1>6, <2>1 DEF StoreSsPid, StorePid, StartOK, TypeOK, kernel, KillLabel, Teardown
<1>7. CASE SetPlugin
  <2>1. a = "plugin_set" /\ l = IF service.plugin_file THEN "nap" ELSE "udp"
    BY <1>3, <1>7 DEF SetPlugin
  <2> QED BY <1>2, <1>7, <2>1 DEF SetPlugin, StartOK, TypeOK, kernel, KillLabel, Teardown
<1>8. CASE ForkPlugin
  <2>1. a = "plugin_fork" /\ l = "plugin_store" BY <1>3, <1>8 DEF ForkPlugin, Fork
  <2> QED BY <1>2, <1>8, <2>1 DEF ForkPlugin, Fork, StartOK, TypeOK, globals, KillLabel, Teardown
<1>9. CASE StorePluginPid
  <2>1. a = "plugin_store" /\ l = "udp" BY <1>3, <1>9 DEF StorePluginPid, StorePid
  <2> QED BY <1>2, <1>9, <2>1 DEF StorePluginPid, StorePid, StartOK, TypeOK, kernel, KillLabel, Teardown
<1>10. CASE Nap \/ CheckExiting \/ SkipUdpProxy \/ StartUdpProxy \/ ProxyCheck \/ ProxyDrain
            \/ LoopTest \/ Pause
  <2>1. \/ a = "nap" /\ l = "check_exiting"
        \/ a = "check_exiting" /\ l = "plugin_fork"
        \/ a \notin KillLabel /\ l \in {"udp", "recv", "drain", "loop", "prepause", "paused", "k_wait"}
    BY <1>1, <1>3, <1>10 DEF Nap, CheckExiting, SkipUdpProxy, StartUdpProxy, ProxyCheck, ProxyDrain,
       LoopTest, Pause, Jump, EnterExit, BodyLabel, KillLabel, Teardown
  <2>2. UNCHANGED <<plugin, pid, child>>
    BY <1>10 DEF Nap, CheckExiting, SkipUdpProxy, StartUdpProxy, ProxyCheck, ProxyDrain,
       LoopTest, Pause, Jump, globals, kernel
  <2> QED BY <1>1, <1>2, <2>1, <2>2 DEF StartOK, BodyLabel, KillLabel, Teardown
<1> QED BY <1>4, <1>5, <1>6, <1>7, <1>8, <1>9, <1>10 DEF MainStep

LEMMA StartInit == Init => StartOK
BY ThreadsAssumption DEF Init, StartOK, Frame, Child, Signal

LEMMA StartNext == TypeOK /\ FramesOK /\ StartOK /\ [Next]_vars => StartOK'
BY NextSplit, StartElsewhere, StartMain

-----------------------------------------------------------------------------
(* Causes: why a child ends and why an exit status is chosen *)

LEMMA CauseInit == Init => CauseOK
BY DEF Init, CauseOK, Dead, Child, Teardown

\* Nothing that is a cause, a sentence or a begun teardown is ever taken back.
LEMMA Monotone ==
  ASSUME TypeOK, FramesOK, StartOK, [Next]_vars
  PROVE  crashed \subseteq crashed' /\ doomed \subseteq doomed' /\ (Cause => Cause') /\ (exiting => exiting')
<1>1. CASE MainStep
  <2>1. PICK a \in BodyLabel \ {"off", "relay"} : pc[Main][Top(Main)] = a BY <1>1, MainMoves
  <2>2. pc[Main]["body"] = a BY <2>1, RunningBody, ThreadsAssumption
  <2>3. \A c \in Child : pid[c] # "minus_one" BY <2>2 DEF StartOK, BodyLabel, KillLabel, Teardown
  <2> QED BY <1>1, <2>3, MainMoves DEF Cause
<1>2. CASE Elsewhere
  <2>1. UNCHANGED pid BY <1>2, ChildElsewhere
  <2>2. ASSUME NEW t \in Threads, ThreadStep(t)
        PROVE  crashed \subseteq crashed' /\ doomed \subseteq doomed' /\ (exiting => exiting')
    <3> USE DEF globals, kernel
    <3>1. CASE WorkerEnds(t) \/ KillWait(t) \/ KillSet(t) \/ KillReap(t) \/ ReapBegin(t) \/ ReapNothing(t)
               \/ ReapReturn(t) \/ ReapShadowsocks(t) \/ ReapPlugin(t)
      BY <3>1 DEF WorkerEnds, KillWait, KillSet, KillReap, ReapBegin, ReapNothing, ReapReturn,
                  ReapShadowsocks, ReapPlugin, Jump
    <3>2. CASE KillShadowsocks(t) \/ KillPlugin(t) \/ KillDone(t)
      BY <3>2 DEF KillShadowsocks, KillPlugin, KillDone, Strike, ParentGone
    <3> QED BY <2>2, <3>1, <3>2 DEF ThreadStep
  <2>3. ASSUME NEW t \in Threads, NEW s \in Signal, Deliver(t, s)
        PROVE  UNCHANGED <<crashed, doomed, exiting>>
    BY <2>3 DEF Deliver, globals
  <2>4. ASSUME (\E c \in Child : ChildStep(c)) \/ Environment \/ UNCHANGED vars
        PROVE  crashed \subseteq crashed' /\ doomed \subseteq doomed' /\ (exiting => exiting')
    BY <2>4 DEF ChildStep, ChildGuards, ChildExecs, ChildKilled, Environment, ExecError,
                ChildExits, PreExecSignal, JobControl, UserSignal, SupervisorKilled, Ends,
                ProxyReceive, Jump, ParentGone, globals, kernel, vars
  <2>5. crashed \subseteq crashed' /\ doomed \subseteq doomed' /\ (exiting => exiting')
    BY <1>2, <2>2, <2>3, <2>4 DEF Elsewhere
  <2> QED BY <2>1, <2>5 DEF Cause
<1> QED BY <1>1, <1>2, NextSplit

\* A child that ends was killed, or is recorded as having ended on its own.
LEMMA EndsForAReason ==
  ASSUME TypeOK, [Next]_vars, NEW c \in Child, Dead(c)'
  PROVE  Dead(c) \/ c \in crashed' \cup doomed
<1>1. CASE MainStep
  BY <1>1 DEF MainStep, ForkShadowsocks, ShadowsocksError, StoreSsPid, PluginError, ForkPlugin,
       StorePluginPid, Fork, ForkError, StorePid, SetPlugin, Nap, CheckExiting, SkipUdpProxy,
       StartUdpProxy, ProxyCheck, ProxyDrain, LoopTest, Pause, Jump, kernel, Dead, TypeOK
<1>2. ASSUME NEW t \in Threads, ThreadStep(t) PROVE Dead(c)
  BY <1>2 DEF ThreadStep, WorkerEnds, KillWait, KillSet, KillShadowsocks, KillPlugin, KillDone,
       ReapBegin, ReapNothing, KillReap, ReapReturn, WaitAny, ReapShadowsocks, ReapPlugin,
       ReapChild, Jump, kernel, Dead, TypeOK
<1>3. ASSUME NEW t \in Threads, NEW s \in Signal, Deliver(t, s) PROVE Dead(c)
  BY <1>3 DEF Deliver, Dead
<1>4. ASSUME (\E d \in Child : ChildStep(d)) \/ Environment \/ UNCHANGED vars
      PROVE  Dead(c) \/ c \in crashed' \cup doomed
  BY <1>4 DEF ChildStep, ChildGuards, ChildExecs, ChildKilled, Environment, ExecError,
       ChildExits, PreExecSignal, JobControl, UserSignal, SupervisorKilled, Ends,
       ProxyReceive, Jump, kernel, vars, Dead, TypeOK
<1> QED BY <1>1, <1>2, <1>3, <1>4 DEF Next, Stopped

\* Only a teardown, an exit or a signal handler of a child sentences a child.
LEMMA DoomedForAReason ==
  ASSUME TypeOK, FramesOK, OwnerOK, StartOK, CauseOK, [Next]_vars, proc' = "alive", doomed' # {}
  PROVE  exiting' \/ crashed' # {}
<1>1. CASE doomed # {} /\ proc = "alive" BY <1>1, Monotone DEF CauseOK
<1>2. CASE proc # "alive"
  BY <1>2 DEF Next, MainStep, ForkShadowsocks, ShadowsocksError, StoreSsPid, PluginError, ForkPlugin,
       StorePluginPid, Fork, ForkError, StorePid, SetPlugin, Nap, CheckExiting, SkipUdpProxy,
       StartUdpProxy, ProxyCheck, ProxyDrain, LoopTest, Pause, Jump, At, ThreadStep, WorkerEnds,
       KillWait, KillSet, KillShadowsocks, KillPlugin, KillReap, KillDone, ReapBegin, ReapReturn,
       ReapShadowsocks, ReapPlugin, ReapNothing, Deliver, ChildStep, ChildGuards, ChildExecs,
       ChildKilled, Ends, Environment, ProxyReceive, ExecError, ChildExits, PreExecSignal,
       JobControl, UserSignal, SupervisorKilled, Stopped, vars
<1>3. CASE doomed = {} /\ proc = "alive"
  <2>1. \/ \E t \in Threads : KillShadowsocks(t) \/ KillPlugin(t)
        \/ \E c \in Child : PreExecSignal(c)
    BY <1>3, MainMoves DEF Next, ThreadStep, WorkerEnds,
       KillWait, KillSet, KillReap, KillDone, ParentGone, Jump, ReapBegin, ReapReturn,
       ReapShadowsocks, ReapPlugin, ReapNothing, Deliver, ChildStep, ChildGuards, ChildExecs,
       ChildKilled, Ends, Environment, ProxyReceive, ExecError, ChildExits,
       JobControl, UserSignal, SupervisorKilled, Stopped, vars, kernel
  <2>2. ASSUME NEW t \in Threads, KillShadowsocks(t) \/ KillPlugin(t) PROVE exiting'
    BY <2>2, TopIsFrame DEF KillShadowsocks, KillPlugin, At, OwnerOK, Teardown, globals
  <2>3. ASSUME NEW c \in Child, PreExecSignal(c) PROVE crashed' # {}
    BY <2>3 DEF PreExecSignal
  <2> QED BY <2>1, <2>2, <2>3
<1> QED BY <1>1, <1>2, <1>3

Chosen ==
  \A t \in Threads, f \in Frame :
    code[t][f] = 1 => /\ pc[t][f] = "k_wait" => exiting \/ Cause
                      /\ pc[t][f] \in Teardown \cup {"k_set"} => Cause

\* A frame that moves on keeps the right to its exit code.
LEMMA ChosenGoto ==
  ASSUME TypeOK, FramesOK, StartOK, Chosen, [Next]_vars,
         NEW t \in Threads, NEW l \in Labels, Goto(t, l), UNCHANGED code,
         \/ l \in BodyLabel \cup ReapLabel
         \/ l \in Teardown \cup {"k_set"} /\ pc[t][Top(t)] \in Teardown \cup {"k_set"}
         \/ l = "k_set" /\ pc[t][Top(t)] = "k_wait" /\ ~exiting
  PROVE  Chosen'
<1>1. \A u \in Threads, f \in Frame : pc'[u][f] = IF u = t /\ f = Top(t) THEN l ELSE pc[u][f]
  BY GotoTyped
<1> QED BY <1>1, Monotone DEF Chosen, BodyLabel, ReapLabel, Teardown

LEMMA ChosenEnter ==
  ASSUME TypeOK, FramesOK, StartOK, Chosen, [Next]_vars,
         NEW t \in Threads, NEW c \in {0, 1}, EnterExit(t, c), c = 1 => exiting' \/ Cause'
  PROVE  Chosen'
<1>1. \A u \in Threads, f \in Frame :
        /\ pc'[u][f] = IF u = t /\ f = Top(t) THEN "k_wait" ELSE pc[u][f]
        /\ code'[u][f] = IF u = t /\ f = Top(t) THEN c ELSE code[u][f]
  BY EnterExitTyped, GotoTyped DEF Labels, KillLabel
<1> QED BY <1>1, Monotone DEF Chosen, Teardown

LEMMA ChosenMain ==
  ASSUME TypeOK, FramesOK, StartOK, Chosen, MainStep
  PROVE  Chosen'
<1> USE ThreadsAssumption
<1>0. [Next]_vars BY DEF Next
<1>1. CASE LoopTest /\ exited BY <1>0, <1>1, ChosenEnter DEF LoopTest
<1>2. CASE ShadowsocksError \/ PluginError
  <2>1. PICK c \in Child : pid' = [pid EXCEPT ![c] = "minus_one"] /\ EnterExit(Main, 1)
    BY <1>2 DEF ShadowsocksError, PluginError, ForkError, Child
  <2>2. Cause' BY <2>1 DEF Cause, TypeOK
  <2> QED BY <1>0, <2>1, <2>2, ChosenEnter
<1>3. CASE ~(LoopTest /\ exited) /\ ~ShadowsocksError /\ ~PluginError
  <2>1. UNCHANGED code /\ \E l \in BodyLabel : Goto(Main, l)
    BY <1>3 DEF MainStep, ForkShadowsocks, StoreSsPid, ForkPlugin, StorePluginPid, Fork, StorePid,
       SetPlugin, Nap, CheckExiting, SkipUdpProxy, StartUdpProxy, ProxyCheck, ProxyDrain,
       LoopTest, Pause, Jump, BodyLabel
  <2> QED BY <1>0, <2>1, ChosenGoto DEF Labels
<1> QED BY <1>1, <1>2, <1>3

\* get_sub_exit calls error_exit() only after a death of a cause or a teardown.
LEMMA ReapHasCause ==
  ASSUME TypeOK, FramesOK, StartOK, CauseOK, proc = "alive", NEW c \in Child, NEW d \in Awaited(c),
         pid[c] # "zero", child[d] \in {"none", "zombie", "reaped"},
         child[d] = "zombie" \/ \A e \in Awaited(c) : child[e] \in {"none", "reaped"}
  PROVE  exiting \/ Cause
<1>1. CASE pid[c] = "minus_one" BY <1>1 DEF Cause
<1>2. CASE pid[c] = "real"
  <2>1. d = c BY <1>2 DEF Awaited
  <2>2. Dead(c) BY <1>2, <2>1 DEF StartOK, Dead
  <2> QED BY <2>2 DEF CauseOK, Cause
<1> QED BY <1>1, <1>2 DEF TypeOK

LEMMA ChosenThread ==
  ASSUME TypeOK, FramesOK, StartOK, CauseOK, Chosen, NEW t \in Threads, ThreadStep(t)
  PROVE  Chosen'
<1>0. [Next]_vars BY DEF Next
<1> USE DEF At, Labels, KillLabel
<1>1. CASE WorkerEnds(t) \/ ReapBegin(t)
  BY <1>0, <1>1, ChosenGoto DEF WorkerEnds, ReapBegin, Jump, BodyLabel, ReapLabel
<1>2. CASE KillWait(t) BY <1>0, <1>2, ChosenGoto DEF KillWait, Jump
<1>3. CASE KillSet(t) \/ KillShadowsocks(t) \/ KillPlugin(t) \/ KillReap(t)
  BY <1>0, <1>3, ChosenGoto DEF KillSet, KillShadowsocks, KillPlugin, KillReap, Teardown
<1>4. CASE KillDone(t) BY <1>0, <1>4, Monotone DEF KillDone, threads, Chosen
<1>5. CASE ReapReturn(t) \/ ReapNothing(t)
  <2>1. HandlerReturn(t) /\ UNCHANGED code BY <1>5 DEF ReapReturn, ReapNothing
  <2>2. \A u \in Threads, f \in Frame : pc'[u][f] \in {"off", "loop", pc[u][f]}
    BY <2>1, HandlerReturnTyped
  <2> QED BY <1>0, <2>1, <2>2, Monotone DEF Chosen, Teardown
<1>6. CASE ReapShadowsocks(t) \/ ReapPlugin(t)
  <2>1. CASE UNCHANGED code /\ \E l \in ReapLabel : Goto(t, l) BY <1>0, <2>1, ChosenGoto
  <2>2. CASE EnterExit(t, 1) /\ (exiting \/ Cause)
    BY <1>0, <2>2, ChosenEnter, Monotone
  <2>3. \/ UNCHANGED code /\ \E l \in ReapLabel : Goto(t, l)
        \/ EnterExit(t, 1) /\ (exiting \/ Cause)
    <3>1. ASSUME NEW c \in Child, NEW l \in ReapLabel, pid[c] # "zero", proc = "alive", ReapChild(t, c, l)
          PROVE  \/ UNCHANGED code /\ Goto(t, l)
                 \/ EnterExit(t, 1) /\ (exiting \/ Cause)
      <4>1. c \in Awaited(c) BY DEF Awaited
      <4>2. ASSUME EnterExit(t, 1), ~(UNCHANGED code /\ Goto(t, l)) PROVE exiting \/ Cause
        <5>1. \/ \E d \in Awaited(c) : child[d] = "zombie"
              \/ \A d \in Awaited(c) : child[d] \in {"none", "reaped"}
          BY <3>1, <4>2 DEF ReapChild
        <5> QED BY <3>1, <4>1, <5>1, ReapHasCause
      <4> QED BY <3>1, <4>2 DEF ReapChild
    <3> QED BY <1>6, <3>1 DEF ReapShadowsocks, ReapPlugin, Child, ReapLabel
  <2> QED BY <2>1, <2>2, <2>3
<1> QED BY <1>1, <1>2, <1>3, <1>4, <1>5, <1>6 DEF ThreadStep

LEMMA ChosenOther ==
  ASSUME TypeOK, FramesOK, StartOK, Chosen, [Next]_vars,
         \/ \E t \in Threads, s \in Signal : Deliver(t, s)
         \/ \E c \in Child : ChildStep(c)
         \/ Environment
         \/ UNCHANGED vars
  PROVE  Chosen'
<1> USE ThreadsAssumption
<1>1. ASSUME NEW t \in Threads, NEW s \in Signal, Deliver(t, s) PROVE Chosen'
  <2>1. \A u \in Threads, f \in Frame :
          \/ pc'[u][f] = pc[u][f] /\ code'[u][f] = code[u][f]
          \/ code'[u][f] = 0
    BY <1>1 DEF Deliver, TypeOK, Frame
  <2> QED BY <2>1, Monotone DEF Chosen
<1>2. CASE ProxyReceive
  <2>1. CASE Jump(Main, "recv", "proxy_check")
    BY <2>1, ChosenGoto DEF Jump, Labels, BodyLabel
  <2>2. CASE ~Jump(Main, "recv", "proxy_check")
    <3>1. PICK w \in Threads \ {Main} :
            /\ pc' = [pc EXCEPT ![Main]["body"] = "proxy_check", ![w]["body"] = "relay"]
            /\ UNCHANGED code
      BY <1>2, <2>2 DEF ProxyReceive
    <3>2. \A u \in Threads, f \in Frame : pc'[u][f] \in {"proxy_check", "relay", pc[u][f]}
      BY <3>1 DEF TypeOK, Frame
    <3>3. UNCHANGED code BY <3>1
    <3> QED BY <3>2, <3>3, Monotone DEF Chosen, Teardown
  <2> QED BY <2>1, <2>2
<1>3. ASSUME ~ProxyReceive, (\E c \in Child : ChildStep(c)) \/ Environment \/ UNCHANGED vars
      PROVE  UNCHANGED <<pc, code>>
  BY <1>3 DEF ChildStep, ChildGuards, ChildExecs, ChildKilled, Environment, ExecError,
              ChildExits, PreExecSignal, JobControl, UserSignal, SupervisorKilled, Ends, threads, vars
<1>4. CASE UNCHANGED <<pc, code>> BY <1>4, Monotone DEF Chosen
<1> QED BY <1>1, <1>2, <1>3, <1>4

\* The exit status is the code of the frame that reaches exit().
LEMMA ExitHasCause ==
  ASSUME TypeOK, FramesOK, StartOK, CauseOK, [Next]_vars, proc' = "exit1"
  PROVE  Cause'
<1>1. CASE proc = "exit1" BY <1>1, Monotone DEF CauseOK
<1>2. CASE proc # "exit1"
  <2>1. PICK t \in Threads : KillDone(t)
    BY <1>2, MainMoves DEF Next, ThreadStep, WorkerEnds, KillWait, KillSet, KillShadowsocks, KillPlugin,
       KillReap, ReapBegin, ReapReturn, ReapShadowsocks, ReapPlugin, ReapNothing, Jump, Deliver,
       ChildStep, ChildGuards, ChildExecs, ChildKilled, Ends, Environment, ProxyReceive, ExecError,
       ChildExits, PreExecSignal, JobControl, UserSignal, SupervisorKilled, ParentGone, Stopped, vars
  <2>2. pc[t][Top(t)] = "k_done" /\ code[t][Top(t)] = 1 /\ Top(t) \in Frame
    BY <2>1, TopIsFrame DEF KillDone, ParentGone, At, TypeOK
  <2> QED BY <2>2, Monotone DEF CauseOK, Teardown
<1> QED BY <1>1, <1>2

LEMMA CauseNext ==
  TypeOK /\ FramesOK /\ OwnerOK /\ StartOK /\ CauseOK /\ [Next]_vars => CauseOK'
<1> SUFFICES ASSUME TypeOK, FramesOK, OwnerOK, StartOK, CauseOK, [Next]_vars PROVE CauseOK' OBVIOUS
<1>1. \A c \in Child : Dead(c)' => c \in crashed' \cup doomed'
  BY EndsForAReason, Monotone DEF CauseOK
<1>2. Chosen'
  <2>1. Chosen BY DEF CauseOK, Chosen
  <2> QED BY <2>1, ChosenMain, ChosenThread, ChosenOther DEF Next, Stopped
<1> QED BY <1>1, <1>2, DoomedForAReason, ExitHasCause DEF CauseOK, Chosen

-----------------------------------------------------------------------------
(* The teardown deals with every child it knows *)

LEMMA HitInit == Init => HitOK
BY DEF Init, HitOK

\* Hit holds for good once the main thread can start nothing any more.
LEMMA HitKept ==
  ASSUME TypeOK, FramesOK, StartOK, Elsewhere, NEW c \in Child, Hit(c)
  PROVE  Hit(c)'
<1>1. UNCHANGED pid /\ doomed \subseteq doomed'
  BY ChildElsewhere, Monotone DEF Elsewhere, Next
<1>2. Alive(c)' => Alive(c)
  <2>1. ASSUME NEW t \in Threads, ThreadStep(t) PROVE Alive(c)' => Alive(c)
    BY <2>1 DEF ThreadStep, WorkerEnds, KillWait, KillSet, KillShadowsocks, KillPlugin, KillDone,
         ReapBegin, ReapNothing, KillReap, ReapReturn, WaitAny, ReapShadowsocks, ReapPlugin,
         ReapChild, Jump, kernel, Alive, Live, TypeOK
  <2>2. ASSUME NEW t \in Threads, NEW s \in Signal, Deliver(t, s) PROVE Alive(c)' => Alive(c)
    BY <2>2 DEF Deliver, Alive
  <2>3. ASSUME (\E d \in Child : ChildStep(d)) \/ Environment \/ UNCHANGED vars
        PROVE  Alive(c)' => Alive(c)
    BY <2>3 DEF ChildStep, ChildGuards, ChildExecs, ChildKilled, Environment, ExecError,
         ChildExits, PreExecSignal, JobControl, UserSignal, SupervisorKilled, Ends,
         ProxyReceive, Jump, kernel, vars, Alive, Live, TypeOK
  <2> QED BY <2>1, <2>2, <2>3 DEF Elsewhere
<1> QED BY <1>1, <1>2 DEF Hit

LEMMA HitMain == TypeOK /\ FramesOK /\ HitOK /\ MainStep => HitOK'
<1> SUFFICES ASSUME TypeOK, FramesOK, HitOK, MainStep PROVE HitOK' OBVIOUS
<1> USE ThreadsAssumption
<1>1. PICK a, l \in Labels :
         /\ pc[Main][Top(Main)] = a /\ a \in BodyLabel \ {"off", "relay"} /\ Goto(Main, l)
         /\ l \in BodyLabel \cup {"k_wait"}
  BY MainMoves
<1>2. UNCHANGED <<proc, doomed>> BY MainMoves
<1>3. \A t \in Threads, f \in Frame : pc'[t][f] = IF t = Main /\ f = Top(Main) THEN l ELSE pc[t][f]
  BY <1>1, GotoTyped
<1>4. l \notin {"k_plugin", "k_reap", "k_done"} BY <1>1 DEF BodyLabel
<1>5. proc = "alive"
  BY DEF MainStep, ForkShadowsocks, ShadowsocksError, StoreSsPid, PluginError, ForkPlugin,
       StorePluginPid, Fork, ForkError, StorePid, SetPlugin, Nap, CheckExiting, SkipUdpProxy,
       StartUdpProxy, ProxyCheck, ProxyDrain, LoopTest, Pause, Jump, At
<1>6. CASE a \notin Late
  <2>1. \A t \in Threads, f \in Frame : pc[t][f] # "off" => t = Main /\ f = "body"
    BY <1>1, <1>5, <1>6, EarlyMeansUp DEF At
  <2>2. Top(Main) = "body" BY <1>1, RunningBody
  <2>3. \A t \in Threads, f \in Frame : pc'[t][f] \in {"off", l} BY <1>3, <2>1, <2>2
  <2> QED BY <1>2, <1>4, <1>5, <2>3 DEF HitOK
<1>7. CASE a \in Late
  <2>1. \A b : At(Main, b) => a = b BY <1>1 DEF At
  <2>2. UNCHANGED <<pid, child>>
    BY <1>7, <2>1 DEF MainStep, ForkShadowsocks, ShadowsocksError, StoreSsPid, PluginError,
       ForkPlugin, StorePluginPid, Fork, ForkError, StorePid, SetPlugin, Nap, CheckExiting,
       SkipUdpProxy, StartUdpProxy, ProxyCheck, ProxyDrain, LoopTest, Pause, Jump, globals, kernel,
       Late, KillLabel, Teardown
  <2>3. \A c \in Child : Hit(c) => Hit(c)' BY <1>2, <2>2 DEF Hit, Alive
  <2>4. \A t \in Threads, f \in Frame : pc'[t][f] \in {l, pc[t][f]} BY <1>3
  <2> QED BY <1>2, <1>4, <1>5, <2>3, <2>4 DEF HitOK, Child
<1> QED BY <1>6, <1>7

\* After kill() on a stored pid its owner is dead or doomed.
LEMMA StrikeHits ==
  ASSUME TypeOK, StartOK, NEW c \in Child, Strike(c), UNCHANGED <<pid, child>>
  PROVE  Hit(c)'
BY DEF Strike, Hit, Alive, Live, TypeOK

LEMMA HitElsewhere == TypeOK /\ FramesOK /\ StartOK /\ HitOK /\ Elsewhere => HitOK'
<1> SUFFICES ASSUME TypeOK, FramesOK, StartOK, HitOK, Elsewhere PROVE HitOK' OBVIOUS
<1> USE ThreadsAssumption DEF Child
<1>0. \A c \in Child : Hit(c) => Hit(c)' BY HitKept
<1>1. ASSUME UNCHANGED proc \/ proc' \in {"alive", "killed"},
             \A t \in Threads, f \in Frame :
               pc'[t][f] \in {"k_plugin", "k_reap", "k_done"} => pc'[t][f] = pc[t][f]
      PROVE  HitOK'
  BY <1>0, <1>1 DEF HitOK
<1>2. ASSUME NEW t \in Threads, ThreadStep(t) PROVE HitOK'
  <2>1. ASSUME NEW l \in Labels, Goto(t, l), UNCHANGED proc,
               l \in {"k_plugin", "k_reap", "k_done"} => Hit("ss")',
               l \in {"k_reap", "k_done"} => Hit("plugin")'
        PROVE  HitOK'
    <3>1. \A u \in Threads, f \in Frame : pc'[u][f] \in {l, pc[u][f]} BY <2>1, GotoTyped
    <3> QED BY <1>0, <2>1, <3>1 DEF HitOK
  <2>2. Top(t) \in Frame BY TopIsFrame
  <2>3. CASE WorkerEnds(t) \/ KillWait(t) \/ KillSet(t) \/ ReapBegin(t) \/ ReapShadowsocks(t) \/ ReapPlugin(t)
    <3>1. UNCHANGED proc /\ \E l \in Labels \ {"k_plugin", "k_reap", "k_done"} : Goto(t, l)
      BY <2>3 DEF WorkerEnds, KillWait, KillSet, ReapBegin, ReapShadowsocks, ReapPlugin, ReapChild,
                  EnterExit, Jump, Labels, BodyLabel, ReapLabel, KillLabel, Teardown
    <3> QED BY <2>1, <3>1
  <2>4. CASE KillShadowsocks(t)
    <3>1. Hit("ss")' BY <2>4, StrikeHits DEF KillShadowsocks, globals
    <3> QED BY <2>1, <2>4, <3>1 DEF KillShadowsocks, Labels, KillLabel, Teardown
  <2>5. CASE KillPlugin(t)
    <3>1. Hit("ss")' BY <2>2, <2>5, <1>0 DEF KillPlugin, At, HitOK
    <3>2. Hit("plugin")'
      <4>1. CASE plugin BY <2>5, <4>1, StrikeHits DEF KillPlugin, globals
      <4>2. CASE ~plugin BY <2>5, <4>2, <1>0 DEF Hit, StartOK
      <4> QED BY <4>1, <4>2
    <3> QED BY <2>1, <2>5, <3>1, <3>2 DEF KillPlugin, Labels, KillLabel, Teardown
  <2>6. CASE KillReap(t)
    BY <2>1, <2>2, <2>6, <1>0 DEF KillReap, At, HitOK, Labels, KillLabel, Teardown
  <2>7. CASE KillDone(t)
    <3>1. Hit("ss") /\ Hit("plugin") /\ UNCHANGED pc
      BY <2>2, <2>7 DEF KillDone, At, HitOK, threads
    <3> QED BY <1>0, <3>1 DEF HitOK
  <2>8. CASE ReapReturn(t) \/ ReapNothing(t)
    <3>1. HandlerReturn(t) /\ UNCHANGED proc BY <2>8 DEF ReapReturn, ReapNothing
    <3>2. \A u \in Threads, f \in Frame : pc'[u][f] \in {"off", "loop", pc[u][f]}
      BY <3>1, HandlerReturnTyped
    <3> QED BY <1>1, <3>1, <3>2
  <2> QED BY <1>2, <2>3, <2>4, <2>5, <2>6, <2>7, <2>8 DEF ThreadStep
<1>3. ASSUME NEW t \in Threads, NEW s \in Signal, Deliver(t, s) PROVE HitOK'
  <2>1. \A u \in Threads, f \in Frame : pc'[u][f] \in {"c_begin", "k_wait", pc[u][f]}
    BY <1>3 DEF Deliver, TypeOK, Frame
  <2> QED BY <1>1, <1>3, <2>1 DEF Deliver
<1>4. CASE ProxyReceive
  <2>1. UNCHANGED proc BY <1>4 DEF ProxyReceive, Jump
  <2>2. \A u \in Threads, f \in Frame : pc'[u][f] \in {"proxy_check", "relay", pc[u][f]}
    <3>1. CASE Jump(Main, "recv", "proxy_check")
      BY <3>1, GotoTyped DEF Jump, Labels, BodyLabel
    <3>2. ASSUME NEW w \in Threads, pc' = [pc EXCEPT ![Main]["body"] = "proxy_check", ![w]["body"] = "relay"]
          PROVE  \A u \in Threads, f \in Frame : pc'[u][f] \in {"proxy_check", "relay", pc[u][f]}
      BY <3>2 DEF TypeOK, Frame
    <3> QED BY <1>4, <3>1, <3>2 DEF ProxyReceive
  <2> QED BY <1>1, <2>1, <2>2
<1>5. ASSUME ~ProxyReceive, (\E c \in Child : ChildStep(c)) \/ Environment \/ UNCHANGED vars
      PROVE  HitOK'
  <2>1. UNCHANGED pc /\ (UNCHANGED proc \/ proc' = "killed")
    BY <1>5 DEF ChildStep, ChildGuards, ChildExecs, ChildKilled, Environment, ExecError,
              ChildExits, PreExecSignal, JobControl, UserSignal, SupervisorKilled, Ends,
              ParentGone, threads, vars
  <2> QED BY <1>1, <2>1
<1> QED BY <1>2, <1>3, <1>4, <1>5 DEF Elsewhere

LEMMA HitNext == TypeOK /\ FramesOK /\ StartOK /\ HitOK /\ [Next]_vars => HitOK'
BY NextSplit, HitMain, HitElsewhere

-----------------------------------------------------------------------------
(* No death is forgotten *)

LEMMA ReapedInit == Init => ReapedOK
BY DEF Init, ReapedOK

\* A handler in kill_sub_process never returns.
LEMMA KillNeverReturns ==
  ASSUME TypeOK, FramesOK, [Next]_vars, NEW t \in Threads, NEW s \in Signal, pc[t][s] \in KillLabel
  PROVE  pc'[t][s] \in KillLabel
<1> USE ThreadsAssumption
<1>0. s \in Frame /\ s # "body" BY DEF Frame, Signal
<1>1. ASSUME NEW u \in Threads, NEW l \in Labels, Goto(u, l), Top(u) = "body" \/ l \in KillLabel \/ pc[u][Top(u)] \notin KillLabel
      PROVE  pc'[t][s] \in KillLabel
  BY <1>0, <1>1, GotoTyped
<1>2. CASE MainStep
  <2>1. PICK a, l \in Labels : pc[Main][Top(Main)] = a /\ a \in BodyLabel \ {"off"} /\ Goto(Main, l)
    BY <1>2, MainMoves
  <2> QED BY <1>1, <2>1, RunningBody
<1>3. ASSUME NEW u \in Threads, ThreadStep(u) PROVE pc'[t][s] \in KillLabel
  <2>1. CASE WorkerEnds(u) \/ KillWait(u) \/ KillSet(u) \/ KillShadowsocks(u) \/ KillPlugin(u) \/ KillReap(u)
             \/ ReapBegin(u) \/ ReapShadowsocks(u) \/ ReapPlugin(u)
    <3>1. \E l \in Labels : Goto(u, l) /\ (l \in KillLabel \/ pc[u][Top(u)] \notin KillLabel)
      BY <2>1 DEF WorkerEnds, KillWait, KillSet, KillShadowsocks, KillPlugin, KillReap, ReapBegin,
           ReapShadowsocks, ReapPlugin, ReapChild, EnterExit, Jump, At, Labels, BodyLabel, ReapLabel,
           KillLabel, Teardown
    <3> QED BY <1>1, <3>1
  <2>2. CASE KillDone(u) BY <2>2 DEF KillDone, threads
  <2>3. CASE ReapReturn(u) \/ ReapNothing(u)
    <3>1. HandlerReturn(u) /\ pc[u][Top(u)] \in ReapLabel
      BY <2>3 DEF ReapReturn, ReapNothing, At, ReapLabel
    <3>2. t = u => s # Top(u) BY <3>1 DEF ReapLabel, KillLabel, Teardown
    <3> QED BY <1>0, <3>1, <3>2, HandlerReturnTyped
  <2> QED BY <1>3, <2>1, <2>2, <2>3 DEF ThreadStep
<1>4. ASSUME NEW u \in Threads, NEW r \in Signal, Deliver(u, r) PROVE pc'[t][s] \in KillLabel
  BY <1>4 DEF Deliver, TypeOK, Frame, KillLabel, Teardown
<1>5. CASE ProxyReceive
  <2>1. CASE Jump(Main, "recv", "proxy_check")
    BY <1>1, <2>1, RunningBody DEF Jump, At, Labels, BodyLabel
  <2>2. ASSUME NEW w \in Threads, pc' = [pc EXCEPT ![Main]["body"] = "proxy_check", ![w]["body"] = "relay"]
        PROVE  pc'[t][s] \in KillLabel
    BY <1>0, <2>2 DEF TypeOK
  <2> QED BY <1>5, <2>1, <2>2 DEF ProxyReceive
<1>6. ASSUME ~ProxyReceive, (\E c \in Child : ChildStep(c)) \/ Environment \/ UNCHANGED vars
      PROVE  UNCHANGED pc
  BY <1>6 DEF ChildStep, ChildGuards, ChildExecs, ChildKilled, Environment, ExecError,
              ChildExits, PreExecSignal, JobControl, UserSignal, SupervisorKilled, Ends, threads, vars
<1> QED BY <1>2, <1>3, <1>4, <1>5, <1>6, NextSplit DEF Elsewhere

\* A child is waited for by a teardown, by a handler that found one under way, or
\* by a handler that starts one.
LEMMA ReapedByTeardown ==
  ASSUME TypeOK, FramesOK, OwnerOK, [Next]_vars, NEW c \in Child, child[c] # "reaped", child'[c] = "reaped"
  PROVE  exiting' \/ \E t \in Threads, s \in Signal : pc'[t][s] \in KillLabel
<1>1. PICK t \in Threads : KillReap(t) \/ ReapReturn(t) \/ ReapShadowsocks(t) \/ ReapPlugin(t)
  BY DEF Next, vars, threads, globals, kernel, MainStep, ForkShadowsocks, ForkPlugin, ShadowsocksError,
       StoreSsPid, PluginError, StorePluginPid, Fork, ForkError, StorePid, SetPlugin, Nap, CheckExiting,
       SkipUdpProxy, StartUdpProxy, ProxyCheck, ProxyDrain, LoopTest, Pause, Jump,
       ThreadStep, WorkerEnds, KillWait, KillSet, KillShadowsocks, KillPlugin,
       KillDone, ReapBegin, ReapNothing, Deliver, ChildStep, ChildGuards, ChildExecs, ChildKilled,
       Ends, Alive, Live, Environment, ProxyReceive, ExecError, ChildExits, PreExecSignal, JobControl,
       UserSignal, SupervisorKilled, Stopped, TypeOK
<1>2. CASE KillReap(t) \/ ReapReturn(t)
  BY <1>2, TopIsFrame DEF KillReap, ReapReturn, At, OwnerOK, Teardown, globals
<1>3. CASE ReapShadowsocks(t) \/ ReapPlugin(t)
  <2>1. Top(t) \in Signal BY <1>3, RunningHandler DEF ReapShadowsocks, ReapPlugin, At, ReapLabel
  <2>2. Goto(t, "k_wait")
    BY <1>3 DEF ReapShadowsocks, ReapPlugin, ReapChild, EnterExit
  <2>3. pc'[t][Top(t)] = "k_wait" BY <2>1, <2>2, GotoTyped DEF Labels, KillLabel, Frame
  <2> QED BY <2>1, <2>3 DEF KillLabel
<1> QED BY <1>1, <1>2, <1>3

LEMMA ReapedNext ==
  TypeOK /\ FramesOK /\ OwnerOK /\ StartOK /\ ReapedOK /\ [Next]_vars => ReapedOK'
BY KillNeverReturns, ReapedByTeardown, Monotone DEF ReapedOK

-----------------------------------------------------------------------------
(* The results *)

LEMMA Invariant == Spec => []IInv
<1>1. Init => IInv
  BY TypeInit, FramesInit, OwnerInit, StartInit, CauseInit, HitInit, ReapedInit DEF IInv
<1>2. IInv /\ [Next]_vars => IInv'
  BY TypeNext, FramesNext, OwnerNext, StartNext, CauseNext, HitNext, ReapedNext DEF IInv
<1> QED BY <1>1, <1>2, PTL DEF Spec

\* The status 1 of the bootstrap always has a cause other than its own kills.
THEOREM ErrorHasCause == Spec => []ErrorExitHasCause
<1>1. IInv => ErrorExitHasCause BY DEF IInv, CauseOK, ErrorExitHasCause, Cause
<1> QED BY <1>1, Invariant, PTL

\* A child survives exit() only if its pid had not been stored.
THEOREM OrphansHaveNoStoredPid == Spec => []OrphanHasNoStoredPid
<1>1. IInv => OrphanHasNoStoredPid BY DEF IInv, HitOK, Hit, OrphanHasNoStoredPid
<1> QED BY <1>1, Invariant, PTL

\* get_sub_exit forgets no child it has waited for.
THEOREM NobodyForgotten == Spec => []NobodyReapedQuietly
<1>1. IInv => NobodyReapedQuietly
  BY DEF IInv, FramesOK, ReapedOK, NobodyReapedQuietly, KillLabel, Teardown
<1> QED BY <1>1, Invariant, PTL

-----------------------------------------------------------------------------
(* Refinement: every step is a step of the promised life cycle, or a stutter *)

LEMMA PromisedInit == Init => Promise!Init
BY DEF Init, Promise!Init, Phase, Life, Failed, Child, Alive, Live

\* Only the kind of a child's state matters to Life.
LEMMA LifeKept ==
  ASSUME \A c \in Child : /\ child'[c] = "none" <=> child[c] = "none"
                          /\ Alive(c)' <=> Alive(c)
  PROVE  UNCHANGED Life
BY DEF Life, Alive

LEMMA LifeMoves ==
  ASSUME TypeOK, NEW c \in Child, NEW k, child' = [child EXCEPT ![c] = k]
  PROVE  Life' = [Life EXCEPT ![c] = IF k = "none" THEN "unborn" ELSE IF k \in Live THEN "live" ELSE "gone"]
<1>1. \A d \in Child : child'[d] = IF d = c THEN k ELSE child[d] BY DEF TypeOK
<1> QED BY <1>1 DEF Life, Alive

LEMMA PromisedMain ==
  ASSUME IInv, MainStep
  PROVE  Promise!Next \/ UNCHANGED Promise!avars
<1> USE ThreadsAssumption DEF IInv
<1>1. UNCHANGED <<proc, exiting, crashed>> BY MainMoves
<1>2. UNCHANGED Phase BY <1>1 DEF Phase
<1>3. PICK a \in BodyLabel \ {"off", "relay"} : pc[Main][Top(Main)] = a BY MainMoves
<1>4. pc[Main]["body"] = a BY <1>3, RunningBody
<1>5. \A c \in Child : pid[c] # "minus_one" BY <1>4 DEF StartOK, BodyLabel, KillLabel, Teardown
<1>6. ASSUME NEW l \in {"ss_fork", "plugin_fork"}, At(Main, l)
      PROVE  Phase = "up" /\ a = l
  <2>1. l \in BodyLabel \ Late /\ l \notin {"off", "relay"} BY DEF BodyLabel, Late, KillLabel, Teardown
  <2>2. a = l BY <1>3, <1>6 DEF At
  <2>3. \A t \in Threads, f \in Frame : pc[t][f] \notin Teardown
    BY <1>4, <1>6, <2>1, <2>2, EarlyMeansUp DEF Teardown
  <2> QED BY <1>6, <2>2, <2>3 DEF OwnerOK, Phase, At
<1>7. ASSUME NEW c \in Child, NEW l, Fork(c, l, IF c = "ss" THEN "ss_store" ELSE "plugin_store"),
             l = IF c = "ss" THEN "ss_fork" ELSE "plugin_fork"
      PROVE  Promise!Start(c)
  <2>1. Phase = "up" /\ a = l BY <1>6, <1>7 DEF Fork
  <2>2. child[c] = "none" /\ (c = "plugin" => child["ss"] # "none")
    BY <1>4, <1>7, <2>1 DEF StartOK, Child
  <2>3. Life[c] = "unborn" /\ (c = "plugin" => Life["ss"] # "unborn") BY <2>2 DEF Life, Child
  <2>4. Life' = [Life EXCEPT ![c] = "live"] BY <1>7, LifeMoves DEF Fork, Live
  <2>5. UNCHANGED Failed BY <1>1, <1>7 DEF Fork, Failed, globals
  <2> QED BY <1>1, <1>2, <2>1, <2>3, <2>4, <2>5 DEF Promise!Start
<1>8. ASSUME NEW c \in Child, NEW l, ForkError(c, l), l = IF c = "ss" THEN "ss_fork" ELSE "plugin_fork"
      PROVE  Promise!CannotStart(c)
  <2>1. Phase = "up" /\ a = l BY <1>6, <1>8 DEF ForkError
  <2>2. child[c] = "none" BY <1>4, <1>8, <2>1 DEF StartOK, Child
  <2>3. Life[c] = "unborn" BY <2>2 DEF Life
  <2>4. UNCHANGED Life BY <1>8 DEF ForkError, kernel, Life, Alive
  <2>5. Failed' = TRUE BY <1>8 DEF ForkError, TypeOK, Failed
  <2> QED BY <1>1, <1>2, <2>1, <2>3, <2>4, <2>5 DEF Promise!CannotStart
<1>9. ASSUME UNCHANGED child, \A c \in Child : pid'[c] # "minus_one"
      PROVE  UNCHANGED Promise!avars
  <2>1. UNCHANGED Life BY <1>9 DEF Life, Alive
  <2>2. UNCHANGED Failed BY <1>1, <1>5, <1>9 DEF Failed
  <2> QED BY <1>1, <1>2, <2>1, <2>2 DEF Promise!avars
<1>10. CASE ForkShadowsocks \/ ForkPlugin
  <2>1. \E c \in Child : Promise!Start(c) BY <1>7, <1>10 DEF ForkShadowsocks, ForkPlugin, Child
  <2> QED BY <2>1 DEF Promise!Next
<1>11. CASE ShadowsocksError \/ PluginError
  <2>1. \E c \in Child : Promise!CannotStart(c) BY <1>8, <1>11 DEF ShadowsocksError, PluginError, Child
  <2> QED BY <2>1 DEF Promise!Next
<1>12. CASE StoreSsPid \/ StorePluginPid
  BY <1>5, <1>9, <1>12 DEF StoreSsPid, StorePluginPid, StorePid, TypeOK, kernel
<1>13. ASSUME ~(ForkShadowsocks \/ ForkPlugin \/ ShadowsocksError \/ PluginError \/ StoreSsPid \/ StorePluginPid)
       PROVE  UNCHANGED <<child, pid>>
  BY <1>13 DEF MainStep, SetPlugin, Nap, CheckExiting, SkipUdpProxy, StartUdpProxy, ProxyCheck, ProxyDrain,
     LoopTest, Pause, Jump, globals, kernel
<1> QED BY <1>5, <1>9, <1>10, <1>11, <1>12, <1>13

\* A step outside the main thread's code that changes no child's kind, no flag of
\* the abstraction and not how the process ended is a stutter.
LEMMA PromisedStutter ==
  ASSUME UNCHANGED <<proc, exiting, crashed, pid>>,
         \A c \in Child : /\ child'[c] = "none" <=> child[c] = "none"
                          /\ Alive(c)' <=> Alive(c)
  PROVE  UNCHANGED Promise!avars
BY LifeKept DEF Promise!avars, Phase, Failed

LEMMA PromisedThread ==
  ASSUME IInv, NEW t \in Threads, ThreadStep(t)
  PROVE  Promise!Next \/ UNCHANGED Promise!avars
<1> USE DEF IInv, globals, kernel, threads
<1>1. CASE WorkerEnds(t) \/ KillWait(t) \/ KillShadowsocks(t) \/ KillPlugin(t) \/ KillReap(t) \/ ReapBegin(t)
           \/ ReapReturn(t) \/ ReapShadowsocks(t) \/ ReapPlugin(t) \/ ReapNothing(t)
  <2>1. UNCHANGED <<proc, exiting, crashed, pid>>
    BY <1>1 DEF WorkerEnds, KillWait, KillShadowsocks, KillPlugin, KillReap, ReapBegin, ReapReturn,
                ReapShadowsocks, ReapPlugin, ReapNothing, Jump
  <2>2. \A c \in Child : child'[c] = child[c] \/ (child[c] = "zombie" /\ child'[c] = "reaped")
    <3>1. CASE KillReap(t) \/ ReapReturn(t) BY <3>1 DEF KillReap, ReapReturn, WaitAny, TypeOK
    <3>2. CASE ReapShadowsocks(t) \/ ReapPlugin(t)
      BY <3>2 DEF ReapShadowsocks, ReapPlugin, ReapChild, TypeOK
    <3>3. CASE WorkerEnds(t) \/ KillWait(t) \/ KillShadowsocks(t) \/ KillPlugin(t) \/ ReapBegin(t)
               \/ ReapNothing(t)
      BY <3>3 DEF WorkerEnds, KillWait, KillShadowsocks, KillPlugin, ReapBegin, ReapNothing, Jump
    <3> QED BY <1>1, <3>1, <3>2, <3>3
  <2> QED BY <2>1, <2>2, PromisedStutter DEF Alive, Live
<1>2. CASE KillSet(t)
  <2>1. UNCHANGED <<Life, Failed, proc>> /\ exiting' /\ proc = "alive"
    BY <1>2 DEF KillSet, Life, Alive, Failed, At
  <2>2. CASE exiting BY <2>1, <2>2 DEF Phase, Promise!avars
  <2>3. CASE ~exiting BY <2>1, <2>3 DEF Phase, Promise!Stop, Promise!Next
  <2> QED BY <2>2, <2>3
<1>3. CASE KillDone(t)
  <2>1. Top(t) \in Frame /\ exiting /\ proc = "alive"
    BY <1>3, TopIsFrame DEF KillDone, At, OwnerOK, Teardown
  <2>2. UNCHANGED <<Life, Failed>> BY <1>3 DEF KillDone, Life, Alive, Failed
  <2>3. proc' \in {"exit0", "exit1"} BY <1>3 DEF KillDone, ParentGone
  <2>4. proc' = "exit1" => Failed
    <3>1. ASSUME proc' = "exit1" PROVE Cause'
      BY <1>3, <3>1, ExitHasCause DEF Next
    <3> QED BY <2>2, <3>1 DEF Cause, Failed
  <2>5. Phase = "stopping" /\ Phase' = "down" BY <2>1, <2>3 DEF Phase
  <2>6. Promise!Exit(proc') BY <2>2, <2>4, <2>5 DEF Promise!Exit
  <2> QED BY <2>3, <2>6 DEF Promise!Next
<1> QED BY <1>1, <1>2, <1>3 DEF ThreadStep

LEMMA PromisedChild ==
  ASSUME IInv, NEW c \in Child,
         ChildStep(c) \/ ExecError(c) \/ ChildExits(c) \/ PreExecSignal(c) \/ JobControl(c)
  PROVE  Promise!Next \/ UNCHANGED Promise!avars
<1> USE DEF IInv, globals, threads
<1>1. CASE ChildGuards(c) \/ ChildExecs(c) \/ JobControl(c)
  <2>1. UNCHANGED <<proc, exiting, crashed, pid>> BY <1>1 DEF ChildGuards, ChildExecs, JobControl
  <2>2. \A d \in Child : child'[d] = child[d] \/ (child[d] \in Live /\ child'[d] \in Live)
    <3>1. CASE ChildGuards(c) BY <3>1 DEF ChildGuards, Live, TypeOK
    <3>2. CASE ChildExecs(c) BY <3>2 DEF ChildExecs, Live, TypeOK
    <3>3. CASE JobControl(c) BY <3>3 DEF JobControl
    <3> QED BY <1>1, <3>1, <3>2, <3>3
  <2> QED BY <2>1, <2>2, PromisedStutter DEF Alive, Live
<1>2. ASSUME Alive(c), Ends(c)
      PROVE  /\ Life[c] = "live" /\ Life' = [Life EXCEPT ![c] = "gone"]
             /\ UNCHANGED <<Phase, proc, pid>>
  BY <1>2, LifeMoves DEF Ends, Alive, Live, Life, Phase
<1>3. CASE ChildKilled(c)
  <2>1. Phase # "up" \/ Failed BY <1>3 DEF ChildKilled, CauseOK, Phase, Failed
  <2>2. UNCHANGED Failed BY <1>2, <1>3 DEF ChildKilled, Failed
  <2> QED BY <1>2, <1>3, <2>1, <2>2 DEF ChildKilled, Promise!Killed, Promise!Next
<1>4. CASE ExecError(c) \/ ChildExits(c) \/ PreExecSignal(c)
  <2>1. Alive(c) /\ Ends(c) /\ crashed' # {}
    BY <1>4 DEF ExecError, ChildExits, PreExecSignal, Alive, Live
  <2>2. Failed' = TRUE BY <2>1 DEF Failed
  <2> QED BY <1>2, <2>1, <2>2 DEF Promise!Fails, Promise!Next
<1> QED BY <1>1, <1>3, <1>4 DEF ChildStep

LEMMA PromisedRest ==
  ASSUME IInv,
         \/ \E t \in Threads, s \in Signal : Deliver(t, s)
         \/ ProxyReceive
         \/ \E s \in UserSignals : UserSignal(s)
         \/ SupervisorKilled
         \/ UNCHANGED vars
  PROVE  Promise!Next \/ UNCHANGED Promise!avars
<1> USE DEF globals, kernel, threads
<1>1. CASE SupervisorKilled
  <2>1. UNCHANGED <<Life, Failed>> /\ Phase # "down" /\ Phase' = "down" /\ proc' = "killed"
    BY <1>1 DEF SupervisorKilled, ParentGone, Life, Alive, Failed, Phase
  <2> QED BY <2>1 DEF Promise!KilledFromOutside, Promise!Next
<1>2. ASSUME ~SupervisorKilled PROVE UNCHANGED <<proc, exiting, crashed, pid, child>>
  BY <1>2 DEF Deliver, ProxyReceive, Jump, UserSignal, vars
<1> QED BY <1>1, <1>2, PromisedStutter DEF Alive

\* For any number of threads and any environment, process.c keeps the promise of
\* Lifecycle: children start in order and only while the service is up, are killed
\* only in a teardown or after a failure, and an error is reported only after one.
THEOREM KeepsThePromise == Spec => ImplementsLifecycle
<1>1. IInv /\ [Next]_vars => [Promise!Next]_(Promise!avars)
  BY PromisedMain, PromisedThread, PromisedChild, PromisedRest DEF Next, Environment, Stopped
<1>2. ImplementsLifecycle <=> Promise!Init /\ [][Promise!Next]_(Promise!avars)
  BY DEF ImplementsLifecycle, Promise!Spec
<1> QED BY <1>1, <1>2, PromisedInit, Invariant, PTL DEF Spec

=============================================================================
