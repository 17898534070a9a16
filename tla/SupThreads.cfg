\* Handlers on the main thread and on a worker of the UDP proxy.
SPECIFICATION Spec
CONSTANTS
  Threads = {"main", "w1"}
  Main = "main"
  UserSignals = {"TERM"}
  Faults = {"fork_error", "exec_error", "job_control", "sigkill"}
INVARIANTS ErrorExitHasCause
