\* One thread, SIGTERM, children that fail at any time, and SIGCHLDs without a death.
SPECIFICATION Spec
CONSTANTS
  Threads = {"main"}
  Main = "main"
  UserSignals = {"TERM"}
  Faults = {"fork_error", "exec_error", "child_exit", "job_control", "preexec_signal"}
INVARIANTS TypeOK OrphanHasNoStoredPid NobodyReapedQuietly
PROPERTIES NoForkDuringTeardown ImplementsLifecycle RecordedTeardownExits SeenDeathExits DeathExits
