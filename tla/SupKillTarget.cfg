\* A failed fork leaves -1 in the pid that is killed.
SPECIFICATION Spec
CONSTANTS
  Threads = {"main"}
  Main = "main"
  UserSignals = {}
  Faults = {"fork_error"}
INVARIANTS OnlyChildrenStruck
