\* A handler nested in the teardown waits for the teardown below it.
SPECIFICATION Spec
CONSTANTS
  Threads = {"main"}
  Main = "main"
  UserSignals = {"TERM"}
  Faults = {"child_exit"}
PROPERTIES TeardownExits
