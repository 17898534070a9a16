\* A child is stopped or continued, and nobody exits.
SPECIFICATION Spec
CONSTANTS
  Threads = {"main"}
  Main = "main"
  UserSignals = {}
  Faults = {"job_control"}
INVARIANTS ExitedMeansAllExited
