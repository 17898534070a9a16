\* Two datagrams of two clients, two ports and two threads.
SPECIFICATION Spec
CONSTANTS
  Requests = {1, 2}
  Clients = {10, 20}
  Ports = {1, 2}
  Stranger = 9
  ThreadLimit = 2
  Faults = {"no_thread", "send_error", "eintr", "reply_error", "stranger"}
INVARIANTS TypeOK ResourcesOwned StrayAnswersAreLate
PROPERTIES ImplementsRelay WorkersEnd
