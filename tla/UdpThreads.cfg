\* The second datagram finds no thread.
SPECIFICATION Spec
CONSTANTS
  Requests = {1, 2}
  Clients = {10, 20}
  Ports = {1, 2}
  Stranger = 9
  ThreadLimit = 1
  Faults = {}
PROPERTIES EveryRequestServed
