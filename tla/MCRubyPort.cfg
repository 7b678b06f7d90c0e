SPECIFICATION FairSpec
CONSTANTS
  p1 = p1
  p2 = p2
  a = a
  b = b
  Ports = {p1, p2}
  Lines = {a, b}
  max_outstanding_requests = 2
  deadlock_threshold = 2
  NoPkt = NoPkt
  Packets <- MCPackets
  MayDrain = TRUE
  MaxQueued = 1
INVARIANTS
  TablesAgree
  RefusedPortsWait
  DeadlockDetected
PROPERTIES RetriesServed
CHECK_DEADLOCK FALSE
