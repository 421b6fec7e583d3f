CONSTANTS
  a = a  b = b
  c1 = c1  c2 = c2
  QueueSize = 1
  ReplayLimit = 1
  BatchSize = 2
  Replicas = {a}
  Clients = {c1, c2}
  MaxSubscribers = 1
  MaxEvents = 2
  MaxFaults = 1
  Faults = {"restart", "watch_fails", "relay_fails"}
SPECIFICATION Spec
SYMMETRY Symmetric
CHECK_DEADLOCK FALSE
INVARIANTS TypeOK LiveSubscriberIsFed
PROPERTIES ResumeMissesOnlyTheExcused
