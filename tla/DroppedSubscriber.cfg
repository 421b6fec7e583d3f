CONSTANTS
  a = a  b = b
  c1 = c1  c2 = c2
  QueueSize = 1
  ReplayLimit = 1
  BatchSize = 2
  Replicas = {a}
  Clients = {c1}
  MaxSubscribers = 1
  MaxEvents = 2
  MaxFaults = 1
  Faults = {}
SPECIFICATION FairSpec
CHECK_DEADLOCK FALSE
PROPERTIES DroppedIsDisconnected
