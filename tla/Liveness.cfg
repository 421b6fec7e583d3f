CONSTANTS
  r1 = r1  r2 = r2  r3 = r3  r4 = r4
  k1 = k1
  alice = alice  bob = bob  carol = carol  dana = dana
  None = None
  Keys = {k1}
  Bodies = {"ticket", "refund", "other"}
  Actors = {alice, bob, carol, dana}
  Agents = {bob, carol, dana}
  Requester = carol
  Requests = {r1, r2}
  Calls <- WaitingCalls
  Faults = {"crash", "store", "lost_commit", "sweep"}
  Replicas = {"a"}
  Clients = {"c"}
  QueueSize = 1
  ReplayLimit = 1
  BatchSize = 2
  MaxSubscribers = 1
  MaxEvents = 2
  MaxFaults = 1
  DeliveryFaults = {"restart", "watch_fails", "relay_fails"}
  ToolCalls = {"first", "second"}
  Threshold = 1
  ResetTimeout = 2
  Timeout = 2
  Attempts = 2
  Delays = {0}
  ToolKeys = {k1}
  ToolBodies = {"x"}
  Stores = {"memory", "redis"}
  Slots = 2
  Allowance = 2
  ToolFaults = {"cancel", "crash", "store"}
SPECIFICATION EverySpec
CHECK_DEADLOCK FALSE
PROPERTIES EveryRequestEnds KeysAreFreed OutboxDrains SubscribersCatchUp EveryCallEnds BreakerRecovers
