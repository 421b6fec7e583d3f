CONSTANTS
  r1 = r1  r2 = r2  r3 = r3  r4 = r4
  k1 = k1
  alice = alice  bob = bob  carol = carol  dana = dana
  None = None
  Keys = {k1}
  Bodies = {"ticket", "refund", "other"}
  Actors = {alice, bob, carol, dana}
  Agents = {bob, carol, dana}
  Requester = carol
  Requests = {r1, r2, r3}
  Calls <- KeyedCalls
  Faults = {}
SPECIFICATION Spec
INVARIANTS AtMostOncePerKey
