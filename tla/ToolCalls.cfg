CONSTANTS
  c1 = c1  c2 = c2  c3 = c3
  k1 = k1
  None = None
  Calls = {c1, c2, c3}
  Threshold = 2
  ResetTimeout = 1
  Timeout = 1
  Attempts = 2
  Delays = {0}
  Keys = {k1}
  Bodies = {"x", "y"}
  Stores = {"redis", "memory"}
  Slots = 2
  Allowance = 2
  Wants <- EveryWant
  Faults = {"cancel", "expire", "crash", "store"}
SPECIFICATION MixedSpec
SYMMETRY Symmetric
INVARIANTS TypeOK OneProbe OneRecordPerAnswer SingleFlight KeyStuckOnlyAfterFault AnswersAreTrue NothingLeaks
PROPERTY ReliabilitySafety
CHECK_DEADLOCK FALSE
