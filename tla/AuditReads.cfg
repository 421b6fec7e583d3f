CONSTANTS
  TrailStores = {"mongodb"}
  Correlations = {"a"}
  Limits = {2}
  MaxRecords = 3
  MaxTampering = 1
SPECIFICATION TrailsSpec
CHECK_DEADLOCK FALSE
INVARIANTS UntouchedTrailVerifies
