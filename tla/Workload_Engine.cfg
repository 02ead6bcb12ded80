\* Every operation; one lost object in three is permitted, no damaged one.
SPECIFICATION VerifiedSpec
CONSTANTS
  Objects = 3
  Workers = 2
  Operations = {"upload", "download", "delete", "mixed"}
  Latencies = {8000, 9005}
  MaxFaults = 2
  Thresholds <- Lenient
CHECK_DEADLOCK FALSE
INVARIANTS PassBoundsLoss EveryObjectCounts VerifiedPassIsWhole
PROPERTY RunReturns
