\* Every mix of fast and slow results up to 62, with up to two failed ones.
SPECIFICATION Spec
CONSTANTS
  Thresholds <- Short
  MaxResults = 62
  MaxFailed = 2
INVARIANT P95IsNinetyFivePercent
PROPERTY FailuresNeverHelp
CHECK_DEADLOCK FALSE
