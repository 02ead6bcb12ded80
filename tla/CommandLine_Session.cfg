\* Every program and every feature, as many patterns as it takes for the highest
\* severity, and as many probes as it takes for an object to be forgotten.
SPECIFICATION Spec
CONSTANTS
  MaxPatterns = 3
  MaxProbes = 4
INVARIANTS TypeOK FallsBack ClaimIsTrue HealthyIsFounded
INVARIANTS StrandedOnlyIfCut VerdictIsFounded ProbesAreCleared LeavesNothing
INVARIANTS OrderIsByStart  
PROPERTIES CallReturns ProgramsEnd
