\* Two containers under every kind of fault; starts may raise.
SPECIFICATION Spec
CONSTANTS
  Containers = {c1, c2}
  FaultTypes <- AllFaultTypes
  MaxActive = 3
  MaxNesting = 2
  MishapKinds <- AllMishaps
  MaxMishaps = 1
INVARIANTS TypeOK FaultsAreTracked RestoredIsHealthy
