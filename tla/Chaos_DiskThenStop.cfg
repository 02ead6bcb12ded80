\* A full disk on a container that is then stopped.
SPECIFICATION Spec
CONSTANTS
  Containers = {c1}
  FaultTypes <- AllFaultTypes
  MaxActive = 3
  MaxNesting = 2
  MishapKinds = {}
  MaxMishaps = 0
INVARIANT NoLeakedFaults
