\* A client writes earlier content back between two syncs.
SPECIFICATION Spec
CONSTANTS
  Keys = {k1}
  Syncers = {s1}
  MaxBody = 2
  MaxFaults = 1
  FaultKinds = {}
  Tagging <- TaggedOnly
  Deletes = FALSE
  ContentReuse = TRUE
INVARIANT StatusHonest
