\* One caller of sync_once; every failure, deletions, objects without checksum.
SPECIFICATION Spec
CONSTANTS
  Keys = {k1, k2}
  Syncers = {s1}
  MaxBody = 2
  MaxFaults = 2
  FaultKinds <- AllFaults
  Tagging <- BothTags
  Deletes = TRUE
  ContentReuse = FALSE
INVARIANTS TypeOK StatusHonest SyncInvariant NoRecopy
PROPERTY LaggingSpec
