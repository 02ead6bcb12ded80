\* Two threads, every failure, the first content of k2 stored without its checksum.
SPECIFICATION Spec
CONSTANTS
  Keys = {k1, k2}
  Ids = {i1}
  Workers = {w1, w2}
  MaxBody = 2
  MaxFaults = 1
  FaultKinds <- AllFaults
  k2 = k2
  Untagged <- SomeUntagged
  ManifestKey = ManifestKey
  NoWorker = NoWorker
  NotCaptured = NotCaptured
INVARIANTS TypeOK ListedIsComplete CapturedInWindow PassedIsRestored UndisturbedReport DeleteRemoves
PROPERTY LedgerSpec
CHECK_DEADLOCK FALSE
