\* A key is deleted between the listing and its HEAD.
SPECIFICATION LoopSpec
CONSTANTS
  Keys = {k1, k2}
  Syncers = {t1}
  MaxBody = 1
  MaxFaults = 1
  FaultKinds = {}
  Tagging <- TaggedOnly
  Deletes = TRUE
  ContentReuse = FALSE
  NoThread = NoThread
PROPERTY Converges
