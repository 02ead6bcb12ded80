\* One owner starts and stops; joins may time out; GETs and PUTs may fail, nobody deletes.
SPECIFICATION LoopSpec
CONSTANTS
  Keys = {k1}
  Syncers = {t1, t2}
  MaxBody = 2
  MaxFaults = 2
  FaultKinds = {"get_error", "put_error"}
  Tagging <- TaggedOnly
  Deletes = FALSE
  ContentReuse = FALSE
  NoThread = NoThread
INVARIANT AtMostOneLoop
PROPERTIES StoppedIsQuiet LoopsEnd Converges
