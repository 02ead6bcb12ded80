\* Keys under "p/" and keys that only begin with p, snapshot of "p".
SPECIFICATION Spec
CONSTANTS
  Tokens <- Pieces
  ClientKeys <- Siblings
  SourcePrefixes <- BareName
  Ids = {"i1"}
  MaxBody = 1
INVARIANTS RestoreBringsBack
