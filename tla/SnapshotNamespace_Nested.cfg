\* Snapshots of the whole bucket, one inside the other, and of a directory.
SPECIFICATION Spec
CONSTANTS
  Tokens <- Pieces
  ClientKeys <- Directory
  SourcePrefixes <- WholeOrDirectory
  Ids = {"i1", "i2"}
  MaxBody = 2
INVARIANTS RestoreBringsBack GettableIsWhole
