\* Two paths that may share chunks, files of up to two chunks, four documents.
CONSTANTS
  p1 = p1
  p2 = p2
  b1 = b1
  b2 = b2
  Path <- MCPath
  Block <- MCBlock
  MaxChunks = 2
  MaxDocs = 4
  NoOp = NoOp
  NoDoc = NoDoc
  NoData = NoData

SPECIFICATION Spec

SYMMETRY Symmetry

INVARIANTS
  TypeOK
  ReferencedChunksDurable
  TombstoneMeansDeleted

PROPERTY ImplementsFileStore
