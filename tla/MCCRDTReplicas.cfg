\* Two nodes, one document, two contents, two instants, five writes,
\* versions up to 4, histories of two entries.
CONSTANTS
  n1 = n1
  n2 = n2
  Node <- MCNode
  Data <- MCData
  Digest <- MCDigest
  PathData = "y"
  HistoryLimit = 2
  DocId = {"doc"}
  MaxVersion = 4
  MaxWrites = 5
  MaxTime = 2
  Writes <- MCWrites
  MaxInFlight = 1
  MaxDeliveries = 2

SPECIFICATION Spec

SYMMETRY Symmetry

INVARIANTS
  TypeOK
  ClockBoundedByVersion
  HistoryOrdered
  GreatestIsSeen
  UnreportedMergeIsNoop

PROPERTY ImplementsRegister
