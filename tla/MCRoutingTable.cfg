CONSTANTS
  Bytes = 3
  BitsPerByte = 1
  WordBytes = 2
  LocalID = {}
  PeerID <- MCPeerID
  K = 2
  StaleAfter = 0
  Caller = {"c1", "c2"}
  Target <- MCTarget
  Count <- MCCount
  DefaultCount = 2
  NoCall = NoCall
  MaxTime = 1

SPECIFICATION Spec

INVARIANTS
  TypeOK
  OneEntryPerNode
  FindClosestIsNearest
