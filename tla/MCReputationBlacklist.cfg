\* Two nodes, a channel of one update, one caller, words of four bits.
CONSTANTS
  NodeID = {"a", "b"}
  MinScore = 1
  MaxScore = 4
  BaseScore = 2
  ActiveAbove = 2
  Delta <- MCDelta
  Points <- MCPoints
  WordSize = 16
  QueueSize = 1
  Caller = {"c"}
  NoUpdate = NoUpdate
  MaxUpdates = 2

SPECIFICATION Spec

INVARIANT BlacklistedIsInactive

CHECK_DEADLOCK FALSE
