\* Two nodes, a channel of one update, one caller, words of four bits.
CONSTANTS
  NodeID = {"a", "b"}
  MinScore = 1
  MaxScore = 4
  BaseScore = 2
  ActiveAbove = 2
  Delta <- MCDelta
  Points <- MCPoints
  WordSize = 16
  QueueSize = 1
  Caller = {"c"}
  NoUpdate = NoUpdate
  MaxUpdates = 2

SPECIFICATION Spec

INVARIANTS
  TypeOK
  NoUpdateLost
  ActiveIsEarned
  StatsCurrent

PROPERTIES
  BlacklistIsPermanent
  ReactivatedByDecayOnly
  UpdatesApplied

\* Once Stop has returned and the bounds are reached, nothing is left to do.
CHECK_DEADLOCK FALSE
