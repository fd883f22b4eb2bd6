SPECIFICATION FairSpec
CONSTANTS
  p1 = p1
  p2 = p2
  c1 = c1
  c2 = c2
  Caller = {c1, c2}
  Domain = {d1}
  Part = {p1, p2}
  Did <- MCDid
  Ttl <- MCTtl
  Day = 3
  MaxCleaners = 2
  NoDomain = NoDomain
  NoRecord = NoRecord
INVARIANTS
  TypeOK
  UnregisteredIsUncached
PROPERTIES
  EventuallyCurrent
  StaleNeverProlonged
