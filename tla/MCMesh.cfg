SPECIFICATION FairSpec
CONSTANTS
  s = s
  a = a
  u = u
  p = p
  q = q
  e = e
  Node <- TheNodes
  Seed <- TheSeed
  User <- TheUser
  UserOf <- TheirUser
  Part <- TheParts
  EmptyPart = e
  MaxInFlight = 2
  StoreText <- TheStoreTexts
  FindText <- TheFindTexts
INVARIANTS
  TypeOK
  NeverSpins
PROPERTIES
  LoopEnds
  Reconnects
  OneLateStoreAtMost
  StoredIsFound
