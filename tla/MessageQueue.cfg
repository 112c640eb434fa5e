CONSTANTS
  Producers = {p1, p2}
  Consumer = c
  Messages = {m1, m2}
  Nobody = nobody
  MaxEnqueues = 3

SPECIFICATION FairSpec

INVARIANTS
  TypeOK
  MutexHeldInside
  PermitsCountMessages
  FrontExists
  NothingLost

PROPERTIES
  DequeueReturns
  EnqueueReturns
  ImplementsMailbox
