CONSTANTS
  s1 = s1
  s2 = s2
  r1 = r1
  r2 = r2
  p = p
  q = q
  Senders = {s1, s2}
  Receivers = {r1, r2}
  Closers = {}
  RoomNames = {p}
  Username <- Twins
  NoRoom = NoRoom
  Nobody = Nobody
  MaxSendalls = 2

SYMMETRY Symmetry

SPECIFICATION Spec

INVARIANTS
  TypeOK
  LocksHeld
  TotalOrder
  

PROPERTIES
  BroadcastSeesFixedMembers
  

\* The system may stop: the process dies, or every thread has ended.
CHECK_DEADLOCK FALSE
