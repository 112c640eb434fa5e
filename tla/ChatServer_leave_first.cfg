CONSTANTS
  s1 = s1
  s2 = s2
  r1 = r1
  r2 = r2
  p = p
  q = q
  Senders = {s1}
  Receivers = {}
  Closers = {}
  RoomNames = {p}
  Username <- Distinct
  NoRoom = NoRoom
  Nobody = Nobody
  MaxSendalls = 1

SPECIFICATION Spec

INVARIANTS
  ServerStaysUp

\* The system may stop: the process dies, or every thread has ended.
CHECK_DEADLOCK FALSE
