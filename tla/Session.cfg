CONSTANTS
  s1 = s1
  r1 = r1
  n1 = n1
  n2 = n2
  alice = alice
  bob = bob
  Senders = {s1}
  Receivers = {r1}
  Mortals = {r1}
  RoomNames = {n1, n2}
  Username <- MCUsername
  NoRoom = NoRoom
  MaxCommands = 4
SPECIFICATION FairSpec
INVARIANTS TypeOK  EndToEnd
PROPERTIES NobodyWaits Heard
CHECK_DEADLOCK FALSE
