CONSTANTS
  c1 = c1
  c2 = c2
  c3 = c3
  Clients = {c1, c2, c3}
  Receivers = {c3}
  Server = Server
  List <- MCList
  Reaches <- MCReaches
  NoAddress = NoAddress
  Free = Free
  MaxFds = 2
  LISTENQ = 2
SPECIFICATION FairSpec
INVARIANTS TypeOK WalkHoldsOne DescriptorIsOwn
PROPERTIES WalkEnds 
CHECK_DEADLOCK FALSE
