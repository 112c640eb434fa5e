CONSTANTS
  Words <- MCWords
  Outbox <- MCOutbox
  MaxLen = 9
  BufSize = 3
  MaxSends = 2
SPECIFICATION Spec
INVARIANT FullMessagesArrive
CHECK_DEADLOCK FALSE
