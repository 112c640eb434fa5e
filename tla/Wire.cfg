CONSTANTS
  Words <- MCWords
  Outbox <- MCOutbox
  MaxLen = 9
  BufSize = 3
  MaxSends = 2
SPECIFICATION FairSpec
INVARIANTS TypeOK NothingLostOnWire LineFitsBuffer ShortMessagesArrive
PROPERTIES SentArrives ImplementsChannel
CHECK_DEADLOCK FALSE
