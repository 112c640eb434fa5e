CONSTANTS
  Words <- MCWords
  Names <- MCNames
  Sayings <- MCSayings
  MaxLen = 12
  MaxTexts = 3
SPECIFICATION FairSpec
INVARIANTS TypeOK PrintedAsSent InStep
PROPERTIES SentIsPrinted
CHECK_DEADLOCK FALSE
