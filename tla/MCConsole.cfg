CONSTANTS
  NWords = 256
  COLS = 3
  ROWS = 2
  BufLen = 6
  CmdLines <- Lines
  UseSerial <- Word
  Messages <- SomeMessages
  Reports <- SomeReports
  PageFault <- PageFaultReport
  MaxMessages = 2
SPECIFICATION FairConsoleSpec
INVARIANTS
  ShownInOrder
  MessagesExact
PROPERTIES
  ExceptionReported
