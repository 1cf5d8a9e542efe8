\* Reports of two packets; lengths at and around each limit, and one that
\* the 8-bit length truncates to nothing.
CONSTANTS
  PacketSize = 2
  PROTOCOL_REPORT_SIZE = 4
  LengthBase = 8
  ResponseLengths = {1, 4}
  WriteLengths = {0, 1, 3, 4, 5, 8}
  ReadLengths = {0, 3, 4, 8}
  MaxTransfers = 3
  MaxRepeats = 1
SPECIFICATION Spec
INVARIANTS
  TypeOK
  ReceivedAsSent
  ExecutedOnce
  CompletedIsExecuted
  GetReportAnswers
PROPERTIES
  AnsweredOnce
  TransfersEnd
CHECK_DEADLOCK FALSE
