\* Bytes of two bits; see the module.
CONSTANTS
  ByteBase = 4
  MaxScript = 4
  PayloadVersion = 1
  CrcInit <- MCCrcInit
  CrcUpdate <- MCCrcUpdate
  CrcOf <- MCCrcOf
  MaxWriteData = 2
  MaxAppendData = 2
  MaxReadData = 2
  Reports <- MCReports
  Images <- MCImages
SPECIFICATION Spec
INVARIANTS
  TypeOK
  RunningCrcCoversScript
  AcknowledgedIsStored
  CommitVerifies
  MismatchInvalidates
PROPERTIES
  FrameRespected
  ValidOnlyByCommit
