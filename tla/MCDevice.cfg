\* Bytes of two bits; see MCProtocol.
CONSTANTS
  ByteBase = 4
  MaxScript = 4
  PayloadVersion = 1
  CrcInit <- MCCrcInit
  CrcUpdate <- MCCrcUpdate
  CrcOf <- MCCrcOf
  MaxWriteData = 2
  MaxAppendData = 2
  MaxReadData = 2
  Reports <- DeviceReports
  Images <- DeviceImages
SPECIFICATION DeviceSpec
INVARIANT
  CommittedIsPlayed
PROPERTIES
  ImplementsProtocol
  KeyboardOnlyByRequest
  ReachesKeyboard
