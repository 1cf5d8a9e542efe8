\* Documented: a script whose CRC does not match is not valid.
CONSTANTS
  ByteBase = 4
  MaxScript = 4
  PayloadVersion = 1
  CrcInit <- MCCrcInit
  CrcUpdate <- MCCrcUpdate
  CrcOf <- MCCrcOf
  MaxWriteData = 2
  MaxAppendData = 2
  MaxReadData = 2
  Reports <- DeviceReports
  Images <- DeviceImages
SPECIFICATION DeviceSpec
INVARIANT PlayedCrcMatches
