\* The real widths, polynomial and initial value of crc16.c.
CONSTANTS
  BitsPerByte = 8
  CRC16_POLY = 4129
  CRC16_INIT = 65535
  Bytes = {0, 1, 26, 128, 255}
  MaxMessage = 4
  RegisterBase = 8
  FirstStep = 4
  target_value = 6
  Frames <- MCFrames
SPECIFICATION ArithmeticSpec
INVARIANTS
  RunningIsRemainder
  OneWrongByteDetected
  FindsOptimum
PROPERTY CalibrationEnds
\* calibrate_oscillator returns, and the host stops after MaxMessage bytes.
CHECK_DEADLOCK FALSE
