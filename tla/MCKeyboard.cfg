CONSTANTS
  PacketSize = 8
  LengthBase = 256
  KEYBOARD_MAX_KEYS = 6
  Typed <- MCTyped
  MaxRequests = 2
  MaxConfigures = 2
  MaxLost = 2
SPECIFICATION Spec
INVARIANTS
  TypeOK
  LossIsBounded
PROPERTY ImplementsChannel
CHECK_DEADLOCK FALSE
