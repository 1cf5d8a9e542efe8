CONSTANTS
  PacketSize = 8
  LengthBase = 256
  MaxFaults = 3
  MaxRestarts = 1
  MaxQueries = 1
SPECIFICATION Spec
INVARIANTS
  TypeOK
  ReadsAreIntact
  AddressesAgree
  KnowsTheDevice
PROPERTY EnumeratesEventually
CHECK_DEADLOCK FALSE
