\* A counter of 16 values; operands at zero, at the last that is in the
\* window of three ticks, beyond it and at the end of the counter.
CONSTANTS
  CounterBase = 16
  DelayUnit = 3
  PROGRAMMING_TIMEOUT_MS = 10
  BlinkTimes = {2}
  HeaderDelays = {0, 1, 4, 5, 6, 11}
  DelayOperands = {0, 1, 7, 13, 14, 15}
  MaxPoll = 3
SPECIFICATION Spec
INVARIANTS
  TypeOK
  NeverLate
PROPERTIES
  NeverShort
  WaitsEnd
