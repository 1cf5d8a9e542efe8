\* As MCTimer, for what the header's delay is documented to be.
CONSTANTS
  CounterBase = 16
  DelayUnit = 3
  PROGRAMMING_TIMEOUT_MS = 10
  BlinkTimes = {2}
  HeaderDelays = {0, 1, 4, 5, 6, 11}
  DelayOperands = {0, 1, 7, 13, 14, 15}
  MaxPoll = 3
SPECIFICATION Spec
PROPERTIES
  InitialDelayAsAsked
