SPECIFICATION DispatchFairSpec
CONSTANTS
  m1 = m1
  m2 = m2
  m3 = m3
  Slot <- MCSlot
  NoBucket = NoBucket
  Limit = 2
  Window = 3
  Timeout = 2
  MaxAttempts = 2
  RetryDelay = 1
INVARIANTS
  RateKept
  AnswersOnTime
PROPERTIES
  DispatchEnds
