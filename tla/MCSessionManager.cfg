SPECIFICATION Spec
CONSTANTS
  o1 = o1
  o2 = o2
  Op <- MCOp
  Window = 2
  MaxMessages = 3
  MaxFaults = 1
  NoCopy = NoCopy
INVARIANTS
  CopyAgreesWithRows
  HistorySound
\* The bound on messages is reached and nothing is under way.
CHECK_DEADLOCK FALSE
