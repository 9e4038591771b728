SPECIFICATION ChannelFairSpec
CONSTANTS
  o1 = o1
  o2 = o2
  Op <- MCOp
  None = None
  MaxEdits = 1
  MaxFaults = 1
INVARIANTS
  RecordsAgree
PROPERTIES
  CallsTakeEffect
  StatusSettles
