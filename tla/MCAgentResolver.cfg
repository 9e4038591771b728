SPECIFICATION FairSpec
CONSTANTS
  b1 = b1
  b2 = b2
  b3 = b3
  a1 = a1
  a2 = a2
  Op = {1, 2}
  Binding <- MCBinding
  Agent <- MCAgent
  agentOf <- MCagentOf
  priority <- MCpriority
  None = None
  TTL = 2
  Latency = 1
  MaxFaults = 1
  MaxWrites = 1
INVARIANTS
  StaleForBoundedTime
  RightAgent
PROPERTIES
  ResolveEnds
