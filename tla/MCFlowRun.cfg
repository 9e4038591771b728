SPECIFICATION FairSpec
CONSTANTS
  n1 = n1
  n2 = n2
  n3 = n3
  ghost = ghost
  NoNode = NoNode
  Node <- MCNode
  Flows <- MCFlows
  Limit <- MCLimit
  MaxAttempts = 2
  Cancels = 1
  Crashes = 1
  Faults = 1
INVARIANTS
  StepRowsSound
  OutcomeTellsRows
  EventsTellRows
PROPERTIES
  RunFollowsAdr
  ImplementsSearch
  ExecutionEnds
CHECK_DEADLOCK FALSE
