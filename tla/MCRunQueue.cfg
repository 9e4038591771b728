SPECIFICATION QueueFairSpec
CONSTANTS
  a1 = a1
  a2 = a2
  Slot <- MCSlot
  Attempts = 2
  Polls = 2
  MaxRequests = 2
  MaxFaults = 2
  MaxRestarts = 1
INVARIANTS
  OutcomesAreTrue
  CheckpointSound
PROPERTIES
  WaitingEnds
\* Every request was made and the run is over.
CHECK_DEADLOCK FALSE
