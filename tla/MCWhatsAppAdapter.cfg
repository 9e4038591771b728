SPECIFICATION Spec
CONSTANTS
  s1 = s1
  s2 = s2
  Socket <- MCSocket
  NoSocket = NoSocket
  MaxRetries = 2
  MaxDials = 2
  MaxArmed = 2
  MaxWrites = 2
INVARIANTS
  OneConnection
  DisposedIsDown
  ForgetsSession
  NeverWaitsInVain
