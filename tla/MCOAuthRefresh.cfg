SPECIFICATION FairSpec
CONSTANTS
  c1 = c1
  c2 = c2
  c3 = c3
  Asker <- MCAsker
  Admin <- MCAdmin
  None = None
  MaxTokens = 3
  MaxFaults = 1
INVARIANTS
  RefreshedOnce
  AnswerWasCurrent
PROPERTIES
  RevokedStaysGone
  CallsEnd
