SPECIFICATION FairSpec
CONSTANTS
  m1 = m1
  m2 = m2
  m3 = m3
  Model = {m1, m2, m3}
  Chains <- MCChains
  Period = {7, 30}
  Policies <- MCPolicies
  None = None
  MaxRounds = 2
  MaxCalls = 2
  MaxSteps = 2
  MaxOther = 1
INVARIANTS
  BudgetKept
  RoundsComplete
PROPERTIES
  FallbackOrder
  StepEnds
