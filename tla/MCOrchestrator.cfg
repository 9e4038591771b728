SPECIFICATION FairSpec
CONSTANTS
  Tasks = 2
  MaxRetries = 1
  Limit <- MCLimit
INVARIANTS
  ApprovalsHold
  StatusIsTrue
PROPERTIES
  RetryDiscipline
  FinalRowsStay
  OrchestrationSettles
  ApprovedRunResumes
\* orchestrate returns, or its process dies: nothing restarts it.
CHECK_DEADLOCK FALSE
