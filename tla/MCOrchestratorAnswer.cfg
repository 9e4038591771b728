SPECIFICATION Spec
CONSTANTS
  Tasks = 2
  MaxRetries = 1
  Limit <- MCLimit
PROPERTIES
  AnswerCompletes
\* orchestrate returns, or its process dies: nothing restarts it.
CHECK_DEADLOCK FALSE
