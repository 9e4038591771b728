SPECIFICATION Spec
CONSTANTS
  Trees <- MCTrees
  MaxDepth = 4
INVARIANT NoLevelSkipped
\* The outermost orchestration ends.
CHECK_DEADLOCK FALSE
