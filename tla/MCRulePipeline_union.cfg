\* Objects 1..5 and the names 1 and 6 for WITH queries of the statement's own.
CONSTANTS
  Object = {1, 2, 3, 4, 5}
  OwnName = {1, 6}
  JoinTable = {1, 2, 3, 4}
  Key = {1}
SPECIFICATION MCSpec
INVARIANT SetOperationKept
\* A statement is rewritten once.
CHECK_DEADLOCK FALSE
