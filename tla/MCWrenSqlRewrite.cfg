\* Five objects and the date spine, at most one calculated column per model.
CONSTANTS
  Name = {1, 2, 3, 4, 5, 6}
  DateSpine = 6
  key = key
  foreign = foreign
  extra = extra
  Column <- Columns
  Key = key
  Foreign = foreign
SPECIFICATION MCSpec
INVARIANTS
  NamedDefinedOnce
  ReadsGiven
  DynamicWithinStatic
\* A request stops when its statement is rewritten.
CHECK_DEADLOCK FALSE
