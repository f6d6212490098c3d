\* Models may be built on other models (baseObject).
CONSTANTS
  Name = {1, 2, 3, 4, 5}
  DateSpine = 5
  MaxBroken = 0
  ModelBases = TRUE
SPECIFICATION MCSpec
INVARIANT ModelBaseDefined
CHECK_DEADLOCK FALSE
