\* Five objects and the two rules; one object may be broken.
CONSTANTS
  Name = {1, 2, 3, 4, 5}
  DateSpine = 5
  MaxBroken = 1
  ModelBases = FALSE
SPECIFICATION MCSpec
INVARIANTS
  PlannerInv
  DefinedBeforeUse
  PlansWhatIsNeeded
  EdgeAtMostTwice
  RequiredFirst
  InDegCountsUnrelaxed
  CycleIffStuck
PROPERTIES
  ImplementsPlan
  PlanAnswered
\* A request stops when its plan is made.
CHECK_DEADLOCK FALSE
