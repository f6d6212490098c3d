\* Three tables, two columns; the stack has room for a call for every field.
CONSTANTS
  Table = {1, 2, 3}
  Column = {"c", "y"}
  Name = {"c", "y", "r", "x", "f", "g", "h"}
  MaxDepth = 6
  MaxSources = 1
  MaxText = 8
SPECIFICATION MCSpec
INVARIANTS
  LineageInv
  RequiredFieldsExact
  CycleErrorExact
  OverflowOnlyInFieldCircle
  ExpansionExact
PROPERTIES
  ImplementsPlan
  RequiredFieldsReturns
\* A call that has returned is a proper end, and a text may grow beyond MaxText.
CHECK_DEADLOCK FALSE
