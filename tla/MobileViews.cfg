SPECIFICATION ViewsSpec
CONSTANTS
  Roots <- RootsDef
  Items = {i1, i2}
  Followed = i1
  MaxWrites = 2
  MaxFaults = 1
  MaxGestures <- GesturesDef
INVARIANTS
  OwnWritesAreShown
  NobodyIsStranded
PROPERTIES
  ActionsAreNotRepeated
CHECK_DEADLOCK FALSE
