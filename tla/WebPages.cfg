SPECIFICATION Spec
CONSTANTS
  Starts <- StartsDef
  Items = {i1, i2}
  MaxWrites = 2
  MaxFaults = 1
  MaxGestures <- GesturesDef
INVARIANTS
  OwnWritesAreShown
  OnlyWritersWrite
  RowsKeepTheirValues
SYMMETRY Rows
CHECK_DEADLOCK FALSE
