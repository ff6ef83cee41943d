SPECIFICATION Spec
CONSTANTS
  None = None
  Torn = Torn
  Devs = {1, 2}
  Crashing = {1}
  NameOf <- OwnNames
  Columns = {x, y}
  MaxSeq = 2
  MaxEdits = 1
SYMMETRY ColumnSymmetry
CHECK_DEADLOCK FALSE

  
PROPERTIES
  CompleteStays
  
