SPECIFICATION Spec
CONSTANTS
  Names = {a, b}
  Slots = {o1, o2}
  Size = 2
  MaxOps = 3
  MaxCrash = 1
  None = None
SYMMETRY Symmetry
INVARIANT ArrivesWhole
 
CHECK_DEADLOCK FALSE
