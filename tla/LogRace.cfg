SPECIFICATION Spec
CONSTANTS
  Writers = {w1, w2}
  Capacity = 2
  TailLength = 2
  MaxAppends = 2
  Blank = Blank
CHECK_DEADLOCK FALSE
INVARIANTS NumbersUnique
