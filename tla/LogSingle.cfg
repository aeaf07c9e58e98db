SPECIFICATION Spec
CONSTANTS
  Writers = {w1}
  Capacity = 2
  TailLength = 2
  MaxAppends = 5
  Blank = Blank
CHECK_DEADLOCK FALSE
INVARIANTS Retained TailIsGenuine
