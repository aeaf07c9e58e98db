SPECIFICATION Spec
CONSTANTS
  p1 = p1
  p2 = p2
  k1 = k1
  k2 = k2
  k3 = k3
  Procs = {p1, p2}
  Key = {k1, k2, k3}
  Value = {v1, v2}
  Size = 2
  Home <- CrowdedHome
  Writes <- OneWriter
  MaxCalls <- ThreeCalls
  NoKey = NoKey
  Blank = Blank
  None = None
CHECK_DEADLOCK FALSE
INVARIANTS OneSlotPerKey
PROPERTIES ImplementsMap
