SPECIFICATION Spec
CONSTANTS
  p1 = p1
  p2 = p2
  k1 = k1
  k2 = k2
  Procs = {p1, p2}
  Key = {k1, k2}
  Value = {v1, v2}
  Size = 2
  Home <- SharedHome
  Writes <- OwnKeys
  MaxCalls <- ThreeCalls
  NoKey = NoKey
  Blank = Blank
  None = None
CHECK_DEADLOCK FALSE
INVARIANTS WrittenKeysStay
