SPECIFICATION Spec
CONSTANTS
  Types = {"alert", "other"}
  Routes <- LinkRoutes
  Slots = 2
  FrameLen = 2
  MaxSends = 3
  MaxConns = 2
CHECK_DEADLOCK FALSE
INVARIANTS TypeOK OnePlace InOrder
PROPERTIES Settles
