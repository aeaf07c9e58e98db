SPECIFICATION Spec
CONSTANTS
  Agents = {a1}
  Peers = {peer}
  PeerBits = {"MSG", "STOP"}
  Kernel = kernel
CHECK_DEADLOCK FALSE
INVARIANTS TypeOK CrashedIsGone
PROPERTIES ZombieStays CrashIsReported ShutdownEndsAll
