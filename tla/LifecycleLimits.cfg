SPECIFICATION Spec
CONSTANTS
  Agents = {a1}
  Peers = {peer}
  PeerBits = {"MSG", "STOP"}
  Kernel = kernel
CHECK_DEADLOCK FALSE
INVARIANTS NoGhosts
PROPERTIES OverdueIsKilled CrashIsSeen
