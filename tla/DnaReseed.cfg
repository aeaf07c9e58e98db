SPECIFICATION Spec
CONSTANTS
  g1 = g1
  g2 = g2
  g3 = g3
  Genome = {g1, g2, g3}
  Length <- Lengths
  Rank <- Ranks
  Initial = g1
  Proposed = {}
  Mutators = {m1}
  Probe = probe
  MaxChunks = 3
  MaxCalls = 3
CHECK_DEADLOCK FALSE
INVARIANTS SeedsOnce
