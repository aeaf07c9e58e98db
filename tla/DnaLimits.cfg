SPECIFICATION Spec
CONSTANTS
  g1 = g1
  g2 = g2
  g3 = g3
  Genome = {g1, g2, g3}
  Length <- Lengths
  Rank <- Ranks
  Initial = g1
  Proposed = {g3}
  Mutators = {m1, m2}
  Probe = probe
  MaxChunks = 3
  MaxCalls = 2
CHECK_DEADLOCK FALSE
INVARIANTS TornReadsPass
PROPERTIES OnlyImproves
