SPECIFICATION SequentialSpec
CONSTANTS
  Inputs <- ForeignInputs
  Opcodes <- AllOpcodes
  MaxStack = 3
  Widths = {1, 2, 3, 4}
  MaxLength = 7
  ChunkBytes = 4
  MaxChunks = 2
  Rating <- NearRule
  Optimum = 0
  Tokens <- RuleTokens
  Alphabet <- RuleAlphabet
  Tags = {{"W", "C"}}
  Initial <- Bloated
  InitialSlots <- BloatedSlots
  MaxLen = 3
  MaxOps = 2
  Lambda = 2
  StallLimit = 2
  Generations = 5
  Pods = {"p", "q"}
  RingCap = 3
  WindowS = 4
  Cadences = {1, 3}
  MaxKills = 2
  MaxSamples = 4
  Ifaces = {"e", "f"}
  OldCount = 2
  Intervals = {1, 2}
  MaxErrors = 1
  MaxTicks = 2
  StaleAge = 30
CHECK_DEADLOCK FALSE
INVARIANTS NeverRaises FitsWhole WholeWindow KillShows AlarmsEnd HitsAreTimely GateIsHeeded
