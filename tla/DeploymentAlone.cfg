SPECIFICATION SpecAlone
CONSTANTS
  Configs = {c1}
  Handlers = {h1, h2}
  Main = main
  Subs = {s1}
  AgentsPerSub = 1
  MaxStarts = 2
CHECK_DEADLOCK FALSE
INVARIANTS Tracked
