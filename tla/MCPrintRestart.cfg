SPECIFICATION FairSpec
CONSTANTS
  Jobs = {j1}
  NoJob = NoJob
  Clients = {c1}
  MaxRuns = 2
  MaxPrints = 1
  MaxFaults = 1
  MaxCommands = 1
  MayPause = FALSE
INVARIANTS NoRowForgotten
PROPERTIES LiveRunKept RestartResolves
