SPECIFICATION Spec
CONSTANTS
  Jobs = {j1}
  NoJob = NoJob
  Clients = {c1, c2}
  MaxRuns = 3
  MaxPrints = 1
  MaxFaults = 0
  MaxCommands = 1
  MayPause = TRUE
INVARIANTS ChargedByCloser NoRowForgotten
PROPERTIES VerdictStands
SYMMETRY ClientSymmetry
