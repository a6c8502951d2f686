CONSTANTS
  Spools = {s1, s2}
  Printers = {p1, p2}
  NoPrinter = NoPrinter
  Parts = {A, B}
  Revisions = {A, B}
  Recipes = {r1, r2}
  None = None
  Copies = 2
  Uuids = {u1}
  Badges = {b1, b2}
  AutoBadges = {b1}
  Statements = 2
  Threads = {main, t1}
  Main = main
  NoThread = NoThread
  Scenarios <- MCScenarios
  MaxFaults = 1
SPECIFICATION Spec
INVARIANTS
  CommittedSound
  ServesMigrated
PROPERTIES
  RaiseRestores
  OnlyMalformedStopsBoot
  IsAtomic
SYMMETRY Symmetry
