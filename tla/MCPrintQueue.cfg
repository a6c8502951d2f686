CONSTANTS
  Printers = {p1, p2}
  Jobs = {j1, j2}
  Threads = {t1, t2, t3}
  NoThread = NoThread
  MaxChanges = 4
  MaxOrder = 2
SPECIFICATION Spec
INVARIANTS
  AckedIsStored
  FileCatchesUp
PROPERTIES
  IsDurable
