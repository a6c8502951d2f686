CONSTANTS
  Serials = {s1, s2}
  Threads = {t1, t2}
  NoThread = NoThread
  MaxServices = 3
  MaxConfigs = 2
SPECIFICATION Spec
INVARIANTS
  FileConverges
  ServicesMatch
  ServicesSettle
  StoppedStaysDown
SYMMETRY Symmetry
