CONSTANTS
  Sustain = 4
  Verify = 2
  Printers = {p1}
  NoPrinter = NoPrinter
  StaleAfter = 5
  TerminateTimeout = 2
  MaxSpawnFailures = 0
SPECIFICATION Spec
PROPERTIES
  NoStaleStop
