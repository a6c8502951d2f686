CONSTANTS
  Sustain = 2
  Verify = 1
  Printers = {p1}
  NoPrinter = NoPrinter
  StaleAfter = 1
  TerminateTimeout = 1
  MaxSpawnFailures = 2
SPECIFICATION FairSpec
PROPERTIES
  NoStaleStop
  SwitchForgets
  DetectorRespawned
  CountdownsEnd
  StopsResolve
