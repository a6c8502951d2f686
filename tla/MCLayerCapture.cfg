CONSTANTS
  Captures = {c1, c2}
  NoCapture = NoCapture
  MaxPrints = 2
  MaxLayers = 1
  MaxFailures = 2
SPECIFICATION Spec
INVARIANTS
  MisfiledExplained
  DirectoryConsistent
PROPERTIES
  ServedForward
SYMMETRY Symmetry
\* close() that raised has ended the network thread.
CHECK_DEADLOCK FALSE
