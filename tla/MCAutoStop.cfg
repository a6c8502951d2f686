CONSTANTS
  Sustain = 4
  Verify = 2
  Classes = {"spaghetti", "stringing"}
  MaxConf = 1
SPECIFICATION Spec
INVARIANTS
  TwoSendsPerArming
  LatchMeansSent
PROPERTIES
  FireOnlyAfterSustain
