CONSTANTS
  Names = {"machine", "template", "common"}
  None = None
  Failure = Failure
  Trees <- MCTrees
SPECIFICATION Spec
INVARIANTS
  ResolvesOrRaises
  RealGcodeWins
