---------------------------- MODULE MCPrintRun ----------------------------
EXTENDS PrintRun, TLC

\* API threads are interchangeable; used where only safety is checked.
ClientSymmetry == Permutations(Clients)

===========================================================================
