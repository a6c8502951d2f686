CONSTANTS
  j1 = j1
  j2 = j2
  j3 = j3
  a = a
  b = b
  Jobs = {j1, j2, j3}
  Names = {a, b}
  NoJob = NoJob
  MaxFinished = 1
  MaxThreads = 2
CONSTANT
  NameOf <- SameName
SPECIFICATION FairSpec
INVARIANTS
  OneWorker
  IndexesAgree
  HistoryBounded
  EntryHasFile
  WorkInHand
PROPERTIES
  LifeOfAJob
  TakenJobsFinish
  WaitingJobsMove
