CONSTANTS
  Files = {f1, f2, f3}
  Workers = {w1, w2}
  Requests = {r1, r2}
  Names = {n1, n2, n3}
  NoFile = NoFile
  NoEntry = NoEntry
  count_down = 1
  MaxBatch = 1
  Scenes <- Every
SPECIFICATION FairSpec
VIEW Seen
INVARIANTS
  TypeOK
  SlotBound
  StoppedIsSwept
  PartIsPrefix
  DoneIsFinished
PROPERTIES
  StopTakesEffect
  LaunchedCompletes
CHECK_DEADLOCK FALSE
