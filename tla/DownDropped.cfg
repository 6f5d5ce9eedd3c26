CONSTANTS
  Files = {f1, f2}
  Workers = {w1}
  Requests = {r1}
  Names = {n1, n2}
  NoFile = NoFile
  NoEntry = NoEntry
  count_down = 1
  MaxBatch = 1
  Scenes <- DropOnly
SPECIFICATION Spec
PROPERTIES
  DroppedIsGone
CHECK_DEADLOCK FALSE
