CONSTANTS
  Torrents = {b1, b2, b3}
  Names = {n1, n2, n3}
  Workers = {w1, w2}
  Requests = {r1, r2}
  NoTorrent = NoTorrent
  NoName = NoName
  NoEntry = NoEntry
  count_down_bt = 1
  Scenes <- RowScenes
SPECIFICATION FairSpec
VIEW Control
INVARIANTS
  TypeOK
  SlotBound
  EntryHasRow
PROPERTIES
  PatientDoneIsWhole
  LaunchedCompletes
CHECK_DEADLOCK FALSE
