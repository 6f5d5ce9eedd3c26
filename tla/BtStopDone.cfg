CONSTANTS
  Torrents = {b1}
  Names = {n1}
  Workers = {w1}
  Requests = {r1}
  NoTorrent = NoTorrent
  NoName = NoName
  NoEntry = NoEntry
  count_down_bt = 1
  Scenes <- StopScenes
SPECIFICATION Spec
INVARIANTS
  DoneIsWhole
CHECK_DEADLOCK FALSE
