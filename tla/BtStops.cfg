CONSTANTS
  Torrents = {b1}
  Names = {n1}
  Workers = {w1, w2}
  Requests = {r1, r2}
  NoTorrent = NoTorrent
  NoName = NoName
  NoEntry = NoEntry
  count_down_bt = 1
  Scenes <- PairScenes
SPECIFICATION FairSpec
VIEW Control
INVARIANTS
  StoppedIsSwept
PROPERTIES
  StopTakesEffect
CHECK_DEADLOCK FALSE
