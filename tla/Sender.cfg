CONSTANTS
  big = big
  small = small
  Files = {big, small}
  NoFile = NoFile
  Chunks <- BlocksOf
  chunkRetry = 1
  Threads = {1, 2}
  MaxClicks = 4
SPECIFICATION FairSpec
INVARIANTS
  TypeOK
  ReportedIsAnswered
  CountersAgree
  EndedIsIdle
  NeverStuck
PROPERTIES
  ButtonComesBack
  NothingWaits
  SendsInOrder
CHECK_DEADLOCK FALSE
