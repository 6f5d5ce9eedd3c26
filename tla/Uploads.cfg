CONSTANTS
  Clients = {c1, c2}
  Handlers = {h1}
  Chunks = 3
  NoHandler = NoHandler
  NoRow = NoRow
  chunkRetry = 1
  MaxDeletes = 1
  MaxRestarts = 1
SPECIFICATION PromptFairSpec
VIEW Control
INVARIANTS
  TypeOK
  
  
  
PROPERTIES
  IndexFollowsDisk
CHECK_DEADLOCK FALSE
