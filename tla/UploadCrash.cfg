CONSTANTS
  Clients = {c1}
  Handlers = {h1}
  Chunks = 2
  NoHandler = NoHandler
  NoRow = NoRow
  chunkRetry = 1
  MaxDeletes = 0
  MaxRestarts = 1
SPECIFICATION SerialSpec
INVARIANTS
  UploadedIsStored
CHECK_DEADLOCK FALSE
