CONSTANTS
  Handlers = {h1}
  Shares = {s1, s2, s3}
  NoShare = NoShare
  Late = Late
  LastNumber = 1
  NoOption = NoOption
  Options = {o1, o2}
  MaxFiles = 1
SPECIFICATION SteadySpec
SYMMETRY Symmetry
INVARIANTS
  TypeOK
  EntriesHaveRows
  NumberIsOwn
  FolderIsOwn
PROPERTIES
  AnsweredIsServed
  Registry
CHECK_DEADLOCK FALSE
