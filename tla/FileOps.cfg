CONSTANTS
  Paths <- Tree
  Files <- Names
  Roots <- Homes
  Stored <- First
  NoFile = NoFile
  MaxOps = 3
  MaxChanges = 1
SPECIFICATION Spec
VIEW Control
INVARIANTS
  TypeOK
  RowHasFile
  FileHasRow
  OneRowEach
CHECK_DEADLOCK FALSE
