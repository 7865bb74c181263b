CONSTANTS
  Execs = {e1, e2}
  Paths = {"local", "remote", "readonly", "glob", "unsupported"}
  Dest <- MCDest
  BufPieces = 2
  MaxRows = 3
  AllRows = 4
  RowSizes = {1, 3}
  Statements <- MCStatements
  Old = Old
  Hole = Hole
SPECIFICATION FairSpec
INVARIANTS
  SuccessWritesAll
  LocalPrefix
  RemoteAllOrNothing
PROPERTIES
  ChangeIsWarranted
  Terminates
