CONSTANTS
  Radix = 3
  I32 = 8
  I64 = 128
  I128 = 32768
  Sec34 = 64
  UnitDigits = 1
  SecsPerDay = 2
  Columns <- MCDecimalColumn
  CellsOf <- MCBetween
  Targets <- MCNone
  Foreign <- MCForeign
  ForeignExt <- MCForeignExt
SPECIFICATION Spec
INVARIANT CellsRoundTrip
