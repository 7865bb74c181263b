CONSTANTS
  Radix = 3
  I32 = 8
  I64 = 128
  I128 = 32768
  Sec34 = 64
  UnitDigits = 1
  SecsPerDay = 2
  Columns <- MCColumns
  CellsOf <- MCCellsOf
  Targets <- MCTargets
  Foreign <- MCForeign
  ForeignExt <- MCForeignExt
SPECIFICATION Spec
INVARIANTS
  CellsRoundTrip
  ExactOrRefused
  WithinTarget
  AcceptsWhatFits
  TranscodingSettles
