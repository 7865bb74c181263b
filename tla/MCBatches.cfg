CONSTANTS
  MaxNesting = 3
  MaxEnvelopes = 3
  I64 = 40
  RpLen = 1
  CountLen = 2
  AaguidLen = 1
  Micros = 10
  MaxRows = 3
  Loads <- MCLoads
  Columned <- MCColumned
  Blobs <- Blob
  Texts <- MCTexts
  Value <- MCValue
SPECIFICATION Spec
INVARIANTS
  KeepsTheGoodRows
  WritesLoadAgain
  AnswersRowByRow
  ViewsRowByRow
  FansOutPerRow
