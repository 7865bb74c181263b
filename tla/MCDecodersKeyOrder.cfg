CONSTANTS
  MaxNesting = 3
  MaxEnvelopes = 3
  I64 = 40
  RpLen = 1
  CountLen = 2
  AaguidLen = 1
  Messages <- MCNone
  Keys <- MCAnyKeys
  ClaimSets <- MCNone
  Authenticators <- MCNone
  Statements <- MCNone
  Shuffled <- MCNone
  Docs <- MCNone
  JsonTexts <- MCNone
SPECIFICATION Spec
INVARIANT RsaFieldsInAnyOrder
