CONSTANTS
  MaxNesting = 3
  MaxEnvelopes = 3
  I64 = 40
  RpLen = 1
  CountLen = 2
  AaguidLen = 1
  Messages <- MCMessages
  Keys <- MCKeys
  ClaimSets <- MCClaimSets
  Authenticators <- MCAuthenticators
  Statements <- MCStatements
  Shuffled <- MCShuffled
  Docs <- MCDocs
  JsonTexts <- MCJsonTexts
SPECIFICATION Spec
INVARIANTS
  HeadersReadBack
  KeyReadsBack
  ClaimsReadBack
  AuthenticatorReadsBack
  CanonicalForgetsOrder
  DuplicatesFound
  JsonRoundTrips
  TagViewsAgree
