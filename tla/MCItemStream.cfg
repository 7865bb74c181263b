CONSTANTS
  MaxBytes = 4
  Chunk = 2
  MaxCalls = 6
  Nesting <- MCNesting
  Streams <- MCStreams
SPECIFICATION FairSpec
INVARIANTS
  StreamingAgrees
  ParsersAgree
  CutKeepsWholeItems
PROPERTIES
  ImplementsItemFeed
  Stops
CHECK_DEADLOCK FALSE
