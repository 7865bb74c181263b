CONSTANTS
  Chunk = 3
  MaxLen = 7
  MaxVersion = 2
SPECIFICATION FairSpec
INVARIANTS
  Contiguous
  EofIsTheEnd
  NoRedundantRequest
PROPERTIES
  Terminates
