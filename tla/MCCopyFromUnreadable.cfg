CONSTANTS
  BatchRows = 2
  MaxItems = 2
  Jobs <- MCAllJobs
SPECIFICATION FairSpec
INVARIANT
  OnlyBadRowsAreSkipped
