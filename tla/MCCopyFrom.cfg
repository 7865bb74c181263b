CONSTANTS
  BatchRows = 2
  MaxItems = 2
  Jobs <- MCAllJobs
SPECIFICATION FairSpec
INVARIANTS
  TypeOK
  OnlyGoodRowsDelivered
  DeliveredInSourceOrder
  StrictSuccessIsComplete
  LenientKeepsGoodRows
  NothingAfterDamage
PROPERTIES
  Terminates
  ImplementsRowLoad
