SPECIFICATION FairSpec
CONSTANTS
  Url = {}
  Status <- MCStatus
  MaxRetries = 1
  Selected <- MCSelected
  Initially <- MCInitially
  PageSize = 1
  PageCeiling = 2
  MaxRows = 3
  RowsOf <- MCRowsOf
  Scalars <- MCTorn
  Strange = {"no array", "always more", "no pagination"}
INVARIANTS
  TypeOK
  NothingMissed
PROPERTIES
  KeepsContract
CHECK_DEADLOCK FALSE
