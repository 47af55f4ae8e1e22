SPECIFICATION FairSpec
CONSTANTS
  Null = Null
  Malformed = Malformed
  p0 = p0
  p1 = p1
  p2 = p2
  p3 = p3
  p4 = p4
  d1 = d1
  d2 = d2
  b1 = b1
  Url <- MCUrl
  Normal <- MCNormal
  StartUrl = p0
  Status <- MCStatus
  Text <- MCText
  Quantity <- MCQuantity
  Portal <- MCPortal
  MaxRetries = 2
  MaxPages = 3
INVARIANTS
  TypeOK
  IncompleteIsReported
  RequestsAreBounded
PROPERTIES
  KeepsContract
CHECK_DEADLOCK FALSE
