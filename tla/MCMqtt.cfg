SPECIFICATION FairSpec
CONSTANTS
  Null = Null
  m1 = m1
  m2 = m2
  r1 = r1
  t1 = t1
  Reading <- MCReading
  Topic <- MCTopic
  Time <- MCTime
  Payload <- MCPayload
  Retained <- MCRetained
  BufferLimit = 3
  MaxPublished = 4
INVARIANTS
  TypeOK
  ReleasesWhatItHolds
  HandedOverIsRecorded
PROPERTIES
  KeepsContractButForNull
CHECK_DEADLOCK FALSE
