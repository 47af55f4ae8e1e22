SPECIFICATION Spec
CONSTANTS
  Null = Null
  t1 = t1
  MCRequest = {"discover", "select"}
  Request <- MCRequest
  OpOf <- MCOpOf
  Schema <- MCSchema
  Name <- MCName
  Column <- MCColumn
  Mapping <- MCMapping
  ColumnsOf <- MCColumnsOf
  Contents <- MCContents
  Tab = {t1}
  TabOf <- MCTabOf
  Seed <- MCSeed
  MaxRestarts = 1
PROPERTIES
  SelectionIsKept
