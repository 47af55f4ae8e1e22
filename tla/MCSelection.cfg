SPECIFICATION Spec
CONSTANTS
  Null = Null
  t1 = t1
  MCRequest = {"test", "discover", "select", "collect"}
  Request <- MCRequest
  OpOf <- MCOpOf
  Schema <- MCSchema
  Name <- MCName
  Column <- MCColumn
  Mapping <- MCMapping
  ColumnsOf <- MCColumnsOf
  Contents <- MCContents
  Tab = {t1}
  TabOf <- MCTabOf
  Seed <- MCSeed
  MaxRestarts = 1
INVARIANTS
  TypeOK
  OnlyReportedIdentifiers
PROPERTIES
  StatusIsOfTheLastTest
  KeepsContract
