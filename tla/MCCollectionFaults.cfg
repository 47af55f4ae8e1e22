SPECIFICATION FairSpec
CONSTANTS
  Null = Null
  SourceId <- MCSourceId
  Quantity <- MCQuantity
  Batch <- MCBatch
  MasterKey <- MCMasterKey
  MasterValue <- MCMasterValue
  TypeOf <- MCTypeOf
  Outcomes <- MCFewer
  Handler = {h1}
  Faults = {"database", "crash"}
  MaxRuns = 3
INVARIANTS
  StaleOnlyAfterFailure
  RebuildRepairs
  DuplicatesAreCounted

  
