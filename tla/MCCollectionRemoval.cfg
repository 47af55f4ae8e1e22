SPECIFICATION Spec
CONSTANTS
  Null = Null
  SourceId <- MCSourceId
  Quantity <- MCQuantity
  Batch <- MCBatch
  MasterKey <- MCMasterKey
  MasterValue <- MCMasterValue
  TypeOf <- MCTypeOf
  Outcomes <- MCOutcomes
  Handler = {h1}
  Faults = {}
  MaxRuns = 2
INVARIANTS
  EventsHaveRecords
