SPECIFICATION Spec
CONSTANTS
  Null = Null
  SourceId <- MCSourceId
  Quantity <- MCQuantity
  Batch <- MCBatch
  MasterKey <- MCMasterKey
  MasterValue <- MCMasterValue
  TypeOf <- MCTypeOf
  Outcomes <- MCOutcomes
  Handler = {h1, h2}
  Faults = {}
  MaxRuns = 2
SYMMETRY MCSymmetry
INVARIANTS
  ContributionsAreSound
  EventHasOneWinner
  EventIsItsResolution
  RunsAccountForTheirRecords
  MasterDataIsAudited
  EachRunHasOneRequest
PROPERTIES
  LedgerSpec
  ProvidesAccepted
  FinishedRunsAreKept
