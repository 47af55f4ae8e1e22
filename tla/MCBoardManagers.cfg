SPECIFICATION Spec
CONSTANTS
  Null = Null
  SourceId <- MCSourceId
  Quantity <- MCQuantity
  StaleThreshold = 1
  Tolerance = 10
  Batch <- MCBatch
  Link <- MCLink
  Choice <- MCKnown
  Manager = {m1, m2}
  Client = {}
  ScopeOf <- MCNoScope
  ActionTypes <- MCActionTypes
  MaxActions = 2
  MaxTime = 1
SYMMETRY MCSymmetry
INVARIANTS
  ActionsAreOnTheBoard
  RefusedOnlyIfUnknown
  ReplayFollowsRealTime
