SPECIFICATION Spec
CONSTANTS
  Null = Null
  SourceId <- MCSourceId
  Quantity <- MCQuantity
  StaleThreshold = 1
  Tolerance = 10
  Batch <- MCOne
  Link <- MCLink
  Choice <- MCOneChoice
  Manager = {m1}
  Client = {"drawer"}
  ScopeOf <- MCDrawer
  ActionTypes = {"BLOCK"}
  MaxActions = 1
  MaxTime = 2
INVARIANTS
  WorkInProgressAddsUp
PROPERTIES
  ShownNeverGoesBack
  StaleUntilNewerEvent
