SPECIFICATION ArraysSpec
CONSTANTS
  Null = Null
  SourceId <- MCSourceId
  Quantity <- MCQuantity
  Reportable <- MCReportable
INVARIANTS OrderIndependent EachRowContributesOnce RequiredSourceIsBelieved
PROPERTIES OnlyBetterRowsDislodge RepeatsAreHarmless
CHECK_DEADLOCK FALSE
