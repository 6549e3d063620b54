CONSTANTS
  Count = 2
  BaseDelay = 2
  MaximumWaits <- TwoMaximums
  Second = 4
  Width = 8
  BodyAdvice <- DelaysRead
  HeaderSeconds <- SecondsRead
  HeaderDates <- DatesRead
SPECIFICATION Spec
INVARIANTS BodiesClosed SentWhole RetriedForCause WaitsInRange
CHECK_DEADLOCK FALSE
