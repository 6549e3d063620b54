CONSTANTS
  Count = 2
  BaseDelay = 2
  MaximumWaits <- OneMaximum
  Second = 4
  Width = 8
  BodyAdvice <- DelaysRead
  HeaderSeconds <- SecondsRead
  HeaderDates <- DatesRead
SPECIFICATION Spec
INVARIANT WaitsAsDescribed
CHECK_DEADLOCK FALSE
