CONSTANTS
  ColNames <- MCColNames
  LabelNames <- MCLabelNames
  DBNameLabel <- MCDBNameLabel
  Columns <- MCColumns
  Queries <- MCQueries
  ColValues <- MCColValues
  MaxRows = 2
  NextMayFail = FALSE
SPECIFICATION Spec
INVARIANT TypeOK NoDuplicateSeries
PROPERTY ImplementsScrapeSpec
