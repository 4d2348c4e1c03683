CONSTANTS
  ColNames <- MCColNames
  LabelNames <- MCLabelNames
  DBNameLabel <- MCDBNameLabel
  Columns <- MCColumns
  Queries <- MCQueries
  ColValues <- MCColValues
  MaxRows = 2
  NextMayFail = TRUE
SPECIFICATION Spec
PROPERTY ImplementsScrapeSpec
