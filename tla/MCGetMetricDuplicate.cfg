CONSTANTS
  ColNames <- MCColNames
  LabelNames <- MCLabelNames
  DBNameLabel <- MCDBNameLabel
  Columns <- MCColumns
  Queries <- MCQueries
  ColValues <- MCColValuesTwoInvalid
  MaxRows = 2
  NextMayFail = FALSE
SPECIFICATION Spec
INVARIANT NoDuplicateSeries
