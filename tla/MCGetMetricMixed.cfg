CONSTANTS
  ColNames <- MCColNames
  LabelNames <- MCLabelNames
  DBNameLabel <- MCDBNameLabel
  Columns <- MCColumns
  Queries <- MCQueriesMixed
  ColValues <- MCColValues
  MaxRows = 2
  NextMayFail = FALSE
SPECIFICATION Spec
INVARIANT NoPanic
