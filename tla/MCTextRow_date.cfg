\* A DATE and a DATETIME(3) on the default text path (dateStrings false).
CONSTANTS
  Undefined = Undefined
  Fieldss <- DateFieldss
  CellValues <- MCCellValues
  Optionss <- PlainOptionss
  Configs <- PlainConfigs
  EarlierQueries <- NoEarlierQueries
SPECIFICATION Spec
INVARIANT RowDecodesAsSent
CHECK_DEADLOCK FALSE
