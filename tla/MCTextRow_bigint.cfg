CONSTANTS
  Undefined = Undefined
  Fieldss <- BigFieldss
  CellValues <- MCCellValues
  Optionss <- PlainOptionss
  Configs <- BigConfigs
  EarlierQueries <- NoEarlierQueries
SPECIFICATION Spec
INVARIANT RowDecodesAsSent
CHECK_DEADLOCK FALSE
